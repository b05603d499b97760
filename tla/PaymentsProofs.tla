--------------------------- MODULE PaymentsProofs ---------------------------
(***************************************************************************)
(* The invariants of Payments, for any wallets, orders, keys, external ids *)
(* and calls, and any number of failures and crashes.                      *)
(***************************************************************************)
EXTENDS Payments, LedgerOpsProofs

Accounts == Wallets \X {"CASH", "PAYABLE", "FEE"}
EntryRecord == [account : Accounts, amount : Int]
Credits == {e \in EntryRecord : e.amount <= 0}

-----------------------------------------------------------------------------
(***************************************************************************)
(* The entries of a payment: its payer's cash, and credits                 *)
(***************************************************************************)

\* The participants of an order, as the split engine lists them.
LEMMA Participants ==
    ASSUME NEW order, WellFormed(order)
    PROVE  LET ps == order.participants IN
           /\ DOMAIN ps = 1..Len(ps) /\ Len(ps) \in Nat /\ IsFiniteSet(DOMAIN ps)
           /\ \A i \in DOMAIN ps : ps[i].ratio \in Nat
<1> DEFINE ps == order.participants
<1>1. ps \in Seq(Range(ps)) /\ \A x \in Range(ps) : x.ratio \in Nat
    BY DEF WellFormed
<1>2. DOMAIN ps = 1..Len(ps) /\ Len(ps) \in Nat /\ \A i \in DOMAIN ps : ps[i] \in Range(ps)
    BY <1>1, LenProperties DEF Range
<1>3. IsFiniteSet(1..Len(ps))
    BY <1>2, FS_Interval
<1> QED
    BY <1>1, <1>2, <1>3

\* The platform's fee is a part of the amount.
LEMMA FeeRange ==
    ASSUME NEW order, WellFormed(order), Splittable(order)
    PROVE  /\ RatioSum(order.participants) \in Nat \ {0}
           /\ RatioSum(order.participants)
                = SumFunctionOnSet([i \in DOMAIN order.participants |-> order.participants[i].ratio],
                                   DOMAIN order.participants)
           /\ Fee(order) \in Nat /\ Fee(order) <= order.amount
<1> DEFINE ps == order.participants
           ratio == [i \in DOMAIN ps |-> ps[i].ratio]
           R == RatioSum(ps)
           fee == order.feeRatio
           a == order.amount
<1>0. a \in Nat /\ fee \in Nat /\ Whole \in Nat \ {0} /\ Scale \in Nat \ {0}
    BY ScaleAssumption DEF WellFormed
<1>1. R = SumFunctionOnSet(ratio, DOMAIN ps)
    BY DEF RatioSum, SumFunction
<1>2. IsFiniteSet(DOMAIN ps) /\ \A i \in DOMAIN ps : ratio[i] \in Nat
    BY Participants
<1>3. R \in Nat
  <2> HIDE DEF ratio, R
  <2> QED
      BY <1>1, <1>2, SumOfNaturals
<1>4. R # 0 /\ R + fee = Whole
    BY DEF Splittable
<1>5. fee <= Whole
    BY <1>0, <1>3, <1>4
<1> DEFINE q == (a * fee) \div (Whole * Scale)
<1>6. q \in Nat /\ Whole * (Scale * q) <= a * fee
  <2>1. a * fee \in Nat
      BY <1>0
  <2> QED
      BY <1>0, <2>1, CutDown
<1>7. ShareOf(a, fee, Whole) = Scale * q
    BY DEF ShareOf
<1> HIDE DEF q, ps, a, fee, R, ratio
<1>8. Scale * q \in Nat /\ Scale * q <= a
  <2>1. Scale * q \in Nat
      BY <1>0, <1>6
  <2>2. a * fee <= a * Whole
      BY <1>0, <1>5
  <2>3. Whole * (Scale * q) <= Whole * a
      BY <1>0, <1>6, <2>1, <2>2
  <2> QED
      BY <1>0, <2>1, <2>3, Cancel
<1>9. Fee(order) = 0 \/ Fee(order) = Scale * q
    BY <1>7 DEF Fee, a, fee
<1> QED
    BY <1>0, <1>1, <1>3, <1>4, <1>8, <1>9 DEF ps, R, ratio, a

\* No participant's share is below zero: the cuts never take more than there is.
LEMMA SharesRange ==
    ASSUME NEW order, WellFormed(order), Splittable(order)
    PROVE  \A i \in DOMAIN order.participants : Shares(order)[i] \in Nat
<1> DEFINE ps == order.participants
           ratio == [i \in DOMAIN ps |-> ps[i].ratio]
           R == RatioSum(ps)
           total == order.amount - Fee(order)
           cut == [i \in DOMAIN ps |-> ShareOf(total, ps[i].ratio, R)]
<1>0. /\ IsFiniteSet(DOMAIN ps) /\ (\A i \in DOMAIN ps : ratio[i] \in Nat /\ ratio[i] = ps[i].ratio)
      /\ R \in Nat \ {0} /\ R = SumFunctionOnSet(ratio, DOMAIN ps)
      /\ total \in Nat /\ Scale \in Nat \ {0}
    BY Participants, FeeRange, ScaleAssumption DEF WellFormed
<1>1. Shares(order) = [cut EXCEPT ![LargestShare(ps)] = @ + total - SumFunction(cut)]
    BY DEF Shares, Distribute
<1>2. \A i \in DOMAIN ps : cut[i] = CutOf(total, ps[i].ratio, R, Scale)
    BY DEF ShareOf, CutOf
<1>3. DOMAIN cut = DOMAIN ps /\ SumFunction(cut) = SumFunctionOnSet(cut, DOMAIN ps)
    BY DEF SumFunction
<1> HIDE DEF cut, R, total, ratio
<1>4. ASSUME NEW i \in DOMAIN ps
      PROVE  cut[i] \in Nat /\ total - SumFunctionOnSet(cut, DOMAIN ps) \in Nat
  <2>1. PICK S : S = DOMAIN ps
      OBVIOUS
  <2>2. \A x \in S : ratio[x] \in Nat /\ cut[x] = CutOf(total, ratio[x], R, Scale)
      BY <1>0, <1>2, <2>1
  <2>3. IsFiniteSet(S) /\ total \in Nat /\ R \in Nat \ {0} /\ Scale \in Nat \ {0}
        /\ SumFunctionOnSet(ratio, S) = R
      BY <1>0, <2>1
  <2>4. CutShares(S, total, R, Scale, ratio, cut) /\ i \in S
      BY <2>1, <2>2, <2>3 DEF CutShares
  <2>5. cut[i] \in Nat /\ LeftOf(total, cut, S) \in Nat
      BY <2>4, FairShares
  <2> QED
      BY <2>1, <2>5 DEF LeftOf
<1>5. ASSUME NEW i \in DOMAIN ps PROVE Shares(order)[i] \in Nat
  <2> DEFINE rest == total - SumFunctionOnSet(cut, DOMAIN ps)
  <2>1. Shares(order) = [cut EXCEPT ![LargestShare(ps)] = @ + total - SumFunctionOnSet(cut, DOMAIN ps)]
      BY <1>1, <1>3
  <2>2. \A x \in DOMAIN ps : cut[x] \in Int
      BY <1>4
  <2>3. SumFunctionOnSet(cut, DOMAIN ps) \in Int
      BY <1>0, <2>2, SumRemove
  <2> QED
      BY <1>0, <1>3, <1>4, <2>1, <2>3
<1> QED
    BY <1>5

\* A payment's entries are the debit of its amount and credits, and sum to zero.
LEMMA PaymentShape ==
    ASSUME NEW order, WellFormed(order), Bookable(order)
    PROVE  LET es == PaymentEntries(order) IN
           /\ es \in Seq(EntryRecord) /\ Len(es) >= 2 /\ SumOf(es) = 0
           /\ es[1].amount = RoundTo(order.amount, Scale) /\ es[1].amount \in Nat
           /\ \A i \in 2..Len(es) : es[i].amount <= 0
<1> DEFINE a == RoundTo(order.amount, Scale)
           cash == Entry(Account(order.payer, "CASH"), a)
           es == PaymentEntries(order)
<1>0. a \in Nat
    BY RoundType, ScaleAssumption DEF WellFormed
<1> HIDE DEF a
<1>1. order.payer \in Wallets
    BY DEF Bookable, Splittable
<1>2. cash \in EntryRecord /\ cash.amount = a
    BY <1>0, <1>1 DEF Entry, EntryRecord, Accounts, Account
<1>3. SUFFICES ASSUME NEW tail \in Seq(Credits), es = <<cash>> \o tail, Balanced(es)
               PROVE  /\ es \in Seq(EntryRecord) /\ Len(es) >= 2 /\ SumOf(es) = 0
                      /\ es[1].amount = a /\ \A i \in 2..Len(es) : es[i].amount <= 0
  <2>1. CASE ~IsSplit(order)
    <3> DEFINE owed == Entry(Account(order.payer, "PAYABLE"), -a)
    <3>1. owed \in Credits
        BY <1>0, <1>1 DEF Entry, EntryRecord, Accounts, Account, Credits
    <3>2. es = <<cash, owed>> /\ <<cash, owed>> = <<cash>> \o <<owed>>
        BY <2>1 DEF PaymentEntries, SimpleEntries, a
    <3>3. Balanced(<<cash, owed>>)
        BY <1>0, TwoEntriesBalance
    <3>4. <<owed>> \in Seq(Credits)
        BY <3>1
    <3> HIDE DEF es, cash, owed
    <3> QED
        BY <1>0, <1>3, <3>2, <3>3, <3>4 DEF a, es
  <2>2. CASE IsSplit(order)
    <3> DEFINE ps == order.participants
    <3>0. Splittable(order) /\ Balanced(SplitEntries(order)) /\ Scale \in Nat \ {0}
        BY <2>2, ScaleAssumption DEF Bookable
    <3>1. FeeEntries(order) \in Seq(Credits)
      <4> DEFINE fee == Entry(Account(order.platform, "FEE"), -RoundTo(Fee(order), Scale))
      <4>1. RoundTo(Fee(order), Scale) \in Nat
          BY <3>0, FeeRange, RoundType
      <4>2. CASE order.feeRatio = 0 \/ order.platform = NoWallet
          BY <4>2 DEF FeeEntries
      <4>3. CASE ~(order.feeRatio = 0 \/ order.platform = NoWallet)
        <5>1. order.platform \in Wallets
            BY <3>0, <4>3 DEF Splittable
        <5>2. fee \in Credits
            BY <4>1, <5>1 DEF Entry, EntryRecord, Accounts, Account, Credits
        <5>3. FeeEntries(order) = <<fee>>
            BY <4>3 DEF FeeEntries
        <5> QED
            BY <5>2, <5>3
      <4> QED
          BY <4>2, <4>3
    <3>2. ShareEntries(order) \in Seq(Credits)
      <4>1. ASSUME NEW i \in DOMAIN ps PROVE ShareEntries(order)[i] \in Credits
        <5>1. RoundTo(Shares(order)[i], Scale) \in Nat
            BY <3>0, SharesRange, RoundType
        <5>2. ps[i].wallet \in Wallets
            BY <3>0 DEF Splittable
        <5> QED
            BY <5>1, <5>2 DEF ShareEntries, Entry, EntryRecord, Accounts, Account, Credits
      <4>2. ShareEntries(order) \in [1..Len(ps) -> Credits] /\ Len(ps) \in Nat
          BY <4>1, Participants DEF ShareEntries
      <4> QED
          BY <4>2
    <3> DEFINE tail == FeeEntries(order) \o ShareEntries(order)
    <3>3. tail \in Seq(Credits)
        BY <3>1, <3>2, ConcatProperties
    <3>4. es = <<cash>> \o tail /\ Balanced(es)
      <4>1. es = (<<cash>> \o FeeEntries(order)) \o ShareEntries(order) /\ Balanced(es)
          BY <2>2, <3>0 DEF PaymentEntries, SplitEntries, a
      <4>2. <<cash>> \in Seq({cash}) 
          OBVIOUS
      <4> QED
          BY <3>1, <3>2, <4>1, <4>2
    <3> HIDE DEF tail, es, cash
    <3> QED
        BY <1>0, <1>3, <3>3, <3>4 DEF a, es
  <2> QED
      BY <2>1, <2>2
<1> HIDE DEF es, cash
<1>4. <<cash>> \in Seq(EntryRecord) /\ tail \in Seq(EntryRecord)
    BY <1>2 DEF Credits
<1>5. /\ es \in Seq(EntryRecord) /\ Len(es) = 1 + Len(tail) /\ Len(tail) \in Nat
      /\ es[1] = cash /\ \A i \in 2..Len(es) : es[i] = tail[i - 1]
  <2>1. Len(<<cash>>) = 1 /\ <<cash>>[1] = cash
      OBVIOUS
  <2>2. Len(tail) \in Nat
      BY <1>4, LenProperties
  <2> QED
      BY <1>3, <1>4, <2>1, <2>2, ConcatProperties
<1>6. \A i \in 1..Len(tail) : tail[i].amount <= 0
    BY <1>3, ElementOfSeq DEF Credits
<1> QED
    BY <1>2, <1>3, <1>5, <1>6 DEF Balanced

-----------------------------------------------------------------------------
(***************************************************************************)
(* Type correctness, and what a step appends to the ledger                 *)
(***************************************************************************)
UndoRecord == [at : {"read", "post", "mark"}, payment : Ingests, kind : Kinds]

\* A ledger as a sequence of rows, and which of them are a payment's.
LEMMA RowsOf ==
    ASSUME NEW table \in Seq(Row)
    PROVE  /\ Len(table) \in Nat /\ DOMAIN table = 1..Len(table)
           /\ \A t \in 1..Len(table) : table[t] \in Row
           /\ \A p : PostedFor(table, p) = {t \in 1..Len(table) : table[t].referenceId = p}
           /\ \A t : Reversals(table, t) = {r \in 1..Len(table) : table[r].original = t}
<1>1. Len(table) \in Nat /\ DOMAIN table = 1..Len(table)
      /\ \A t \in 1..Len(table) : table[t] \in Row
    BY LenProperties
<1>2. \A t \in 1..Len(table) : table[t].status = "POSTED"
    BY <1>1 DEF Row
<1> QED
    BY <1>1, <1>2 DEF PostedFor, Reversals

LEMMA LedgerTypes ==
    ASSUME TypeOK
    PROVE  /\ ledger \in Seq(Row) /\ Len(ledger) \in Nat /\ DOMAIN ledger = 1..Len(ledger)
           /\ \A t \in 1..Len(ledger) : ledger[t] \in Row
           /\ \A p : PostedFor(ledger, p) = {t \in 1..Len(ledger) : ledger[t].referenceId = p}
           /\ \A p : Originals(p) = {t \in 1..Len(ledger) :
                        ledger[t].referenceId = p /\ ledger[t].original = NoOriginal}
           /\ \A t : Reversals(ledger, t) = {r \in 1..Len(ledger) : ledger[r].original = t}
    BY RowsOf DEF TypeOK, Originals

\* The one row of a payment that is no reversal.
LEMMA OriginalOfBooked ==
    ASSUME TypeOK, LedgerOfBookings, NEW p \in Booked
    PROVE  LET o == OriginalOf(p) IN
           /\ Originals(p) = {o} /\ o \in 1..Len(ledger) /\ p \in Ingests
           /\ ledger[o].referenceId = p /\ ledger[o].original = NoOriginal
           /\ Bookable(OrderOf[p]) /\ ledger[o].entries = PaymentEntries(OrderOf[p])
<1>0. p \in Ingests
    BY DEF Booked
<1>1. OriginalOf(p) \in Originals(p)
    BY DEF LedgerOfBookings, OriginalOf
<1>2. Originals(p) = {OriginalOf(p)}
    BY <1>0, <1>1 DEF LedgerOfBookings
<1>3. OriginalOf(p) \in 1..Len(ledger) /\ ledger[OriginalOf(p)].referenceId = p
      /\ ledger[OriginalOf(p)].original = NoOriginal
    BY <1>1, LedgerTypes
<1> QED
    BY <1>0, <1>2, <1>3, LedgerTypes DEF LedgerOfBookings, OfBooking

\* What a booking changes.
LEMMA BookingNext ==
    ASSUME TypeOK, LedgerOfBookings, NothingBookedBefore, NEW r \in Ingests, BookPayment(r)
    PROVE  LET n == Len(ledger) IN
           /\ PaymentRow(r) \in Row /\ PaymentRow(r).original = NoOriginal
           /\ PaymentRow(r).referenceId = r /\ PaymentRow(r).entries = PaymentEntries(OrderOf[r])
           /\ ledger' \in Seq(Row) /\ Len(ledger') = n + 1 /\ n \in Nat
           /\ (\A t \in 1..n : ledger'[t] = ledger[t]) /\ ledger'[n + 1] = PaymentRow(r)
           /\ Bookable(OrderOf[r])
           /\ r \notin Booked /\ Booked' = Booked \cup {r}
           /\ payments' = [payments EXCEPT ![r] = "SETTLED"]
<1>1. Bookable(OrderOf[r]) /\ WellFormed(OrderOf[r]) /\ ledger' = Append(ledger, PaymentRow(r))
      /\ payments' = [payments EXCEPT ![r] = "SETTLED"] /\ pc[r] = "book"
    BY OrderAssumption DEF BookPayment
<1>2. PaymentEntries(OrderOf[r]) \in Seq(EntryRecord)
    BY <1>1, PaymentShape
<1>3. PaymentRow(r) \in Row /\ PaymentRow(r).original = NoOriginal
      /\ PaymentRow(r).referenceId = r /\ PaymentRow(r).entries = PaymentEntries(OrderOf[r])
    BY <1>2 DEF PaymentRow, Transaction, Row, NoOriginal, EntryRecord, Accounts
<1>4. payments[r] = "none" /\ payments \in [Ingests -> Statuses]
    BY <1>1 DEF NothingBookedBefore, TypeOK
<1>5. r \notin Booked /\ Booked' = Booked \cup {r}
    BY <1>1, <1>4 DEF Booked
<1>6. ledger \in Seq(Row)
    BY DEF TypeOK
<1> QED
    BY <1>1, <1>3, <1>5, <1>6, AppendRow

\* What the reversal of a refund or chargeback changes.
LEMMA UndoingNext ==
    ASSUME TypeOK, LedgerOfBookings, UndosInOrder, NEW c \in Undos, PostUndo(c),
           NEW p, p = undo[c].payment, NEW kind, kind = undo[c].kind
    PROVE  LET n == Len(ledger)
               row == ReversalOf(ledger, OriginalOf(p), kind)
           IN  /\ p \in Booked /\ kind \in Kinds
               /\ row \in Row /\ row.original = OriginalOf(p) /\ row.referenceId = p
               /\ row.type = kind /\ OriginalOf(p) # NoOriginal
               /\ row.entries = NegatedEntries(ledger[OriginalOf(p)].entries)
               /\ ledger' \in Seq(Row) /\ Len(ledger') = n + 1 /\ n \in Nat
               /\ (\A t \in 1..n : ledger'[t] = ledger[t]) /\ ledger'[n + 1] = row
               /\ payments' = payments /\ Booked' = Booked
               /\ undo' = [undo EXCEPT ![c].at = "mark"]
<1> DEFINE o == OriginalOf(p)
           row == ReversalOf(ledger, o, kind)
<1>1. p \in Booked /\ kind \in Kinds
  <2>1. Undoing(c) /\ undo[c] \in UndoRecord
      BY DEF PostUndo, Undoing, TypeOK, UndoRecord, NoUndo, UndoEnded
  <2> QED
      BY <2>1 DEF UndosInOrder, UndoRecord
<1>2. o \in 1..Len(ledger) /\ ledger[o] \in Row /\ ledger[o].referenceId = p /\ p \in Ingests
    BY <1>1, OriginalOfBooked, LedgerTypes
<1>3. ledger[o].entries \in Seq(EntryRecord) /\ o \in Nat /\ o # NoOriginal
    BY <1>2, LedgerTypes DEF Row, EntryRecord, Accounts, NoOriginal
<1>4. NegatedEntries(ledger[o].entries) \in Seq(EntryRecord)
    BY <1>3, NegatedType DEF EntryRecord
<1>5. /\ row \in Row /\ row.original = o /\ row.referenceId = p /\ row.type = kind
      /\ row.entries = NegatedEntries(ledger[o].entries)
    BY <1>1, <1>2, <1>3, <1>4 DEF ReversalOf, Transaction, Row, EntryRecord, Accounts
<1>6. ledger' = Append(ledger, row) /\ payments' = payments
      /\ undo' = [undo EXCEPT ![c].at = "mark"]
    BY DEF PostUndo
<1>7. Booked' = Booked
    BY <1>6 DEF Booked
<1> HIDE DEF row, o
<1> QED
    BY <1>1, <1>3, <1>5, <1>6, <1>7, AppendRow DEF TypeOK, row, o

\* A status written over another leaves the payment booked.
LEMMA MarkingNext ==
    ASSUME TypeOK, UndosInOrder, NEW c \in Undos, MarkUndone(c)
    PROVE  /\ undo[c] \in UndoRecord /\ undo[c].payment \in Booked
           /\ payments' \in [Ingests -> Statuses] /\ Booked' = Booked
           /\ \A p \in Ingests : payments'[p] =
                IF p = undo[c].payment THEN StatusAfter(undo[c].kind) ELSE payments[p]
<1>1. Undoing(c) /\ undo[c] \in UndoRecord
    BY DEF MarkUndone, Undoing, TypeOK, UndoRecord, NoUndo, UndoEnded
<1>2. undo[c].payment \in Booked /\ undo[c].payment \in Ingests
    BY <1>1 DEF UndosInOrder, UndoRecord
<1>3. payments' = [payments EXCEPT ![undo[c].payment] = StatusAfter(undo[c].kind)]
      /\ payments \in [Ingests -> Statuses]
    BY DEF MarkUndone, TypeOK
<1>4. StatusAfter(undo[c].kind) \in Statuses \ {"none"}
    BY DEF StatusAfter, Statuses
<1> QED
    BY <1>1, <1>2, <1>3, <1>4 DEF Booked

\* Only three statements write to the payments and to the ledger.
LEMMA TablesNext ==
    ASSUME [Next]_vars
    PROVE  \/ \E r \in Ingests : BookPayment(r)
           \/ \E c \in Undos : PostUndo(c) \/ MarkUndone(c)
           \/ UNCHANGED <<ledger, payments>>
<1>1. ASSUME NEW r \in Ingests, IngestStep(r)
      PROVE  BookPayment(r) \/ UNCHANGED <<ledger, payments>>
    BY <1>1 DEF IngestStep, CheckCall, Book, FindKey, ReserveKey, DropKey, FindDuplicate,
                ReadWallet, RefusePayment, CompleteKey, RemoveKey, GiveUp
<1>2. ASSUME NEW c \in Undos, UndoStep(c)
      PROVE  PostUndo(c) \/ MarkUndone(c) \/ UNCHANGED <<ledger, payments>>
    BY <1>2 DEF UndoStep, ReadRow
<1> QED
    BY <1>1, <1>2 DEF Next, vars, CaughtFailure, UncaughtFailure, ReadPayment, RefuseUndo,
                      UndoFails, SuspendWallet, KeyExpires, Crash

\* Every step keeps the types.
LEMMA TypeStep ==
    ASSUME TypeOK, LedgerOfBookings, UndosInOrder, NothingBookedBefore, KeysAreHeld, [Next]_vars
    PROVE  TypeOK'
<1>1. ledger' \in Seq(Row) /\ payments' \in [Ingests -> Statuses]
  <2>1. ASSUME NEW r \in Ingests, BookPayment(r)
        PROVE  ledger' \in Seq(Row) /\ payments' \in [Ingests -> Statuses]
      BY <2>1, BookingNext DEF TypeOK, Statuses
  <2>2. ASSUME NEW c \in Undos, PostUndo(c)
        PROVE  ledger' \in Seq(Row) /\ payments' \in [Ingests -> Statuses]
      BY <2>2, UndoingNext DEF TypeOK
  <2>3. ASSUME NEW c \in Undos, MarkUndone(c)
        PROVE  ledger' \in Seq(Row) /\ payments' \in [Ingests -> Statuses]
      BY <2>3, MarkingNext DEF TypeOK, MarkUndone
  <2> QED
      BY <2>1, <2>2, <2>3, TablesNext DEF TypeOK
<1> DEFINE KeysOK == keys' \in [Keys -> Rows \cup {NoRow}]
           CallsOK == /\ pc' \in [Ingests -> Labels]
                      /\ told' \in [Ingests -> {"nothing", "settled", "duplicate", "failed"}]
           UndosOK == undo' \in [Undos -> {NoUndo, UndoEnded} \cup UndoRecord]
           CountsOK == faults' \in Nat /\ crashes' \in Nat /\ suspended' \subseteq Wallets
<1>2. SUFFICES KeysOK /\ CallsOK /\ UndosOK /\ CountsOK
    BY <1>1 DEF TypeOK, KeysTypeOK, UndoRecord
<1>3. /\ keys \in [Keys -> Rows \cup {NoRow}]
      /\ pc \in [Ingests -> Labels]
      /\ told \in [Ingests -> {"nothing", "settled", "duplicate", "failed"}]
      /\ undo \in [Undos -> {NoUndo, UndoEnded} \cup UndoRecord]
      /\ faults \in Nat /\ crashes \in Nat /\ suspended \subseteq Wallets
    BY DEF TypeOK, KeysTypeOK, UndoRecord
<1>4. [response |-> NoResponse, expired |-> FALSE] \in Rows
    BY DEF Rows
<1>5. \A r \in Ingests : FirstRead(r) \in Labels
    BY DEF FirstRead, Labels
<1>6. ASSUME NEW r \in Ingests, CheckCall(r) PROVE KeysOK /\ CallsOK /\ UndosOK /\ CountsOK
  <2>1. CASE FindKey(r)
      BY <1>3, <1>5, <2>1 DEF FindKey, Goto, Tell, Labels
  <2>2. CASE ReserveKey(r)
      BY <1>3, <1>4, <1>5, <2>2 DEF ReserveKey, Reserve, Goto, Labels
  <2>3. CASE DropKey(r)
      BY <1>3, <1>5, <2>3 DEF DropKey, DropExpired, Goto, Labels
  <2>4. CASE FindDuplicate(r)
      BY <1>3, <2>4 DEF FindDuplicate, Goto, Tell, Labels
  <2>5. CASE ReadWallet(r)
      BY <1>3, <2>5 DEF ReadWallet, Goto, Labels
  <2> QED
      BY <1>6, <2>1, <2>2, <2>3, <2>4, <2>5 DEF CheckCall
<1>7. ASSUME NEW r \in Ingests, Book(r) PROVE KeysOK /\ CallsOK /\ UndosOK /\ CountsOK
  <2>1. CASE BookPayment(r)
      BY <1>3, <2>1 DEF BookPayment, Goto, Labels
  <2>2. CASE RefusePayment(r)
      BY <1>3, <2>2 DEF RefusePayment, Goto, Labels
  <2>3. CASE CompleteKey(r)
    <3>1. ASSUME KeyOf[r] # NoKey, Complete(KeyOf[r], r) PROVE KeysOK
      <4>1. KeyOf[r] \in Keys /\ r \in Responses
          BY <3>1, CallAssumption
      <4>2. keys[KeyOf[r]] \in Rows
          BY <1>3, <3>1, <4>1 DEF Complete, Exists
      <4>3. [keys[KeyOf[r]] EXCEPT !.response = r] \in Rows
          BY <4>1, <4>2 DEF Rows
      <4> QED
          BY <1>3, <3>1, <4>1, <4>3 DEF Complete
    <3> QED
        BY <1>3, <2>3, <3>1 DEF CompleteKey, Goto, Tell, Labels
  <2>4. CASE RemoveKey(r)
      BY <1>3, <2>4 DEF RemoveKey, RemoveOwnKey, Remove, Goto, Tell, Labels
  <2>5. CASE GiveUp(r)
      BY <1>3, <2>5 DEF GiveUp, RemoveOwnKey, Remove, Goto, Labels
  <2> QED
      BY <1>7, <2>1, <2>2, <2>3, <2>4, <2>5 DEF Book
<1>8. ASSUME NEW r \in Ingests, CaughtFailure(r) \/ UncaughtFailure(r)
      PROVE  KeysOK /\ CallsOK /\ UndosOK /\ CountsOK
    BY <1>3, <1>8 DEF CaughtFailure, UncaughtFailure, Goto, Labels
<1>9. ASSUME NEW c \in Undos, UndoStep(c) PROVE KeysOK /\ CallsOK /\ UndosOK /\ CountsOK
  <2>1. CASE ReadRow(c)
    <3>1. undo[c] \in UndoRecord
        BY <1>3, <2>1 DEF ReadRow, NoUndo, UndoEnded
    <3>2. AfterReadRow(undo[c].payment, undo[c].kind) \in {UndoEnded} \cup UndoRecord
        BY <3>1 DEF AfterReadRow, UndoRecord, Undo
    <3> QED
        BY <1>3, <2>1, <3>2 DEF ReadRow
  <2>2. CASE PostUndo(c)
    <3>1. undo[c] \in UndoRecord
        BY <1>3, <2>2 DEF PostUndo, NoUndo, UndoEnded
    <3>2. [undo[c] EXCEPT !.at = "mark"] \in UndoRecord
        BY <3>1 DEF UndoRecord
    <3> QED
        BY <1>3, <2>2, <3>2 DEF PostUndo
  <2>3. CASE MarkUndone(c)
      BY <1>3, <2>3 DEF MarkUndone
  <2> QED
      BY <1>9, <2>1, <2>2, <2>3 DEF UndoStep
<1>10. ASSUME NEW c \in Undos, NEW p \in Undoable, NEW kind \in Kinds,
              ReadPayment(c, p, kind) \/ RefuseUndo(c, p, kind)
       PROVE  KeysOK /\ CallsOK /\ UndosOK /\ CountsOK
  <2>1. Undo("read", p, kind) \in UndoRecord
      BY BoundAssumption DEF Undo, UndoRecord
  <2> QED
      BY <1>3, <1>10, <2>1 DEF ReadPayment, RefuseUndo
<1>11. ASSUME NEW c \in Undos, UndoFails(c) PROVE KeysOK /\ CallsOK /\ UndosOK /\ CountsOK
    BY <1>3, <1>11 DEF UndoFails
<1>12. ASSUME NEW w \in Wallets, SuspendWallet(w) PROVE KeysOK /\ CallsOK /\ UndosOK /\ CountsOK
    BY <1>3, <1>12 DEF SuspendWallet
<1>13. ASSUME NEW k \in Keys, KeyExpires(k) PROVE KeysOK /\ CallsOK /\ UndosOK /\ CountsOK
  <2>1. keys[k] \in Rows /\ keys' = [keys EXCEPT ![k].expired = TRUE]
      BY <1>3, <1>13 DEF KeyExpires, Expire, Exists
  <2>2. [keys[k] EXCEPT !.expired = TRUE] \in Rows
      BY <2>1 DEF Rows
  <2> QED
      BY <1>3, <1>13, <2>1, <2>2 DEF KeyExpires
<1>14. ASSUME Crash PROVE KeysOK /\ CallsOK /\ UndosOK /\ CountsOK
    BY <1>3, <1>14 DEF Crash, Labels
<1>15. CASE UNCHANGED vars
    BY <1>3, <1>15 DEF vars
<1> QED
    BY <1>6, <1>7, <1>8, <1>9, <1>10, <1>11, <1>12, <1>13, <1>14, <1>15 DEF Next, IngestStep

-----------------------------------------------------------------------------
(***************************************************************************)
(* The ledger and the payments' statuses                                   *)
(***************************************************************************)

\* A row more leaves the rows of the payments that were booked what they were.
LEMMA AppendedRow ==
    ASSUME TypeOK, NEW row \in Row, NEW n, n = Len(ledger), ledger' \in Seq(Row),
           Len(ledger') = n + 1, \A t \in 1..n : ledger'[t] = ledger[t], ledger'[n + 1] = row
    PROVE  /\ \A p : IF row.referenceId = p /\ row.original = NoOriginal
                       THEN Originals(p)' = Originals(p) \cup {n + 1}
                       ELSE Originals(p)' = Originals(p)
           /\ \A t : IF row.original = t
                       THEN Reversals(ledger', t) = Reversals(ledger, t) \cup {n + 1}
                       ELSE Reversals(ledger', t) = Reversals(ledger, t)
           /\ n \in Nat /\ DOMAIN ledger = 1..n /\ DOMAIN ledger' = 1..(n + 1)
<1>1. n \in Nat /\ DOMAIN ledger = 1..n /\ DOMAIN ledger' = 1..(n + 1)
      /\ 1..(n + 1) = (1..n) \cup {n + 1}
    BY LedgerTypes, RowsOf
<1>2. \A t : Reversals(ledger', t) = {r \in 1..(n + 1) : ledger'[r].original = t}
      /\ Reversals(ledger, t) = {r \in 1..n : ledger[r].original = t}
    BY RowsOf, LedgerTypes
<1>3. \A p : Originals(p)' = {t \in 1..(n + 1) :
                                ledger'[t].referenceId = p /\ ledger'[t].original = NoOriginal}
             /\ Originals(p) = {t \in 1..n :
                                ledger[t].referenceId = p /\ ledger[t].original = NoOriginal}
    BY RowsOf, LedgerTypes DEF Originals
<1>4. ASSUME NEW p
      PROVE  IF row.referenceId = p /\ row.original = NoOriginal
               THEN Originals(p)' = Originals(p) \cup {n + 1}
               ELSE Originals(p)' = Originals(p)
  <2>1. Originals(p)' = {t \in 1..(n + 1) :
                            ledger'[t].referenceId = p /\ ledger'[t].original = NoOriginal}
        /\ Originals(p) = {t \in 1..n :
                            ledger[t].referenceId = p /\ ledger[t].original = NoOriginal}
      BY <1>3
  <2> QED
      BY <1>1, <2>1
<1>5. ASSUME NEW t
      PROVE  IF row.original = t
               THEN Reversals(ledger', t) = Reversals(ledger, t) \cup {n + 1}
               ELSE Reversals(ledger', t) = Reversals(ledger, t)
  <2>1. Reversals(ledger', t) = {r \in 1..(n + 1) : ledger'[r].original = t}
        /\ Reversals(ledger, t) = {r \in 1..n : ledger[r].original = t}
      BY <1>2
  <2> QED
      BY <1>1, <2>1
<1> QED
    BY <1>1, <1>4, <1>5

\* What a step leaves of the bookings: the rows there were, and each payment's row.
LEMMA BookingsStay ==
    ASSUME TypeOK, LedgerOfBookings, UndosInOrder, NothingBookedBefore, [Next]_vars
    PROVE  /\ \A t \in DOMAIN ledger : t \in DOMAIN ledger' /\ ledger'[t] = ledger[t]
           /\ \A p \in Booked : p \in Booked' /\ Originals(p)' = Originals(p)
           /\ \A t : Reversals(ledger, t) \subseteq Reversals(ledger', t)
<1>1. ASSUME NEW r \in Ingests, BookPayment(r)
      PROVE  /\ \A t \in DOMAIN ledger : t \in DOMAIN ledger' /\ ledger'[t] = ledger[t]
             /\ \A p \in Booked : p \in Booked' /\ Originals(p)' = Originals(p)
             /\ \A t : Reversals(ledger, t) \subseteq Reversals(ledger', t)
  <2> DEFINE row == PaymentRow(r)
  <2>1. /\ row \in Row /\ row.original = NoOriginal /\ row.referenceId = r
        /\ ledger' \in Seq(Row) /\ Len(ledger') = Len(ledger) + 1
        /\ (\A t \in 1..Len(ledger) : ledger'[t] = ledger[t]) /\ ledger'[Len(ledger) + 1] = row
        /\ r \notin Booked /\ Booked' = Booked \cup {r}
      BY <1>1, BookingNext
  <2> HIDE DEF row
  <2>2. /\ \A p : p # r => Originals(p)' = Originals(p)
        /\ \A t : Reversals(ledger, t) \subseteq Reversals(ledger', t)
        /\ DOMAIN ledger = 1..Len(ledger) /\ DOMAIN ledger' = 1..(Len(ledger) + 1)
        /\ Len(ledger) \in Nat
      BY <2>1, AppendedRow
  <2> QED
      BY <2>1, <2>2
<1>2. ASSUME NEW c \in Undos, PostUndo(c)
      PROVE  /\ \A t \in DOMAIN ledger : t \in DOMAIN ledger' /\ ledger'[t] = ledger[t]
             /\ \A p \in Booked : p \in Booked' /\ Originals(p)' = Originals(p)
             /\ \A t : Reversals(ledger, t) \subseteq Reversals(ledger', t)
  <2> DEFINE q == undo[c].payment
             kind == undo[c].kind
             row == ReversalOf(ledger, OriginalOf(q), kind)
  <2>1. /\ row \in Row /\ row.original # NoOriginal
        /\ ledger' \in Seq(Row) /\ Len(ledger') = Len(ledger) + 1
        /\ (\A t \in 1..Len(ledger) : ledger'[t] = ledger[t]) /\ ledger'[Len(ledger) + 1] = row
        /\ Booked' = Booked
      BY <1>2, UndoingNext
  <2> HIDE DEF row
  <2>2. /\ \A p : Originals(p)' = Originals(p)
        /\ \A t : Reversals(ledger, t) \subseteq Reversals(ledger', t)
        /\ DOMAIN ledger = 1..Len(ledger) /\ DOMAIN ledger' = 1..(Len(ledger) + 1)
        /\ Len(ledger) \in Nat
      BY <2>1, AppendedRow
  <2> QED
      BY <2>1, <2>2
<1>3. ASSUME NEW c \in Undos, MarkUndone(c)
      PROVE  /\ \A t \in DOMAIN ledger : t \in DOMAIN ledger' /\ ledger'[t] = ledger[t]
             /\ \A p \in Booked : p \in Booked' /\ Originals(p)' = Originals(p)
             /\ \A t : Reversals(ledger, t) \subseteq Reversals(ledger', t)
  <2>1. ledger' = ledger /\ Booked' = Booked
      BY <1>3, MarkingNext DEF MarkUndone
  <2> QED
      BY <2>1 DEF Originals
<1>4. ASSUME UNCHANGED <<ledger, payments>>
      PROVE  /\ \A t \in DOMAIN ledger : t \in DOMAIN ledger' /\ ledger'[t] = ledger[t]
             /\ \A p \in Booked : p \in Booked' /\ Originals(p)' = Originals(p)
             /\ \A t : Reversals(ledger, t) \subseteq Reversals(ledger', t)
    BY <1>4 DEF Originals, Booked
<1> QED
    BY <1>1, <1>2, <1>3, <1>4, TablesNext

\* Booking and reversing keep the shape of the ledger.
LEMMA LedgerStep ==
    ASSUME TypeOK, LedgerOfBookings, UndosInOrder, NothingBookedBefore, [Next]_vars
    PROVE  LedgerOfBookings'
<1>1. /\ \A t \in DOMAIN ledger : t \in DOMAIN ledger' /\ ledger'[t] = ledger[t]
      /\ \A p \in Booked : p \in Booked' /\ Originals(p)' = Originals(p)
    BY BookingsStay
<1>2. \A t \in DOMAIN ledger : ledger[t].referenceId \in Booked
  <2> SUFFICES ASSUME NEW t \in DOMAIN ledger PROVE ledger[t].referenceId \in Booked
      OBVIOUS
  <2> DEFINE p == ledger[t].referenceId
  <2>1. CASE ledger[t].original = NoOriginal
      BY <2>1 DEF LedgerOfBookings, OfBooking
  <2>2. CASE ledger[t].original # NoOriginal
    <3>1. ledger[t].original \in Originals(p)
        BY <2>2 DEF LedgerOfBookings, OfBooking
    <3>2. PICK o \in DOMAIN ledger : ledger[o].referenceId = p /\ ledger[o].original = NoOriginal
        BY <3>1, LedgerTypes
    <3> QED
        BY <3>2 DEF LedgerOfBookings, OfBooking
  <2> QED
      BY <2>1, <2>2
\* The rows that were there.
<1>3. ASSUME NEW t \in DOMAIN ledger PROVE OfBooking(t)'
  <2> DEFINE p == ledger[t].referenceId
  <2>1. ledger'[t] = ledger[t] /\ p \in Booked' /\ Originals(p)' = Originals(p)
      BY <1>1, <1>2
  <2>2. CASE ledger[t].original = NoOriginal
      BY <2>1, <2>2 DEF LedgerOfBookings, OfBooking
  <2>3. CASE ledger[t].original # NoOriginal
    <3> DEFINE o == ledger[t].original
    <3>1. o \in Originals(p) /\ ledger[t].entries = NegatedEntries(ledger[o].entries)
        BY <2>3 DEF LedgerOfBookings, OfBooking
    <3>2. o \in Originals(p)'
        BY <2>1, <3>1
    <3>3. ledger'[o] = ledger[o]
        BY <1>1, <3>1, LedgerTypes
    <3> QED
        BY <2>1, <2>3, <3>1, <3>2, <3>3 DEF OfBooking
  <2> QED
      BY <2>2, <2>3
<1>4. ASSUME NEW r \in Ingests, BookPayment(r), NEW n, n = Len(ledger)
      PROVE  LedgerOfBookings'
  <2> DEFINE row == PaymentRow(r)
  <2>1. /\ row \in Row /\ row.original = NoOriginal /\ row.referenceId = r
        /\ row.entries = PaymentEntries(OrderOf[r]) /\ Bookable(OrderOf[r])
        /\ ledger' \in Seq(Row) /\ Len(ledger') = n + 1
        /\ (\A t \in 1..n : ledger'[t] = ledger[t]) /\ ledger'[n + 1] = row
        /\ r \notin Booked /\ Booked' = Booked \cup {r}
      BY <1>4, BookingNext
  <2> HIDE DEF row
  <2>2. /\ \A p : IF row.referenceId = p /\ row.original = NoOriginal
                    THEN Originals(p)' = Originals(p) \cup {n + 1}
                    ELSE Originals(p)' = Originals(p)
        /\ n \in Nat /\ DOMAIN ledger = 1..n /\ DOMAIN ledger' = 1..(n + 1)
      BY <1>4, <2>1, AppendedRow
  <2>3. Originals(r) = {}
      BY <1>2, <2>1, LedgerTypes
  <2>4. Originals(r)' = {n + 1} /\ \A p : p # r => Originals(p)' = Originals(p)
      BY <2>1, <2>2, <2>3
  <2>5. OfBooking(n + 1)'
      BY <2>1 DEF OfBooking
  <2>6. \A t \in DOMAIN ledger' : OfBooking(t)'
      BY <1>3, <2>2, <2>5
  <2>7. \A p \in Booked' : Originals(p)' # {}
      BY <2>1, <2>4 DEF LedgerOfBookings
  <2>8. \A p \in Ingests : \A s, t \in Originals(p)' : s = t
      BY <2>4 DEF LedgerOfBookings
  <2> QED
      BY <2>6, <2>7, <2>8 DEF LedgerOfBookings
<1>5. ASSUME NEW c \in Undos, PostUndo(c), NEW n, n = Len(ledger),
             NEW p, p = undo[c].payment, NEW o, o = OriginalOf(p)
      PROVE  LedgerOfBookings'
  <2> DEFINE row == ReversalOf(ledger, o, undo[c].kind)
  <2>1. /\ row \in Row /\ row.original = o /\ row.referenceId = p /\ o # NoOriginal
        /\ row.entries = NegatedEntries(ledger[o].entries)
        /\ ledger' \in Seq(Row) /\ Len(ledger') = n + 1
        /\ (\A t \in 1..n : ledger'[t] = ledger[t]) /\ ledger'[n + 1] = row
        /\ p \in Booked /\ Booked' = Booked
      BY <1>5, UndoingNext
  <2>2. o \in Originals(p) /\ o \in 1..n
      BY <1>5, <2>1, OriginalOfBooked
  <2> HIDE DEF row
  <2>3. /\ \A q : Originals(q)' = Originals(q)
        /\ n \in Nat /\ DOMAIN ledger = 1..n /\ DOMAIN ledger' = 1..(n + 1)
      BY <1>5, <2>1, AppendedRow
  <2>4. OfBooking(n + 1)'
    <3>1. ledger'[n + 1].original # NoOriginal /\ ledger'[n + 1].referenceId = p
          /\ ledger'[n + 1].original = o
          /\ ledger'[n + 1].entries = NegatedEntries(ledger'[o].entries)
        BY <2>1, <2>2
    <3>2. o \in Originals(p)'
        BY <2>2, <2>3
    <3> QED
        BY <3>1, <3>2 DEF OfBooking
  <2>5. \A t \in DOMAIN ledger' : OfBooking(t)'
      BY <1>3, <2>3, <2>4
  <2> QED
      BY <2>1, <2>3, <2>5 DEF LedgerOfBookings
<1>6. ASSUME ledger' = ledger, Booked' = Booked PROVE LedgerOfBookings'
  <2>1. \A p : Originals(p)' = Originals(p)
      BY <1>6 DEF Originals
  <2> QED
      BY <1>3, <1>6, <2>1 DEF LedgerOfBookings
<1>7. ASSUME NEW c \in Undos, MarkUndone(c) PROVE LedgerOfBookings'
    BY <1>6, <1>7, MarkingNext DEF MarkUndone
<1>8. ASSUME UNCHANGED <<ledger, payments>> PROVE LedgerOfBookings'
    BY <1>6, <1>8 DEF Booked
<1> QED
    BY <1>4, <1>5, <1>7, <1>8, TablesNext

\* The reversal that a status tells of.
Reversed(p, kind) == \E t \in Reversals(ledger, OriginalOf(p)) : ledger[t].type = kind

\* A reversal of a booked payment stays one.
LEMMA ReversalsStay ==
    ASSUME TypeOK, LedgerOfBookings, UndosInOrder, NothingBookedBefore, [Next]_vars,
           NEW p \in Booked, NEW kind, Reversed(p, kind)
    PROVE  Reversed(p, kind)'
<1>1. OriginalOf(p)' = OriginalOf(p)
    BY BookingsStay DEF OriginalOf
<1>2. PICK t \in Reversals(ledger, OriginalOf(p)) : ledger[t].type = kind
    BY DEF Reversed
<1>3. t \in DOMAIN ledger
    BY <1>2 DEF Reversals
<1>4. t \in Reversals(ledger', OriginalOf(p)) /\ ledger'[t].type = kind
    BY <1>2, <1>3, BookingsStay
<1> QED
    BY <1>1, <1>4 DEF Reversed

\* A refund or chargeback that has posted its reversal marks a payment that has one.
LEMMA UndosStep ==
    ASSUME TypeOK, LedgerOfBookings, UndosInOrder, NothingBookedBefore, [Next]_vars
    PROVE  UndosInOrder'
<1> DEFINE Good(d) == undo'[d].at \in {"read", "post", "mark"} =>
                        /\ undo'[d].payment \in Booked'
                        /\ undo'[d].at = "mark" =>
                              \E p, kind : /\ p = undo'[d].payment /\ kind = undo'[d].kind
                                           /\ Reversed(p, kind)'
<1>1. SUFFICES ASSUME NEW d \in Undos PROVE Good(d)
  <2> SUFFICES ASSUME \A d \in Undos : Good(d), NEW d \in Undos, Undoing(d)'
               PROVE  /\ undo'[d].payment \in Booked'
                      /\ undo'[d].at = "mark" =>
                            \E t \in Reversals(ledger', OriginalOf(undo[d].payment)') :
                                ledger'[t].type = undo'[d].kind
      BY DEF UndosInOrder
  <2>1. Good(d) /\ undo'[d].at \in {"read", "post", "mark"}
      BY DEF Undoing
  <2> QED
      BY <2>1 DEF Reversed, OriginalOf, Originals
<1>2. undo \in [Undos -> {NoUndo, UndoEnded} \cup UndoRecord]
    BY DEF TypeOK, UndoRecord
<1>3. UndoEnded.at = "ended"
    BY DEF UndoEnded
<1>4. ASSUME undo'[d] = undo[d] PROVE Good(d)
  <2> SUFFICES ASSUME undo[d].at \in {"read", "post", "mark"} PROVE Good(d)
      BY <1>4
  <2>1. undo[d].payment \in Booked
        /\ (undo[d].at = "mark" => Reversed(undo[d].payment, undo[d].kind))
      BY DEF UndosInOrder, Undoing, Reversed
  <2>2. undo[d].payment \in Booked'
      BY <2>1, BookingsStay
  <2>3. PICK p, kind : p = undo[d].payment /\ kind = undo[d].kind
      OBVIOUS
  <2>4. undo[d].at = "mark" => Reversed(p, kind)'
      BY <2>1, <2>3, ReversalsStay
  <2>5. undo'[d].payment = p /\ undo'[d].kind = kind
      BY <1>4, <2>3
  <2> QED
      BY <1>4, <2>2, <2>4, <2>5
<1>5. ASSUME undo'[d] = UndoEnded PROVE Good(d)
    BY <1>3, <1>5
<1>6. ASSUME NEW c \in Undos, NEW p \in Undoable, NEW kind \in Kinds,
             ReadPayment(c, p, kind) \/ RefuseUndo(c, p, kind)
      PROVE  Good(d)
  <2>1. CASE ReadPayment(c, p, kind) /\ c = d
    <3>1. undo'[d] = Undo("read", p, kind) /\ p \in Booked
        BY <1>2, <2>1 DEF ReadPayment
    <3>2. p \in Booked'
        BY <3>1, BookingsStay
    <3> QED
        BY <3>1, <3>2 DEF Undo
  <2>2. CASE RefuseUndo(c, p, kind) \/ c # d
      BY <1>2, <1>4, <1>5, <1>6, <2>2 DEF ReadPayment, RefuseUndo
  <2> QED
      BY <1>6, <2>1, <2>2
<1>7. ASSUME NEW c \in Undos, UndoStep(c) PROVE Good(d)
  <2>1. CASE c # d
      BY <1>2, <1>4, <1>7, <2>1 DEF UndoStep, ReadRow, PostUndo, MarkUndone
  <2>2. CASE ReadRow(d)
    <3>1. undo[d].payment \in Booked /\ undo[d] \in UndoRecord
        BY <1>2, <2>2 DEF ReadRow, UndosInOrder, Undoing, NoUndo, UndoEnded
    <3>2. Originals(undo[d].payment) # {}
        BY <3>1 DEF LedgerOfBookings
    <3>3. undo'[d] = Undo("post", undo[d].payment, undo[d].kind) \/ undo'[d] = UndoEnded
        BY <1>2, <2>2, <3>2 DEF ReadRow, AfterReadRow
    <3>4. undo[d].payment \in Booked'
        BY <3>1, BookingsStay
    <3> QED
        BY <1>5, <3>3, <3>4 DEF Undo
  <2>3. CASE PostUndo(d)
    <3>1. PICK p, kind, n : p = undo[d].payment /\ kind = undo[d].kind /\ n = Len(ledger)
        OBVIOUS
    <3> DEFINE row == ReversalOf(ledger, OriginalOf(p), kind)
    <3>2. /\ p \in Booked /\ row \in Row /\ row.original = OriginalOf(p) /\ row.type = kind
          /\ ledger' \in Seq(Row) /\ Len(ledger') = n + 1
          /\ (\A t \in 1..n : ledger'[t] = ledger[t]) /\ ledger'[n + 1] = row
          /\ Booked' = Booked /\ undo' = [undo EXCEPT ![d].at = "mark"]
        BY <2>3, <3>1, UndoingNext
    <3>3. undo[d] \in UndoRecord
        BY <1>2, <2>3 DEF PostUndo, NoUndo, UndoEnded
    <3> HIDE DEF row
    <3>4. n + 1 \in Reversals(ledger', OriginalOf(p))
        BY <3>1, <3>2, AppendedRow
    <3>5. OriginalOf(p)' = OriginalOf(p)
        BY <3>2, BookingsStay DEF OriginalOf
    <3>6. Reversed(p, kind)'
        BY <3>2, <3>4, <3>5 DEF Reversed
    <3>7. undo'[d].payment = p /\ undo'[d].kind = kind
        BY <1>2, <3>1, <3>2, <3>3 DEF UndoRecord
    <3> QED
        BY <3>2, <3>6, <3>7
  <2>4. CASE MarkUndone(d)
      BY <1>2, <1>5, <2>4 DEF MarkUndone
  <2> QED
      BY <1>7, <2>1, <2>2, <2>3, <2>4 DEF UndoStep
<1>8. ASSUME NEW c \in Undos, UndoFails(c) PROVE Good(d)
    BY <1>2, <1>4, <1>5, <1>8 DEF UndoFails
<1>9. ASSUME Crash PROVE Good(d)
    BY <1>4, <1>5, <1>9 DEF Crash
<1>10. ASSUME undo' = undo PROVE Good(d)
    BY <1>4, <1>10
<1>11. ASSUME NEW r \in Ingests, IngestStep(r) \/ CaughtFailure(r) \/ UncaughtFailure(r)
       PROVE  undo' = undo
    BY <1>11 DEF IngestStep, CheckCall, Book, FindKey, ReserveKey, DropKey, FindDuplicate, ReadWallet,
                 BookPayment, RefusePayment, CompleteKey, RemoveKey, GiveUp, CaughtFailure,
                 UncaughtFailure
<1>12. ASSUME (\E w \in Wallets : SuspendWallet(w)) \/ (\E k \in Keys : KeyExpires(k))
              \/ UNCHANGED vars
       PROVE  undo' = undo
    BY <1>12 DEF SuspendWallet, KeyExpires, vars
<1> HIDE DEF Good
<1> QED
    BY <1>6, <1>7, <1>8, <1>9, <1>10, <1>11, <1>12 DEF Next

\* A status that tells of a reversal keeps it, and is given only when there is one.
LEMMA StatusStep ==
    ASSUME TypeOK, LedgerOfBookings, UndosInOrder, NothingBookedBefore, StatusHasItsReversal,
           [Next]_vars
    PROVE  StatusHasItsReversal'
<1>1. SUFFICES ASSUME NEW p \in Ingests, NEW kind \in Kinds, payments'[p] = StatusAfter(kind)
               PROVE  Reversed(p, kind)'
    BY DEF StatusHasItsReversal, Reversed
<1>2. StatusAfter(kind) \notin {"none", "SETTLED"}
    BY DEF StatusAfter
<1>3. ASSUME payments'[p] = payments[p] PROVE Reversed(p, kind)'
  <2>1. p \in Booked /\ Reversed(p, kind)
      BY <1>1, <1>2, <1>3 DEF Booked, StatusHasItsReversal, Reversed
  <2> QED
      BY <2>1, ReversalsStay
<1>4. ASSUME NEW c \in Undos, MarkUndone(c), p = undo[c].payment PROVE Reversed(p, kind)'
  <2>1. payments'[p] = StatusAfter(undo[c].kind) /\ undo[c].kind \in Kinds /\ p \in Booked
      BY <1>4, MarkingNext DEF UndoRecord
  <2>2. undo[c].kind = kind
      BY <1>1, <2>1 DEF StatusAfter, Kinds
  <2>3. Reversed(p, kind)
      BY <1>4, <2>2 DEF UndosInOrder, MarkUndone, Undoing, Reversed
  <2> QED
      BY <2>1, <2>3, ReversalsStay
<1>5. ASSUME NEW c \in Undos, MarkUndone(c), p # undo[c].payment PROVE payments'[p] = payments[p]
    BY <1>5, MarkingNext
<1>6. ASSUME NEW r \in Ingests, BookPayment(r) PROVE payments'[p] = payments[p]
  <2>1. payments' = [payments EXCEPT ![r] = "SETTLED"] /\ payments \in [Ingests -> Statuses]
      BY <1>6 DEF BookPayment, TypeOK
  <2> QED
      BY <1>1, <1>2, <2>1
<1>7. ASSUME NEW c \in Undos, PostUndo(c) PROVE payments'[p] = payments[p]
    BY <1>7 DEF PostUndo
<1> QED
    BY <1>3, <1>4, <1>5, <1>6, <1>7, TablesNext

-----------------------------------------------------------------------------
(***************************************************************************)
(* The calls and their keys                                                *)
(***************************************************************************)

\* What a step of a refund or chargeback, or a suspension, leaves alone.
LEMMA CallsNext ==
    ASSUME [Next]_vars
    PROVE  \/ \E r \in Ingests : IngestStep(r)
           \/ \E r \in Ingests : CaughtFailure(r) \/ UncaughtFailure(r)
           \/ \E k \in Keys : KeyExpires(k)
           \/ Crash
           \/ UNCHANGED <<keys, pc, told, crashes>> /\ faults' \in {faults, faults + 1}
<1>1. ASSUME NEW c \in Undos, UndoStep(c) \/ UndoFails(c)
      PROVE  UNCHANGED <<keys, pc, told, crashes>> /\ faults' \in {faults, faults + 1}
    BY <1>1 DEF UndoStep, ReadRow, PostUndo, MarkUndone, UndoFails
<1>2. ASSUME NEW c \in Undos, NEW p \in Undoable, NEW kind \in Kinds,
             ReadPayment(c, p, kind) \/ RefuseUndo(c, p, kind)
      PROVE  UNCHANGED <<keys, pc, told, crashes>> /\ faults' \in {faults, faults + 1}
    BY <1>2 DEF ReadPayment, RefuseUndo
<1>3. ASSUME (\E w \in Wallets : SuspendWallet(w)) \/ UNCHANGED vars
      PROVE  UNCHANGED <<keys, pc, told, crashes>> /\ faults' \in {faults, faults + 1}
    BY <1>3 DEF SuspendWallet, vars
<1> QED
    BY <1>1, <1>2, <1>3 DEF Next

\* A payment is booked by its call and by nothing else.
LEMMA BookedNext ==
    ASSUME TypeOK, LedgerOfBookings, UndosInOrder, NothingBookedBefore, [Next]_vars
    PROVE  /\ \/ \E r \in Ingests : /\ BookPayment(r) /\ r \notin Booked
                                    /\ Booked' = Booked \cup {r}
              \/ (\A r \in Ingests : ~BookPayment(r)) /\ Booked' = Booked
           /\ \A r \in Ingests : payments[r] = "none" /\ ~BookPayment(r) => payments'[r] = "none"
<1>1. ASSUME NEW r \in Ingests, BookPayment(r)
      PROVE  r \notin Booked /\ Booked' = Booked \cup {r}
    BY <1>1, BookingNext
<1>2. ASSUME NEW c \in Undos, PostUndo(c) \/ MarkUndone(c) PROVE Booked' = Booked
    BY <1>2, UndoingNext, MarkingNext
<1>3. ASSUME UNCHANGED <<ledger, payments>> PROVE Booked' = Booked
    BY <1>3 DEF Booked
<1>4. \/ \E r \in Ingests : BookPayment(r)
      \/ (\A r \in Ingests : ~BookPayment(r)) /\ Booked' = Booked
    BY <1>2, <1>3, TablesNext
<1>5. ASSUME NEW r \in Ingests, payments[r] = "none", ~BookPayment(r) PROVE payments'[r] = "none"
  <2>1. r \notin Booked
      BY <1>5 DEF Booked
  <2>2. r \notin Booked'
    <3>1. ASSUME NEW q \in Ingests, BookPayment(q) PROVE r \notin Booked'
        BY <1>1, <1>5, <2>1, <3>1
    <3> QED
        BY <1>4, <2>1, <3>1
  <2> QED
      BY <2>2 DEF Booked
<1> QED
    BY <1>1, <1>4, <1>5

\* Where one step takes the calls.
LEMMA PlaceNext ==
    ASSUME TypeOK, ToldLast, NEW r \in Ingests, IngestStep(r)
    PROVE  /\ \A q \in Ingests : q # r => pc'[q] = pc[q] /\ told'[q] = told[q]
           /\ ~Ended(r) \/ pc[r] = "idle"
           /\ UNCHANGED <<faults, crashes>>
           /\ pc[r] = "idle" =>
                /\ UNCHANGED keys
                /\ pc'[r] \in {"reserve", "drop", "returned", "refused"} \/ KeyOf[r] = NoKey
                /\ pc'[r] \in {"reserve", "drop"} => KeyOf[r] # NoKey
                /\ pc'[r] = "drop" => Stale(KeyOf[r])
                /\ pc'[r] \in {"reserve", "drop", "returned", "refused", "dedupe", "wallet"}
                /\ told'[r] # "failed" /\ (pc'[r] # "returned" => told'[r] = told[r])
           /\ pc[r] = "reserve" =>
                /\ told' = told
                /\ \/ Reserve(KeyOf[r]) /\ pc'[r] \in {"dedupe", "wallet"}
                   \/ UNCHANGED keys /\ pc'[r] = "refused"
           /\ pc[r] = "drop" =>
                /\ told' = told
                /\ \/ DropExpired(KeyOf[r]) /\ pc'[r] \in {"dedupe", "wallet"}
                   \/ UNCHANGED keys /\ pc'[r] = "refused"
           /\ pc[r] \in {"dedupe", "wallet", "book"} =>
                /\ UNCHANGED keys
                /\ \/ told' = told /\ pc'[r] \in {"wallet", "giveUp", "book"} /\ ~BookPayment(r)
                   \/ told' = told /\ pc[r] = "book" /\ pc'[r] \in {"complete", "removeKey"}
                      /\ (pc'[r] = "removeKey" => ~BookPayment(r))
                   \/ told'[r] = "duplicate" /\ pc'[r] = "returned" /\ ~BookPayment(r)
           /\ pc[r] = "complete" =>
                \/ pc'[r] = "returned" /\ told'[r] = "settled" /\ KeyOf[r] = NoKey /\ UNCHANGED keys
                \/ /\ pc'[r] = "returned" /\ told'[r] = "settled"
                   /\ KeyOf[r] # NoKey /\ Complete(KeyOf[r], r)
                \/ /\ pc'[r] = "removeKey" /\ told' = told /\ UNCHANGED keys
                   /\ KeyOf[r] # NoKey /\ ~Exists(KeyOf[r])
           /\ pc[r] \in {"removeKey", "giveUp"} =>
                /\ pc'[r] = "refused" /\ RemoveOwnKey(r)
                /\ pc[r] = "giveUp" => told' = told
           /\ BookPayment(r) => pc[r] = "book"
<1>0. /\ pc \in [Ingests -> Labels]
      /\ told \in [Ingests -> {"nothing", "settled", "duplicate", "failed"}]
    BY DEF TypeOK
<1>1. CASE FindKey(r)
  <2>1. /\ pc[r] = "idle" /\ UNCHANGED <<keys, faults, crashes>> /\ ~BookPayment(r)
        /\ told[r] = "nothing"
      BY <1>1 DEF FindKey, BookPayment, ToldLast
  <2>2. CASE KeyOf[r] = NoKey
    <3>1. (pc' = [pc EXCEPT ![r] = "dedupe"] \/ pc' = [pc EXCEPT ![r] = "wallet"]) /\ told' = told
        BY <1>1, <2>2 DEF FindKey, Goto, FirstRead
    <3> QED
        BY <1>0, <2>1, <2>2, <3>1
  <2>3. CASE KeyOf[r] # NoKey
    <3>1. \/ pc' = [pc EXCEPT ![r] = "returned"] /\ told' = [told EXCEPT ![r] = "settled"]
          \/ pc' = [pc EXCEPT ![r] = "refused"] /\ told' = told
          \/ pc' = [pc EXCEPT ![r] = "drop"] /\ told' = told /\ Stale(KeyOf[r])
          \/ pc' = [pc EXCEPT ![r] = "reserve"] /\ told' = told
        BY <1>1, <2>3 DEF FindKey, Goto, Tell
    <3> QED
        BY <1>0, <2>1, <2>3, <3>1
  <2> QED
      BY <2>2, <2>3
<1>2. CASE ReserveKey(r)
    BY <1>0, <1>2 DEF ReserveKey, Goto, FirstRead, Ended, BookPayment
<1>3. CASE DropKey(r)
    BY <1>0, <1>3 DEF DropKey, Goto, FirstRead, Ended, BookPayment
<1>4. CASE FindDuplicate(r)
    BY <1>0, <1>4 DEF FindDuplicate, Goto, Tell, Ended, BookPayment
<1>5. CASE ReadWallet(r)
    BY <1>0, <1>5 DEF ReadWallet, Goto, Ended, BookPayment
<1>6. CASE BookPayment(r)
    BY <1>0, <1>6 DEF BookPayment, Goto, Ended
<1>7. CASE RefusePayment(r)
    BY <1>0, <1>7 DEF RefusePayment, Goto, Ended, BookPayment
<1>8. CASE CompleteKey(r)
    BY <1>0, <1>8 DEF CompleteKey, Goto, Tell, Ended, BookPayment
<1>9. CASE RemoveKey(r)
    BY <1>0, <1>9 DEF RemoveKey, Goto, Tell, Ended, BookPayment
<1>10. CASE GiveUp(r)
    BY <1>0, <1>10 DEF GiveUp, Goto, Ended, BookPayment
<1> QED
    BY <1>1, <1>2, <1>3, <1>4, <1>5, <1>6, <1>7, <1>8, <1>9, <1>10 DEF IngestStep, CheckCall, Book

\* What a database error, a crash and the clock leave alone.
LEMMA FaultNext ==
    ASSUME TypeOK, NEW r \in Ingests, CaughtFailure(r) \/ UncaughtFailure(r)
    PROVE  /\ \A q \in Ingests : q # r => pc'[q] = pc[q]
           /\ ~Ended(r) /\ pc'[r] \in {"removeKey", "refused"}
           /\ pc'[r] = "removeKey" => pc[r] \in PastTheKey
           /\ UNCHANGED <<keys, told, payments, crashes>> /\ faults' = faults + 1 /\ faults' # 0
           /\ faults' > 0
<1>1. pc \in [Ingests -> Labels] /\ faults \in Nat
    BY DEF TypeOK
<1>2. CASE CaughtFailure(r)
    BY <1>1, <1>2 DEF CaughtFailure, InTry, Goto, Ended, PastTheKey
<1>3. CASE UncaughtFailure(r)
    BY <1>1, <1>3 DEF UncaughtFailure, Goto, Ended
<1> QED
    BY <1>2, <1>3

LEMMA CrashNext ==
    ASSUME TypeOK, Crash
    PROVE  /\ \A r \in Ingests : pc'[r] = IF Ended(r) THEN pc[r] ELSE "dead"
           /\ UNCHANGED <<keys, told, payments, faults>> /\ crashes' > 0
    BY DEF TypeOK, Crash

\* A second booking of an external id is refused by its unique index.
LEMMA TwinsStep ==
    ASSUME TypeOK, LedgerOfBookings, UndosInOrder, NothingBookedBefore, OncePerExternalId,
           [Next]_vars
    PROVE  OncePerExternalId'
<1>1. CASE Booked' = Booked
    BY <1>1 DEF OncePerExternalId
<1>2. ASSUME NEW r \in Ingests, BookPayment(r), Booked' = Booked \cup {r}
      PROVE  OncePerExternalId'
  <2>1. Twins(r) = {}
      BY <1>2 DEF BookPayment
  <2>2. \A p \in Booked : ExternalOf[p] = ExternalOf[r] => ExternalOf[r] = NoExternal
      BY <2>1 DEF Twins
  <2> QED
      BY <1>2, <2>2 DEF OncePerExternalId
<1> QED
    BY <1>1, <1>2, BookedNext

LEMMA ToldStep ==
    ASSUME TypeOK, ToldLast, [Next]_vars
    PROVE  ToldLast'
<1>1. SUFFICES ASSUME NEW q \in Ingests, pc'[q] \notin {"returned", "refused"}
               PROVE  told'[q] = "nothing"
    BY DEF ToldLast
<1>2. ASSUME NEW r \in Ingests, IngestStep(r) PROVE told'[q] = "nothing"
  <2>1. CASE q # r
      BY <1>1, <1>2, <2>1, PlaceNext DEF ToldLast
  <2>2. CASE q = r
    <3>1. pc[r] \in Labels \ {"returned", "refused", "dead"}
        BY <1>2, PlaceNext DEF Ended, TypeOK
    <3>2. told'[r] = told[r]
        BY <1>1, <1>2, <2>2, <3>1, PlaceNext DEF Labels
    <3> QED
        BY <2>2, <3>1, <3>2 DEF ToldLast
  <2> QED
      BY <2>1, <2>2
<1>3. ASSUME NEW r \in Ingests, CaughtFailure(r) \/ UncaughtFailure(r)
      PROVE  told'[q] = "nothing"
    BY <1>1, <1>3, FaultNext DEF ToldLast, Ended
<1>4. ASSUME NEW k \in Keys, KeyExpires(k) PROVE told'[q] = "nothing"
    BY <1>1, <1>4 DEF KeyExpires, ToldLast
<1>5. ASSUME Crash PROVE told'[q] = "nothing"
    BY <1>1, <1>5, CrashNext DEF ToldLast, Ended
<1>6. ASSUME UNCHANGED <<pc, told>> PROVE told'[q] = "nothing"
    BY <1>1, <1>6 DEF ToldLast
<1> QED
    BY <1>2, <1>3, <1>4, <1>5, <1>6, CallsNext

\* A call that has not come to its booking, or has seen it rolled back, has booked nothing.
LEMMA BeforeStep ==
    ASSUME TypeOK, LedgerOfBookings, UndosInOrder, NothingBookedBefore, KeysAreHeld, ToldLast,
           [Next]_vars
    PROVE  NothingBookedBefore'
<1> DEFINE Before == {"idle", "reserve", "drop", "dedupe", "wallet", "giveUp", "book"}
           Stays(q) == payments[q] = "none" /\ ~BookPayment(q)
<1>1. \A q \in Ingests : Stays(q) => payments'[q] = "none"
    BY BookedNext
<1>2. SUFFICES ASSUME NEW q \in Ingests,
                      pc'[q] \in Before
                        \/ (pc'[q] = "removeKey" /\ faults' = 0 /\ KeyOf[q] \notin Expiring)
               PROVE  Stays(q)
    BY <1>1 DEF NothingBookedBefore
<1>3. /\ pc[q] \in Before => payments[q] = "none"
      /\ pc[q] = "removeKey" /\ faults = 0 /\ KeyOf[q] \notin Expiring => payments[q] = "none"
      /\ pc \in [Ingests -> Labels] /\ faults \in Nat
    BY DEF NothingBookedBefore, TypeOK
<1>4. BookPayment(q) => pc'[q] = "complete"
    BY <1>3 DEF BookPayment, Goto
<1>5. ~BookPayment(q)
    BY <1>2, <1>4
<1>6. ASSUME pc'[q] = pc[q], faults' = 0 => faults = 0 PROVE Stays(q)
    BY <1>2, <1>3, <1>5, <1>6
<1>7. ASSUME NEW r \in Ingests, IngestStep(r) PROVE Stays(q)
  <2>1. CASE q # r
      BY <1>6, <1>7, <2>1, PlaceNext
  <2>2. CASE q = r /\ pc[q] \in Before
      BY <1>3, <1>5, <2>2
  <2>3. CASE q = r /\ pc[q] \notin Before
    <3>1. pc[q] \in {"complete", "removeKey"}
        BY <1>3, <1>7, <2>3, PlaceNext DEF Ended, Labels
    <3>2. pc[q] = "complete" /\ pc'[q] = "removeKey" /\ KeyOf[q] # NoKey /\ ~Exists(KeyOf[q])
        BY <1>2, <1>7, <2>3, <3>1, PlaceNext
    <3>3. KeyOf[q] \in Keys \ Expiring /\ Holds(q, KeyOf[q])
        BY <1>2, <3>2, CallAssumption DEF Holds, PastTheKey
    <3>4. Exists(KeyOf[q])
        BY <3>3 DEF KeysAreHeld, HeldByOne, InProgress
    <3> QED
        BY <3>2, <3>4
  <2> QED
      BY <2>1, <2>2, <2>3
<1>8. ASSUME NEW r \in Ingests, CaughtFailure(r) \/ UncaughtFailure(r) PROVE Stays(q)
  <2>1. CASE q # r
      BY <1>2, <1>3, <1>5, <1>8, <2>1, FaultNext
  <2>2. CASE q = r
      BY <1>2, <1>8, <2>2, FaultNext
  <2> QED
      BY <2>1, <2>2
<1>9. ASSUME NEW k \in Keys, KeyExpires(k) PROVE Stays(q)
    BY <1>6, <1>9 DEF KeyExpires
<1>10. ASSUME Crash PROVE Stays(q)
    BY <1>2, <1>6, <1>10, CrashNext
<1>11. ASSUME UNCHANGED pc, faults' \in {faults, faults + 1} PROVE Stays(q)
    BY <1>3, <1>6, <1>11
<1> QED
    BY <1>7, <1>8, <1>9, <1>10, <1>11, CallsNext

\* PAYMENT_FAILED is told of what was rolled back, and what was rolled back stays so.
LEMMA AnnouncesStep ==
    ASSUME TypeOK, LedgerOfBookings, UndosInOrder, NothingBookedBefore, ToldLast, AnnouncesTruly,
           [Next]_vars
    PROVE  AnnouncesTruly'
<1>1. SUFFICES ASSUME faults' = 0, NEW q \in Ingests, told'[q] = "failed", KeyOf[q] \notin Expiring
               PROVE  payments[q] = "none" /\ ~BookPayment(q)
    BY BookedNext DEF AnnouncesTruly
<1>2. pc \in [Ingests -> Labels] /\ faults \in Nat
      /\ told \in [Ingests -> {"nothing", "settled", "duplicate", "failed"}]
    BY DEF TypeOK
<1>3. ASSUME told'[q] = told[q], faults' \in {faults, faults + 1}
      PROVE  payments[q] = "none" /\ ~BookPayment(q)
  <2>1. payments[q] = "none"
      BY <1>1, <1>2, <1>3 DEF AnnouncesTruly
  <2>2. pc[q] # "book"
      BY <1>1, <1>3 DEF ToldLast
  <2> QED
      BY <2>1, <2>2 DEF BookPayment
<1>4. ASSUME NEW r \in Ingests, IngestStep(r) PROVE payments[q] = "none" /\ ~BookPayment(q)
  <2>1. faults' = faults
      BY <1>4, PlaceNext
  <2>2. CASE told'[q] = told[q]
      BY <1>3, <2>1, <2>2
  <2>3. CASE told'[q] # told[q]
    <3>1. q = r
        BY <1>4, <2>3, PlaceNext
    <3>2. pc[q] = "removeKey"
        BY <1>1, <1>2, <1>4, <2>3, <3>1, PlaceNext DEF Labels, Ended
    <3> QED
        BY <1>1, <2>1, <3>2 DEF NothingBookedBefore, BookPayment
  <2> QED
      BY <2>2, <2>3
<1>5. ASSUME NEW r \in Ingests, CaughtFailure(r) \/ UncaughtFailure(r)
      PROVE  payments[q] = "none" /\ ~BookPayment(q)
    BY <1>1, <1>5, FaultNext
<1>6. ASSUME NEW k \in Keys, KeyExpires(k) PROVE payments[q] = "none" /\ ~BookPayment(q)
    BY <1>3, <1>6 DEF KeyExpires
<1>7. ASSUME Crash PROVE payments[q] = "none" /\ ~BookPayment(q)
    BY <1>3, <1>7, CrashNext
<1> QED
    BY <1>3, <1>4, <1>5, <1>6, <1>7, CallsNext

\* A call books under its key only while it holds it.
LEMMA OneBookingStep ==
    ASSUME TypeOK, LedgerOfBookings, UndosInOrder, NothingBookedBefore, KeysAreHeld,
           OneBookingPerKey, [Next]_vars
    PROVE  OneBookingPerKey'
<1>1. faults' = 0 => faults = 0
  <2>1. faults \in Nat /\ faults' \in {faults, faults + 1}
    <3>1. \A r \in Ingests : IngestStep(r) => faults' = faults
        BY DEF IngestStep, CheckCall, Book, FindKey, ReserveKey, DropKey, FindDuplicate, ReadWallet,
               BookPayment, RefusePayment, CompleteKey, RemoveKey, GiveUp
    <3> QED
        BY <3>1, FaultNext, CrashNext, CallsNext DEF TypeOK, KeyExpires
  <2> QED
      BY <2>1
<1>2. CASE Booked' = Booked
    BY <1>1, <1>2 DEF OneBookingPerKey
<1>3. ASSUME NEW r \in Ingests, BookPayment(r), r \notin Booked, Booked' = Booked \cup {r}, faults' = 0
      PROVE  OneBookingPerKey'
  <2>1. ASSUME KeyOf[r] \in Keys \ Expiring, NEW p \in Booked, KeyOf[p] = KeyOf[r] PROVE FALSE
    <3>1. Holds(r, KeyOf[r])
        BY <1>3 DEF BookPayment, Holds, PastTheKey
    <3>2. r = p
        BY <1>1, <1>3, <2>1, <3>1 DEF KeysAreHeld, HeldByOne
    <3> QED
        BY <1>3, <2>1, <3>2
  <2> QED
      BY <1>1, <1>3, <2>1 DEF OneBookingPerKey
<1>4. CASE faults' # 0
    BY <1>4 DEF OneBookingPerKey
<1> QED
    BY <1>2, <1>3, <1>4, BookedNext

\* What a statement on one key does to another.
LEMMA KeyStatement ==
    ASSUME KeysTypeOK, NEW k \in Keys, NEW r \in Ingests,
           \/ Reserve(KeyOf[r]) \/ DropExpired(KeyOf[r]) \/ RemoveOwnKey(r)
           \/ Complete(KeyOf[r], r) \/ UNCHANGED keys,
           KeyOf[r] # k
    PROVE  keys'[k] = keys[k]
    BY DEF KeysTypeOK, Reserve, DropExpired, RemoveOwnKey, Remove, Complete

\* What each statement makes of its own key.
LEMMA OwnKey ==
    ASSUME KeysTypeOK, NEW k \in Keys, NEW r \in Ingests, KeyOf[r] = k
    PROVE  /\ Reserve(k) => ~Exists(k) /\ Exists(k)' /\ InProgress(k)' /\ ~keys'[k].expired
           /\ DropExpired(k) \/ RemoveOwnKey(r) => ~Exists(k)' /\ ~InProgress(k)'
           /\ Complete(k, r) =>
                Exists(k)' /\ keys'[k].expired = keys[k].expired /\ ~InProgress(k)'
<1>1. keys \in [Keys -> Rows \cup {NoRow}] /\ k # NoKey /\ r \in Responses /\ NoResponse # r
    BY CallAssumption DEF KeysTypeOK
<1>2. ASSUME Reserve(k) PROVE ~Exists(k) /\ Exists(k)' /\ InProgress(k)' /\ ~keys'[k].expired
  <2>1. [response |-> NoResponse, expired |-> FALSE] # NoRow
      BY DEF NoRow
  <2> QED
      BY <1>1, <1>2, <2>1 DEF Reserve, Exists, InProgress
<1>3. ASSUME DropExpired(k) \/ RemoveOwnKey(r) PROVE ~Exists(k)' /\ ~InProgress(k)'
    BY <1>1, <1>3 DEF DropExpired, RemoveOwnKey, Remove, Exists, InProgress
<1>4. ASSUME Complete(k, r)
      PROVE  Exists(k)' /\ keys'[k].expired = keys[k].expired /\ ~InProgress(k)'
  <2>1. keys[k] \in Rows /\ keys' = [keys EXCEPT ![k].response = r]
      BY <1>1, <1>4 DEF Complete, Exists
  <2>2. keys'[k].response = r /\ keys'[k].expired = keys[k].expired /\ keys'[k] \in Rows
      BY <1>1, <2>1 DEF Rows
  <2>3. NoRow \notin Rows
      BY DEF NoRow, Rows
  <2> QED
      BY <1>1, <2>2, <2>3 DEF Exists, InProgress
<1> QED
    BY <1>2, <1>3, <1>4

\* A key that does not expire goes from one holder to the next through its row.
LEMMA HeldStep ==
    ASSUME TypeOK, LedgerOfBookings, UndosInOrder, NothingBookedBefore, KeysAreHeld, ToldLast,
           [Next]_vars, NEW k \in Keys \ Expiring
    PROVE  HeldByOne(k)'
<1> DEFINE H(q) == Holds(q, k)
<1>0. KeysTypeOK /\ faults \in Nat /\ pc \in [Ingests -> Labels]
    BY DEF TypeOK
<1>1. /\ Exists(k) => ~keys[k].expired
      /\ \A r \in Ingests : H(r) => InProgress(k) /\ \A q \in Ingests : H(q) => q = r
      /\ faults = 0 => \A p \in Booked : KeyOf[p] = k =>
            Exists(k) /\ \A r \in Ingests : H(r) => r = p
    BY DEF KeysAreHeld, HeldByOne
<1>2. ASSUME keys'[k] = keys[k], Booked' = Booked, \A q \in Ingests : H(q)' => H(q),
             faults' = 0 => faults = 0
      PROVE  HeldByOne(k)'
    BY <1>1, <1>2 DEF HeldByOne, Exists, InProgress
<1>3. ASSUME NEW r \in Ingests, IngestStep(r), NEW q \in Ingests, q # r PROVE H(q)' <=> H(q)
    BY <1>3, PlaceNext DEF Holds
<1>4. ASSUME NEW r \in Ingests, IngestStep(r), ~BookPayment(r) PROVE Booked' = Booked
  <2>1. \A q \in Ingests : BookPayment(q) => q = r
    <3>1. ASSUME NEW q \in Ingests, BookPayment(q), q # r PROVE FALSE
      <4>1. pc'[q] = "complete" /\ pc[q] = "book"
          BY <1>0, <3>1 DEF BookPayment, Goto
      <4> QED
          BY <1>4, <3>1, <4>1, PlaceNext
    <3> QED
        BY <3>1
  <2> QED
      BY <1>4, <2>1, BookedNext
<1>5. ASSUME NEW r \in Ingests, IngestStep(r) PROVE HeldByOne(k)'
  <2>0. faults' = faults
      BY <1>5, PlaceNext
  <2>1. \/ Reserve(KeyOf[r]) \/ DropExpired(KeyOf[r]) \/ RemoveOwnKey(r)
        \/ Complete(KeyOf[r], r) \/ UNCHANGED keys
    <3>1. pc[r] \in Labels
        BY <1>0
    <3> QED
        BY <1>5, <3>1, PlaceNext DEF Labels, Ended
  <2>2. CASE KeyOf[r] # k
    <3>1. keys'[k] = keys[k]
        BY <1>0, <2>1, <2>2, KeyStatement
    <3>2. \A q \in Ingests : H(q)' => H(q)
        BY <1>3, <1>5, <2>2 DEF Holds
    <3>3. CASE ~BookPayment(r)
        BY <1>2, <1>4, <1>5, <2>0, <3>1, <3>2, <3>3
    <3>4. CASE BookPayment(r)
      <4>1. Booked' = Booked \cup {r}
          BY <3>4, BookingNext
      <4> QED
          BY <1>1, <2>0, <2>2, <3>1, <3>2, <4>1 DEF HeldByOne, Exists, InProgress
    <3> QED
        BY <3>3, <3>4
  <2>3. CASE KeyOf[r] = k /\ pc[r] = "idle"
    <3>1. keys' = keys /\ ~BookPayment(r) /\ ~H(r)'
        BY <1>5, <2>3, CallAssumption, PlaceNext DEF Holds, PastTheKey
    <3> QED
        BY <1>2, <1>3, <1>4, <1>5, <2>0, <3>1
  <2>4. CASE KeyOf[r] = k /\ pc[r] = "reserve"
    <3>1. ~BookPayment(r) /\ Booked' = Booked
        BY <1>4, <1>5, <2>4 DEF BookPayment
    <3>2. CASE Reserve(k)
      <4>1. ~Exists(k) /\ Exists(k)' /\ InProgress(k)' /\ ~keys'[k].expired
          BY <1>0, <2>4, <3>2, OwnKey
      <4>2. \A q \in Ingests : ~H(q)
          BY <1>1, <4>1 DEF InProgress
      <4>3. \A q \in Ingests : H(q)' => q = r
          BY <1>3, <1>5, <4>2
      <4>4. faults = 0 => \A p \in Booked : KeyOf[p] # k
          BY <1>1, <4>1
      <4> QED
          BY <2>0, <3>1, <4>1, <4>3, <4>4 DEF HeldByOne
    <3>3. CASE UNCHANGED keys /\ pc'[r] = "refused"
      <4>1. ~H(r)'
          BY <3>3 DEF Holds, PastTheKey
      <4> QED
          BY <1>2, <1>3, <1>5, <2>0, <3>1, <3>3, <4>1
    <3> QED
        BY <1>5, <2>4, <3>2, <3>3, PlaceNext
  <2>5. CASE KeyOf[r] = k /\ pc[r] = "drop"
      BY <2>5 DEF KeysAreHeld
  <2>6. CASE KeyOf[r] = k /\ pc[r] \in {"dedupe", "wallet", "book"}
    <3>1. H(r) /\ keys' = keys
        BY <1>5, <2>6, PlaceNext DEF Holds, PastTheKey
    <3>2. \A q \in Ingests : H(q)' => H(q)
        BY <1>3, <1>5, <3>1
    <3>3. CASE ~BookPayment(r)
        BY <1>2, <1>4, <1>5, <2>0, <3>1, <3>2, <3>3
    <3>4. CASE BookPayment(r)
      <4>1. Booked' = Booked \cup {r}
          BY <3>4, BookingNext
      <4>2. Exists(k) /\ \A q \in Ingests : H(q)' => q = r
          BY <1>1, <3>1, <3>2 DEF InProgress
      <4> QED
          BY <1>1, <2>0, <3>1, <3>2, <4>1, <4>2 DEF HeldByOne, Exists, InProgress
    <3> QED
        BY <3>3, <3>4
  <2>7. CASE KeyOf[r] = k /\ pc[r] = "complete"
    <3>1. H(r) /\ InProgress(k) /\ Exists(k) /\ (\A q \in Ingests : H(q) => q = r) /\ k # NoKey
        BY <1>1, <2>7, CallAssumption DEF Holds, PastTheKey, InProgress
    <3>2. pc'[r] = "returned" /\ Complete(k, r)
        BY <1>5, <2>7, <3>1, PlaceNext
    <3>3. Exists(k)' /\ ~keys'[k].expired
        BY <1>0, <1>1, <2>7, <3>1, <3>2, OwnKey
    <3>4. \A q \in Ingests : ~H(q)'
        BY <1>3, <1>5, <3>1, <3>2 DEF Holds, PastTheKey
    <3>5. Booked' = Booked
        BY <1>4, <1>5, <2>7 DEF BookPayment
    <3> QED
        BY <3>3, <3>4 DEF HeldByOne
  <2>8. CASE KeyOf[r] = k /\ pc[r] \in {"removeKey", "giveUp"}
    <3>1. H(r) /\ (\A q \in Ingests : H(q) => q = r) /\ pc'[r] = "refused" /\ RemoveOwnKey(r)
        BY <1>1, <1>5, <2>8, PlaceNext DEF Holds, PastTheKey
    <3>2. ~Exists(k)'
        BY <1>0, <2>8, <3>1, OwnKey
    <3>3. \A q \in Ingests : ~H(q)'
        BY <1>3, <1>5, <3>1 DEF Holds, PastTheKey
    <3>4. Booked' = Booked
        BY <1>4, <1>5, <2>8 DEF BookPayment
    <3>5. faults = 0 => payments[r] = "none"
        BY <2>8 DEF NothingBookedBefore
    <3>6. faults = 0 => \A p \in Booked : KeyOf[p] # k
        BY <1>1, <3>1, <3>5 DEF Booked
    <3> QED
        BY <2>0, <3>2, <3>3, <3>4, <3>6 DEF HeldByOne
  <2> QED
    <3>1. pc[r] \in Labels \ {"returned", "refused", "dead"}
        BY <1>0, <1>5, PlaceNext DEF Ended
    <3> QED
        BY <2>2, <2>3, <2>4, <2>5, <2>6, <2>7, <2>8, <3>1 DEF Labels
<1>6. ASSUME NEW r \in Ingests, CaughtFailure(r) \/ UncaughtFailure(r) PROVE HeldByOne(k)'
  <2>1. /\ keys' = keys /\ Booked' = Booked /\ faults' # 0
        /\ \A q \in Ingests : H(q)' => H(q)
      BY <1>6, FaultNext DEF Holds, PastTheKey, Booked
  <2> QED
      BY <1>2, <2>1
<1>7. ASSUME NEW j \in Keys, KeyExpires(j) PROVE HeldByOne(k)'
  <2>1. keys'[k] = keys[k] /\ UNCHANGED <<pc, payments, faults>>
      BY <1>0, <1>7 DEF KeyExpires, Expire, KeysTypeOK
  <2> QED
      BY <1>2, <2>1 DEF Holds, Booked
<1>8. ASSUME Crash PROVE HeldByOne(k)'
  <2>1. UNCHANGED <<keys, payments, faults>> /\ \A q \in Ingests : H(q)' => H(q)
      BY <1>8, CrashNext DEF Holds, PastTheKey
  <2> QED
      BY <1>2, <2>1 DEF Booked
<1>9. ASSUME UNCHANGED <<keys, pc, told, crashes>>, faults' \in {faults, faults + 1}
      PROVE  HeldByOne(k)'
  <2>1. \A r \in Ingests : ~BookPayment(r)
    <3>1. \A r \in Ingests : BookPayment(r) => pc'[r] # pc[r]
        BY <1>0 DEF BookPayment, Goto
    <3> QED
        BY <1>9, <3>1
  <2>2. Booked' = Booked
      BY <2>1, BookedNext
  <2> QED
      BY <1>0, <1>2, <1>9, <2>2 DEF Holds
<1> HIDE DEF H
<1> QED
    BY <1>5, <1>6, <1>7, <1>8, <1>9, CallsNext

\* Only a call with a key writes to it.
LEMMA KeysStep ==
    ASSUME TypeOK, LedgerOfBookings, UndosInOrder, NothingBookedBefore, KeysAreHeld, ToldLast,
           [Next]_vars
    PROVE  KeysAreHeld'
<1>1. SUFFICES ASSUME NEW q \in Ingests, pc'[q] \in {"reserve", "drop"}
               PROVE  KeyOf[q] \in Keys /\ (pc'[q] = "drop" => KeyOf[q] \in Expiring)
    BY HeldStep DEF KeysAreHeld
<1>2. ASSUME pc'[q] = pc[q]
      PROVE  KeyOf[q] \in Keys /\ (pc'[q] = "drop" => KeyOf[q] \in Expiring)
    BY <1>1, <1>2 DEF KeysAreHeld
<1>3. ASSUME NEW r \in Ingests, IngestStep(r)
      PROVE  KeyOf[q] \in Keys /\ (pc'[q] = "drop" => KeyOf[q] \in Expiring)
  <2>1. CASE q # r
      BY <1>2, <1>3, <2>1, PlaceNext
  <2>2. CASE q = r
    <3>1. pc[q] \in Labels
        BY DEF TypeOK
    <3>2. pc[q] = "idle"
        BY <1>1, <1>3, <2>2, <3>1, PlaceNext DEF Labels, Ended
    <3>3. KeyOf[q] \in Keys /\ (pc'[q] = "drop" => Stale(KeyOf[q]))
        BY <1>1, <1>3, <2>2, <3>2, CallAssumption, PlaceNext
    <3> QED
        BY <3>3 DEF KeysAreHeld, HeldByOne, Stale
  <2> QED
      BY <2>1, <2>2
<1>4. ASSUME NEW r \in Ingests, CaughtFailure(r) \/ UncaughtFailure(r) PROVE pc'[q] = pc[q]
    BY <1>1, <1>4, FaultNext
<1>5. ASSUME Crash PROVE pc'[q] = pc[q]
    BY <1>1, <1>5, CrashNext
<1>6. ASSUME NEW k \in Keys, KeyExpires(k) PROVE pc'[q] = pc[q]
    BY <1>6 DEF KeyExpires
<1> QED
    BY <1>2, <1>3, <1>4, <1>5, <1>6, CallsNext

\* A key in progress is given up by its holder, or left behind as a call hands out a duplicate.
LEMMA ProgressStep ==
    ASSUME TypeOK, KeysInProgress, ToldLast, [Next]_vars
    PROVE  KeysInProgress'
<1> DEFINE Kept(q, k) == Holds(q, k) \/ (KeyOf[q] = k /\ told[q] = "duplicate")
<1>0. KeysTypeOK /\ pc \in [Ingests -> Labels] /\ faults \in Nat /\ crashes \in Nat
    BY DEF TypeOK
<1>1. SUFFICES ASSUME NEW k \in Keys, InProgress(k)', ~(faults' > 0), ~(crashes' > 0)
               PROVE  \E q \in Ingests : Kept(q, k)'
    BY DEF KeysInProgress
<1>2. ASSUME keys'[k] = keys[k], faults' \in {faults, faults + 1}, crashes' = crashes
      PROVE  \E q \in Ingests : Kept(q, k)
  <2>1. InProgress(k) /\ ~(faults > 0) /\ ~(crashes > 0)
      BY <1>0, <1>1, <1>2 DEF InProgress, Exists
  <2> QED
      BY <2>1 DEF KeysInProgress
<1>3. ASSUME NEW r \in Ingests, IngestStep(r) PROVE \E q \in Ingests : Kept(q, k)'
  <2>0. /\ faults' = faults /\ crashes' = crashes
        /\ \A q \in Ingests : q # r => pc'[q] = pc[q] /\ told'[q] = told[q]
        /\ told[r] = "nothing" /\ pc[r] \in Labels \ {"returned", "refused", "dead"}
      BY <1>0, <1>3, PlaceNext DEF Ended, ToldLast
  <2>1. \/ Reserve(KeyOf[r]) \/ DropExpired(KeyOf[r]) \/ RemoveOwnKey(r)
        \/ Complete(KeyOf[r], r) \/ UNCHANGED keys
      BY <1>3, <2>0, PlaceNext DEF Labels
  <2>2. CASE KeyOf[r] # k
    <3>1. keys'[k] = keys[k]
        BY <1>0, <2>1, <2>2, KeyStatement
    <3>2. PICK q \in Ingests : Kept(q, k)
        BY <1>2, <2>0, <3>1
    <3>3. q # r
        BY <2>2, <3>2 DEF Holds
    <3>4. Kept(q, k)'
        BY <2>0, <3>2, <3>3 DEF Holds
    <3> QED
        BY <3>4
  <2>3. CASE KeyOf[r] = k
    <3>1. CASE pc[r] \in {"reserve", "drop"}
      <4>1. CASE pc'[r] \in {"dedupe", "wallet"}
        <5>1. Kept(r, k)'
            BY <2>3, <4>1 DEF Holds, PastTheKey
        <5> QED
            BY <5>1
      <4>2. CASE UNCHANGED keys /\ pc'[r] = "refused"
        <5>1. PICK q \in Ingests : Kept(q, k)
            BY <1>2, <2>0, <4>2
        <5>2. q # r
            BY <2>0, <3>1, <5>1 DEF Holds, PastTheKey
        <5>3. Kept(q, k)'
            BY <2>0, <5>1, <5>2 DEF Holds
        <5> QED
            BY <5>3
      <4> QED
          BY <1>3, <3>1, <4>1, <4>2, PlaceNext
    <3>2. CASE pc[r] = "idle"
      <4>1. UNCHANGED keys
          BY <1>3, <3>2, PlaceNext
      <4>2. PICK q \in Ingests : Kept(q, k)
          BY <1>2, <2>0, <4>1
      <4>3. q # r
          BY <2>0, <3>2, <4>2 DEF Holds, PastTheKey
      <4>4. Kept(q, k)'
          BY <2>0, <4>2, <4>3 DEF Holds
      <4> QED
          BY <4>4
    <3>3. CASE pc[r] \in {"dedupe", "wallet", "book"}
      <4>1. pc'[r] \in PastTheKey \/ told'[r] = "duplicate"
          BY <1>3, <3>3, PlaceNext DEF PastTheKey
      <4>2. Kept(r, k)'
          BY <2>3, <4>1 DEF Holds
      <4> QED
          BY <4>2
    <3>4. CASE pc[r] = "complete"
      <4>1. k # NoKey
          BY CallAssumption
      <4>2. pc'[r] = "removeKey"
          BY <1>0, <1>1, <1>3, <2>3, <3>4, <4>1, OwnKey, PlaceNext
      <4>3. Kept(r, k)'
          BY <2>3, <4>2 DEF Holds, PastTheKey
      <4> QED
          BY <4>3
    <3>5. CASE pc[r] \in {"removeKey", "giveUp"}
      <4>1. RemoveOwnKey(r)
          BY <1>3, <3>5, PlaceNext
      <4> QED
          BY <1>0, <1>1, <2>3, <4>1, OwnKey
    <3> QED
        BY <2>0, <3>1, <3>2, <3>3, <3>4, <3>5 DEF Labels
  <2> QED
      BY <2>2, <2>3
<1>4. ASSUME NEW r \in Ingests, CaughtFailure(r) \/ UncaughtFailure(r)
      PROVE  \E q \in Ingests : Kept(q, k)'
    BY <1>1, <1>4, FaultNext
<1>5. ASSUME Crash PROVE \E q \in Ingests : Kept(q, k)'
    BY <1>1, <1>5, CrashNext
<1>6. ASSUME NEW j \in Keys, KeyExpires(j) PROVE \E q \in Ingests : Kept(q, k)'
  <2>1. /\ keys[j] \in Rows /\ keys' = [keys EXCEPT ![j].expired = TRUE]
        /\ UNCHANGED <<pc, told, faults, crashes>>
      BY <1>0, <1>6 DEF KeyExpires, Expire, Exists, KeysTypeOK
  <2>2. j # k
    <3>1. j = k => keys'[k].expired = TRUE
        BY <1>0, <2>1 DEF Rows, KeysTypeOK
    <3> QED
        BY <1>1, <3>1 DEF InProgress
  <2>3. keys'[k] = keys[k]
      BY <1>0, <2>1, <2>2 DEF KeysTypeOK
  <2> QED
      BY <1>2, <2>1, <2>3 DEF Holds
<1>7. ASSUME UNCHANGED <<keys, pc, told, crashes>>, faults' \in {faults, faults + 1}
      PROVE  \E q \in Ingests : Kept(q, k)'
    BY <1>2, <1>7 DEF Holds
<1> HIDE DEF Kept
<1> QED
    BY <1>3, <1>4, <1>5, <1>6, <1>7, CallsNext

-----------------------------------------------------------------------------
(***************************************************************************)
(* The report on a payment                                                 *)
(***************************************************************************)

\* A payment's rows debit what it is of: its booking, and every reversal of it.
LEMMA DebitsOf ==
    ASSUME NEW es \in Seq(EntryRecord), Len(es) >= 2, SumOf(es) = 0, es[1].amount >= 0,
           \A i \in 2..Len(es) : es[i].amount <= 0
    PROVE  /\ Debits(es) = es[1].amount
           /\ SumOf(NegatedEntries(es)) = 0 /\ Debits(NegatedEntries(es)) = es[1].amount
<1> DEFINE n == Len(es)
           x == es[1].amount
           ns == NegatedEntries(es)
           amount == [i \in 1..n |-> es[i].amount]
           up == [i \in 1..n |-> IF es[i].amount > 0 THEN es[i].amount ELSE 0]
           down == [i \in 1..n |-> IF ns[i].amount > 0 THEN ns[i].amount ELSE 0]
           zero == [i \in 1..n |-> 0]
<1>0. /\ n \in Nat /\ DOMAIN es = 1..n /\ 1 \in 1..n
      /\ \A i \in 1..n : es[i].amount \in Int
      /\ ns \in Seq(EntryRecord) /\ DOMAIN ns = 1..n
      /\ \A i \in 1..n : ns[i].amount = -es[i].amount
  <2>1. n \in Nat /\ DOMAIN es = 1..n /\ \A i \in 1..n : es[i] \in EntryRecord
      BY LenProperties
  <2>2. es \in Seq([account : Accounts, amount : Int])
      BY DEF EntryRecord
  <2>3. /\ ns \in Seq([account : Accounts, amount : Int]) /\ Len(ns) = n
        /\ \A i \in DOMAIN es : ns[i].amount = -es[i].amount
      BY <2>2, NegatedType
  <2>4. DOMAIN ns = 1..n
      BY <2>3, LenProperties
  <2>5. ns \in Seq(EntryRecord)
      BY <2>3 DEF EntryRecord
  <2>6. \A i \in 1..n : es[i].amount \in Int
      BY <2>1 DEF EntryRecord
  <2> HIDE DEF ns, n, x, amount, up, down, zero
  <2> QED
      BY <2>1, <2>3, <2>4, <2>5, <2>6
<1>1. /\ Debits(es) = SumFunctionOnSet(up, 1..n)
      /\ Debits(ns) = SumFunctionOnSet(down, 1..n)
      /\ SumOf(es) = SumFunctionOnSet(amount, 1..n)
    BY <1>0 DEF Debits, SumOf, SumFunction
<1>2. IsFiniteSet(1..n)
  <2>1. n \in Nat
      BY <1>0
  <2> HIDE DEF n
  <2> QED
      BY ONLY <2>1, FS_Interval
<1>3. SumOf(ns) = 0
  <2>1. es \in Seq([account : Accounts, amount : Int])
      BY DEF EntryRecord
  <2>2. SumOf(es) \in Int /\ SumOf(ns) = -SumOf(es)
      BY <2>1, NegatedSum, Zenon
  <2>3. \A y \in Int : -y = 0 - y
      OBVIOUS
  <2>4. SumOf(ns) = 0 - SumOf(es)
      BY <2>2, <2>3, Zenon
  <2> HIDE DEF ns
  <2> QED
      BY <2>4
<1>4. /\ \A i \in 1..n : /\ amount[i] \in Int /\ up[i] \in Int /\ down[i] \in Int
                         /\ zero[i] = 0
                         /\ down[i] = up[i] - amount[i]
                         /\ i # 1 => up[i] = 0
      /\ up[1] = x /\ x \in Int
    BY <1>0
<1> HIDE DEF amount, up, down, ns, zero
<1>5. SumFunctionOnSet(zero, 1..n) = 0
    BY <1>2, <1>4, SumOfZeros
<1>6. SumFunctionOnSet(up, 1..n) = x
  <2>1. SumFunctionOnSet(up, 1..n) = SumFunctionOnSet(zero, 1..n) + up[1] - zero[1]
    <3>1. \A i \in (1..n) \ {1} : up[i] = zero[i]
        BY <1>4
    <3>2. (\A i \in 1..n : zero[i] \in Int /\ up[i] \in Int) /\ 1 \in 1..n
        BY <1>0, <1>4
    <3> QED
        BY ONLY <1>2, <3>1, <3>2, SumChange
  <2> QED
      BY <1>0, <1>4, <1>5, <2>1
<1>7. SumFunctionOnSet(up, 1..n) = SumFunctionOnSet(amount, 1..n) + SumFunctionOnSet(down, 1..n)
  <2>1. \A i \in 1..n : amount[i] \in Int /\ down[i] \in Int /\ up[i] = amount[i] + down[i]
      BY <1>4
  <2> QED
      BY ONLY <1>2, <2>1, SumPlus
<1>8. SumFunctionOnSet(down, 1..n) \in Int
    BY <1>2, <1>4, SumRemove
<1> QED
    BY <1>1, <1>3, <1>4, <1>6, <1>7, <1>8 DEF ns

\* Every row of a payment is its booking or a reversal of it, and debits its amount.
LEMMA RowsOfPayment ==
    ASSUME TypeOK, LedgerOfBookings, NEW p \in Booked
    PROVE  LET o == OriginalOf(p)
               x == RoundTo(OrderOf[p].amount, Scale)
           IN  /\ x \in Nat /\ o \in 1..Len(ledger)
               /\ PostedFor(ledger, p) = {o} \cup Reversals(ledger, o) /\ o \notin Reversals(ledger, o)
               /\ \A t \in PostedFor(ledger, p) :
                     SumOf(ledger[t].entries) = 0 /\ Debits(ledger[t].entries) = x
<1> DEFINE o == OriginalOf(p)
           es == ledger[o].entries
           x == RoundTo(OrderOf[p].amount, Scale)
<1>1. /\ Originals(p) = {o} /\ o \in 1..Len(ledger) /\ p \in Ingests
      /\ ledger[o].referenceId = p /\ ledger[o].original = NoOriginal
      /\ Bookable(OrderOf[p]) /\ es = PaymentEntries(OrderOf[p])
    BY OriginalOfBooked
<1>2. /\ es \in Seq(EntryRecord) /\ Len(es) >= 2 /\ SumOf(es) = 0
      /\ es[1].amount = x /\ x \in Nat /\ \A i \in 2..Len(es) : es[i].amount <= 0
    BY <1>1, OrderAssumption, PaymentShape
<1>3. Debits(es) = x /\ SumOf(NegatedEntries(es)) = 0 /\ Debits(NegatedEntries(es)) = x
    BY <1>2, DebitsOf
<1>4. /\ PostedFor(ledger, p) = {t \in 1..Len(ledger) : ledger[t].referenceId = p}
      /\ Reversals(ledger, o) = {t \in 1..Len(ledger) : ledger[t].original = o}
      /\ o # NoOriginal /\ DOMAIN ledger = 1..Len(ledger)
    BY <1>1, LedgerTypes DEF NoOriginal
<1>5. ASSUME NEW t \in Reversals(ledger, o)
      PROVE  ledger[t].referenceId = p /\ ledger[t].entries = NegatedEntries(es)
  <2>1. o \in Originals(ledger[t].referenceId) /\ ledger[t].entries = NegatedEntries(es)
      BY <1>4, <1>5 DEF LedgerOfBookings, OfBooking
  <2>2. ledger[o].referenceId = ledger[t].referenceId
      BY <2>1, LedgerTypes
  <2> QED
      BY <1>1, <2>1, <2>2
<1>6. ASSUME NEW t \in PostedFor(ledger, p) PROVE t \in {o} \cup Reversals(ledger, o)
  <2>1. CASE ledger[t].original = NoOriginal
      BY <1>1, <1>4, <1>6, <2>1, LedgerTypes
  <2>2. CASE ledger[t].original # NoOriginal
    <3>1. ledger[t].original \in Originals(p)
        BY <1>4, <1>6, <2>2 DEF LedgerOfBookings, OfBooking
    <3> QED
        BY <1>1, <1>4, <1>6, <3>1
  <2> QED
      BY <2>1, <2>2
<1>7. PostedFor(ledger, p) = {o} \cup Reversals(ledger, o) /\ o \notin Reversals(ledger, o)
    BY <1>1, <1>4, <1>5, <1>6
<1> HIDE DEF o, es, x
<1>8. \A t \in PostedFor(ledger, p) : SumOf(ledger[t].entries) = 0 /\ Debits(ledger[t].entries) = x
    BY <1>2, <1>3, <1>5, <1>7 DEF es
<1> QED
    BY <1>1, <1>2, <1>7, <1>8 DEF o, x

\* Of a payment of at least one unit, the report tells whether it was reversed.
LEMMA MatchedMeans ==
    ASSUME TypeOK, LedgerOfBookings, NEW p \in Booked, RoundTo(OrderOf[p].amount, Scale) # 0
    PROVE  Matched(p) <=> Reversals(ledger, OriginalOf(p)) = {}
<1> DEFINE o == OriginalOf(p)
           x == RoundTo(OrderOf[p].amount, Scale)
           n == Len(ledger)
           all == PostedFor(ledger, p)
           f == [t \in 1..n |-> IF t \in all THEN Debits(ledger[t].entries) ELSE 0]
           zero == [t \in 1..n |-> 0]
           one == [t \in 1..n |-> IF t = o THEN x ELSE 0]
<1>1. /\ x \in Nat \ {0} /\ o \in 1..n
      /\ all = {o} \cup Reversals(ledger, o) /\ o \notin Reversals(ledger, o)
      /\ \A t \in all : SumOf(ledger[t].entries) = 0 /\ Debits(ledger[t].entries) = x
    BY RowsOfPayment
<1>2. /\ n \in Nat /\ DOMAIN ledger = 1..n /\ all \subseteq 1..n /\ IsFiniteSet(1..n)
    BY LedgerTypes, FS_Interval
<1>3. ReportedDebits(p) = SumFunctionOnSet(f, 1..n)
    BY <1>2 DEF ReportedDebits, SumFunction
<1>4. /\ \A t \in 1..n : f[t] = (IF t \in all THEN x ELSE 0) /\ f[t] \in Nat /\ f[t] \in Int
      /\ \A t \in 1..n : zero[t] = 0 /\ one[t] = (IF t = o THEN x ELSE 0) /\ one[t] \in Int
    BY <1>1, <1>2
<1> HIDE DEF f, zero, one, n, all, o, x
<1>5. SumFunctionOnSet(one, 1..n) = x
  <2>1. SumFunctionOnSet(zero, 1..n) = 0
      BY <1>2, <1>4, SumOfZeros
  <2>2. (\A t \in 1..n : zero[t] \in Int /\ one[t] \in Int) /\ o \in 1..n
      BY <1>1, <1>4
  <2>3. \A t \in (1..n) \ {o} : one[t] = zero[t]
      BY <1>4
  <2>4. SumFunctionOnSet(one, 1..n) = SumFunctionOnSet(zero, 1..n) + one[o] - zero[o]
      BY ONLY <1>2, <2>2, <2>3, SumChange
  <2> QED
      BY <1>1, <1>4, <2>1, <2>4
<1>6. CASE Reversals(ledger, o) = {}
  <2>1. \A t \in 1..n : f[t] = one[t] /\ f[t] \in Int
      BY <1>1, <1>4, <1>6
  <2>2. SumFunctionOnSet(f, 1..n) = x
      BY <1>2, <1>5, <2>1, SumSame
  <2> QED
      BY <1>1, <1>3, <1>6, <2>2 DEF Matched, o, x, all
<1>7. CASE Reversals(ledger, o) # {}
  <2>1. PICK t : t \in Reversals(ledger, o)
      BY <1>7
  <2> DEFINE rest == (1..n) \ {o}
  <2>2. t \in rest /\ t \in all /\ IsFiniteSet(rest)
      BY <1>1, <1>2, <2>1, FS_Subset
  <2>3. SumFunctionOnSet(f, 1..n) = f[o] + SumFunctionOnSet(f, rest)
      BY <1>1, <1>2, <1>4, SumRemove
  <2>4. f[t] <= SumFunctionOnSet(f, rest) /\ SumFunctionOnSet(f, rest) \in Nat
    <3>1. \A u \in rest : f[u] \in Nat
        BY <1>4
    <3> QED
        BY <2>2, <3>1, SumOfNaturals
  <2>5. f[o] = x /\ f[t] = x
      BY <1>1, <1>4, <2>2
  <2>6. SumFunctionOnSet(f, 1..n) # x
      BY <1>1, <2>3, <2>4, <2>5
  <2> QED
      BY <1>3, <1>7, <2>6 DEF Matched, o, x
<1> QED
    BY <1>6, <1>7 DEF o

-----------------------------------------------------------------------------
(***************************************************************************)
(* The theorems                                                            *)
(***************************************************************************)

LEMMA InitHolds == Init => IInv
<1> SUFFICES ASSUME Init PROVE IInv
    OBVIOUS
<1>1. /\ ledger = << >> /\ DOMAIN ledger = {} /\ Booked = {}
      /\ \A k \in Keys : keys[k] = NoRow
      /\ \A r \in Ingests : pc[r] = "idle" /\ told[r] = "nothing" /\ payments[r] = "none"
      /\ \A c \in Undos : undo[c] = NoUndo
      /\ faults = 0 /\ crashes = 0
    BY DEF Init, KeysInit, Booked
<1>2. TypeOK
    BY DEF Init, TypeOK, KeysInit, KeysTypeOK, Statuses, Labels
<1>3. LedgerOfBookings
  <2>1. \A p : Originals(p) = {}
      BY <1>1 DEF Originals, PostedFor
  <2> QED
      BY <1>1, <2>1 DEF LedgerOfBookings
<1>4. UndosInOrder
    BY <1>1 DEF UndosInOrder, Undoing, NoUndo
<1>5. NothingBookedBefore /\ ToldLast
    BY <1>1 DEF NothingBookedBefore, ToldLast
<1>6. KeysAreHeld /\ KeysInProgress
    BY <1>1 DEF KeysAreHeld, KeysInProgress, HeldByOne, Holds, PastTheKey, Exists, InProgress
<1>7. OncePerExternalId /\ AnnouncesTruly /\ OneBookingPerKey
    BY <1>1 DEF OncePerExternalId, AnnouncesTruly, OneBookingPerKey
<1>8. StatusHasItsReversal
    BY <1>1 DEF StatusHasItsReversal, StatusAfter
<1> QED
    BY <1>2, <1>3, <1>4, <1>5, <1>6, <1>7, <1>8 DEF IInv

LEMMA StepHolds == IInv /\ [Next]_vars => IInv'
    BY TypeStep, LedgerStep, UndosStep, StatusStep, BeforeStep, KeysStep, ProgressStep, ToldStep,
       TwinsStep, AnnouncesStep, OneBookingStep DEF IInv

\* The inductive invariant holds in every reachable state.
THEOREM Invariant == Spec => []IInv
    BY InitHolds, StepHolds, PTL DEF Spec

\* The tables hold rows of their schema, whatever the calls.
THEOREM TypeCorrect == Spec => []TypeOK
<1>1. IInv => TypeOK
    BY DEF IInv
<1> QED
    BY <1>1, Invariant, PTL

\* Calls for one external id book one payment, however they interleave.
THEOREM BooksOncePerExternalId == Spec => []OncePerExternalId
<1>1. IInv => OncePerExternalId
    BY DEF IInv
<1> QED
    BY <1>1, Invariant, PTL

\* Retries under one key book one payment, without database errors and while the key lives.
THEOREM BooksOncePerKey == Spec => []OneBookingPerKey
<1>1. IInv => OneBookingPerKey
    BY DEF IInv
<1> QED
    BY <1>1, Invariant, PTL

\* PAYMENT_FAILED is announced only of what was rolled back.
THEOREM AnnouncedAsDone == Spec => []AnnouncesTruly
<1>1. IInv => AnnouncesTruly
    BY DEF IInv
<1> QED
    BY <1>1, Invariant, PTL

\* REFUNDED and CHARGEBACKED are the statuses of payments with such a reversal.
THEOREM StatusIsReversed == Spec => []StatusHasItsReversal
<1>1. IInv => StatusHasItsReversal
    BY DEF IInv
<1> QED
    BY <1>1, Invariant, PTL

\* Only an error, a crash or a duplicate leaves a client's key in progress with no call to
\* end it.
THEOREM LockedOutBy == Spec => []LockedOutByDuplicate
<1>1. KeysInProgress => LockedOutByDuplicate
  <2>1. \A r \in Ingests, k \in Keys : Holds(r, k) => KeyOf[r] = k /\ ~Ended(r)
      BY DEF Holds, PastTheKey, Ended
  <2> QED
      BY <2>1 DEF KeysInProgress, LockedOutByDuplicate
<1>2. IInv => LockedOutByDuplicate
    BY <1>1 DEF IInv
<1> QED
    BY <1>2, Invariant, PTL

\* The report of a booked payment matches until it is reversed, when no payment rounds to
\* nothing: the reversal of one that does adds nothing to its report.
THEOREM MatchesUntilReversed ==
    ASSUME \A r \in Ingests : RoundTo(OrderOf[r].amount, Scale) # 0
    PROVE  Spec => []MatchedUntilReversed
<1>1. IInv => MatchedUntilReversed
  <2> SUFFICES ASSUME IInv, NEW p \in Booked
               PROVE  Matched(p) <=> Reversals(ledger, OriginalOf(p)) = {}
      BY DEF MatchedUntilReversed
  <2> QED
      BY MatchedMeans DEF IInv, Booked
<1> QED
    BY <1>1, Invariant, PTL

=============================================================================
