---------------------------- MODULE LedgerProofs ----------------------------
(***************************************************************************)
(* The invariants of Ledger, for every number of callers, accounts and     *)
(* drafts and without the bound on rows.  Sums stay opaque: what balances  *)
(* is what passed the double-entry check, so no fact about sums is needed. *)
(***************************************************************************)
EXTENDS Ledger, LedgerOpsProofs

StoredEntry == [account : Accounts, amount : Int]

-----------------------------------------------------------------------------
\* Rounding an integer number of fine units gives an integer number of units
\* of the amount column.
LEMMA ToColumnType == ASSUME NEW x \in Int PROVE ToColumn(x) \in Int
    BY ScaleAssumption DEF ToColumn, RoundTo

\* The stored entries of a postable draft are entries of existing accounts.
LEMMA StoredType ==
    ASSUME NEW d \in Drafts, AccountsExist(d.entries)
    PROVE  Stored(d.entries) \in Seq(StoredEntry)
<1> DEFINE es == d.entries
<1>1. es \in Seq([account : AccountIds, amount : Int, currency : Currencies])
    BY DraftAssumption DEF Draft
<1>2. es \in [1..Len(es) -> [account : AccountIds, amount : Int, currency : Currencies]]
      /\ Len(es) \in Nat /\ DOMAIN es = 1..Len(es)
    BY <1>1, LenProperties
<1>3. \A i \in 1..Len(es) : Entry(es[i].account, ToColumn(es[i].amount)) \in StoredEntry
    <2>1. TAKE i \in 1..Len(es)
    <2>2. es[i].amount \in Int
        BY <1>2
    <2>3. es[i].account \in Accounts
        BY <1>2 DEF AccountsExist
    <2> QED
        BY <2>2, <2>3, ToColumnType DEF Entry, StoredEntry
<1> QED
    BY <1>2, <1>3, IsASeq DEF Stored

\* The row PostTransaction appends, and the counter-row ReadOriginal computes.
LEMMA PostedType ==
    ASSUME NEW d \in Drafts, AccountsExist(d.entries)
    PROVE  Transaction(d.referenceId, "PAYMENT_RECEIVED", Stored(d.entries), NoOriginal) \in Row
<1>1. d.referenceId \in References
    BY DraftAssumption DEF Draft
<1> QED
    BY <1>1, StoredType DEF Transaction, Row, StoredEntry, NoOriginal

LEMMA ReversalType ==
    ASSUME NEW l \in Seq(Row), NEW t \in 1..Len(l)
    PROVE  ReversalOf(l, t, "ADJUSTMENT") \in Row
<1>1. l[t] \in Row
    BY ElementOfSeq
<1>2. l[t].entries \in Seq(StoredEntry) /\ l[t].referenceId \in References
    BY <1>1 DEF Row, StoredEntry
<1>3. NegatedEntries(l[t].entries) \in Seq(StoredEntry)
    BY <1>2, NegatedType DEF StoredEntry
<1>4. t \in Nat
    BY LenProperties
<1> QED
    BY <1>2, <1>3, <1>4 DEF ReversalOf, Transaction, Row, StoredEntry

LEMMA RowIsSomething == NoTransaction \notin Row
    BY DEF NoTransaction, Row

-----------------------------------------------------------------------------
\* Type correctness: the ledger holds POSTED rows over existing accounts, and a
\* caller holds a computed reversal exactly while it is between read and post.
THEOREM TypeCorrect == Spec => []TypeOK
<1>1. Init => TypeOK
    BY EmptySeq DEF Init, TypeOK
<1>2. TypeOK /\ [Next]_vars => TypeOK'
    <2> SUFFICES ASSUME TypeOK, [Next]_vars PROVE TypeOK'
        OBVIOUS
    <2> USE DEF TypeOK
    <2>1. ASSUME NEW c \in Callers, NEW d \in Drafts, PostTransaction(c, d) PROVE TypeOK'
        <3>1. Transaction(d.referenceId, "PAYMENT_RECEIVED", Stored(d.entries), NoOriginal) \in Row
            BY <2>1, PostedType DEF PostTransaction, Postable
        <3>2. Len(ledger) \in Nat
            BY LenProperties
        <3>3. /\ ledger' \in Seq(Row) /\ Len(ledger') = Len(ledger) + 1
              /\ readAt' \in Seq(Nat) /\ Len(readAt') = Len(readAt) + 1
            BY <2>1, <3>1, <3>2, AppendRow DEF PostTransaction
        <3> QED
            BY <2>1, <3>3 DEF PostTransaction, Ready
    <2>2. ASSUME NEW c \in Callers, NEW d \in Drafts, RefuseTransaction(c, d) PROVE TypeOK'
        BY <2>2 DEF RefuseTransaction, Ready
    <2>3. ASSUME NEW c \in Callers, NEW t \in 1..MaxTransactions, ReadOriginal(c, t) PROVE TypeOK'
        <3>1. t \in 1..Len(ledger) /\ Len(ledger) \in Nat
            BY <2>3, LenProperties DEF ReadOriginal, Reversible
        <3>2. ReversalOf(ledger, t, "ADJUSTMENT") \in Row
            BY <3>1, ReversalType
        <3> QED
            BY <2>3, <3>1, <3>2, RowIsSomething DEF ReadOriginal
    <2>4. ASSUME NEW c \in Callers, NEW t \in 1..MaxTransactions, RefuseReversal(c, t) PROVE TypeOK'
        BY <2>4 DEF RefuseReversal, Ready
    <2>5. ASSUME NEW c \in Callers, PostReversal(c) PROVE TypeOK'
        <3>1. pending[c] \in Row /\ seen[c] \in Nat
            BY <2>5 DEF PostReversal
        <3>2. /\ ledger' \in Seq(Row) /\ Len(ledger') = Len(ledger) + 1
              /\ readAt' \in Seq(Nat) /\ Len(readAt') = Len(readAt) + 1
            BY <2>5, <3>1, AppendRow DEF PostReversal
        <3> QED
            BY <2>5, <3>2 DEF PostReversal
    <2>6. ASSUME NEW c \in Callers, ReversalFails(c) PROVE TypeOK'
        BY <2>6 DEF ReversalFails
    <2>7. CASE UNCHANGED vars
        BY <2>7 DEF vars
    <2> QED
        BY <2>1, <2>2, <2>3, <2>4, <2>5, <2>6, <2>7 DEF Next
<1> QED
    BY <1>1, <1>2, PTL DEF Spec

-----------------------------------------------------------------------------
\* Every step leaves the ledger as it is or adds one typed row at its end.
LEMMA StepAppends ==
    ASSUME TypeOK, TypeOK', [Next]_vars
    PROVE  /\ Len(ledger) \in Nat /\ Len(ledger') \in Nat
           /\ DOMAIN ledger = 1..Len(ledger) /\ DOMAIN ledger' = 1..Len(ledger')
           /\ Len(ledger) <= Len(ledger')
           /\ \A t \in 1..Len(ledger) : ledger'[t] = ledger[t]
<1>1. /\ Len(ledger) \in Nat /\ Len(ledger') \in Nat
      /\ DOMAIN ledger = 1..Len(ledger) /\ DOMAIN ledger' = 1..Len(ledger')
    BY LenProperties DEF TypeOK
<1>2. ASSUME NEW c \in Callers, NEW d \in Drafts, PostTransaction(c, d)
      PROVE  Len(ledger) <= Len(ledger') /\ \A t \in 1..Len(ledger) : ledger'[t] = ledger[t]
    <2>1. Transaction(d.referenceId, "PAYMENT_RECEIVED", Stored(d.entries), NoOriginal) \in Row
        BY <1>2, PostedType DEF PostTransaction, Postable
    <2> QED
        BY <1>1, <1>2, <2>1, AppendRow DEF PostTransaction, TypeOK
<1>3. ASSUME NEW c \in Callers, PostReversal(c)
      PROVE  Len(ledger) <= Len(ledger') /\ \A t \in 1..Len(ledger) : ledger'[t] = ledger[t]
    <2>1. pending[c] \in Row
        BY <1>3 DEF PostReversal, TypeOK
    <2> QED
        BY <1>1, <1>3, <2>1, AppendRow DEF PostReversal, TypeOK
<1>4. CASE UNCHANGED ledger
    BY <1>1, <1>4
<1> QED
    BY <1>1, <1>2, <1>3, <1>4
       DEF Next, vars, RefuseTransaction, ReadOriginal, RefuseReversal, ReversalFails

\* Rule 5 of LedgerService: a committed row is never changed or removed.
THEOREM Immutable == Spec => LedgerImmutable
<1>1. TypeOK /\ TypeOK' /\ [Next]_vars =>
        [\A t \in DOMAIN ledger : t \in DOMAIN ledger' /\ ledger'[t] = ledger[t]]_vars
    BY StepAppends
<1> QED
    BY <1>1, TypeCorrect, PTL DEF Spec, LedgerImmutable

\* What rounding must not do, for the ledger to balance as stored: the drafts have
\* no more places than the amount column.
ColumnKeepsBalance == \A d \in Drafts : Balanced(d.entries) => Balanced(Stored(d.entries))

\* Rule 1 of LedgerService: when the callers' amounts fit the column, every row of
\* the ledger passes the double-entry check, the reversals included.
THEOREM DoubleEntry ==
    ASSUME ColumnKeepsBalance
    PROVE  Spec => []EveryTransactionBalanced
<1>1. Init => EveryTransactionBalanced
    BY EmptySeq DEF Init, EveryTransactionBalanced
<1>2. TypeOK /\ TypeOK' /\ EveryTransactionBalanced /\ [Next]_vars => EveryTransactionBalanced'
    <2> SUFFICES ASSUME TypeOK, TypeOK', EveryTransactionBalanced, [Next]_vars,
                        NEW t \in DOMAIN ledger'
                 PROVE  Balanced(ledger'[t].entries)
        BY DEF EveryTransactionBalanced, Balanced
    <2>1. CASE t \in DOMAIN ledger
        BY <2>1, StepAppends DEF EveryTransactionBalanced, Balanced
    <2>2. ASSUME NEW c \in Callers, NEW d \in Drafts, PostTransaction(c, d), t \notin DOMAIN ledger
          PROVE  Balanced(ledger'[t].entries)
        <3>1. Transaction(d.referenceId, "PAYMENT_RECEIVED", Stored(d.entries), NoOriginal) \in Row
            BY <2>2, PostedType DEF PostTransaction, Postable
        <3>2. ledger'[t].entries = Stored(d.entries)
            BY <2>2, <3>1, AppendRow DEF PostTransaction, TypeOK, Transaction
        <3> QED
            BY <2>2, <3>2, ColumnKeepsBalance DEF PostTransaction, Postable, ColumnKeepsBalance
    <2>3. ASSUME NEW c \in Callers, PostReversal(c), t \notin DOMAIN ledger
          PROVE  Balanced(ledger'[t].entries)
        <3>1. pending[c] \in Row
            BY <2>3 DEF PostReversal, TypeOK
        <3>2. ledger'[t] = pending[c]
            BY <2>3, <3>1, AppendRow DEF PostReversal, TypeOK
        <3> QED
            BY <2>3, <3>2 DEF PostReversal
    <2> QED
        BY <2>1, <2>2, <2>3
           DEF Next, vars, RefuseTransaction, ReadOriginal, RefuseReversal, ReversalFails
<1> QED
    BY <1>1, <1>2, TypeCorrect, PTL DEF Spec

-----------------------------------------------------------------------------
\* A reversal's text depends only on the row it reverses, so it can be read
\* before a step and compared after it.
LEMMA ReversalStable ==
    ASSUME TypeOK, TypeOK', [Next]_vars, NEW t \in 1..Len(ledger)
    PROVE  ReversalOf(ledger', t, "ADJUSTMENT") = ReversalOf(ledger, t, "ADJUSTMENT")
<1>1. ledger'[t] = ledger[t]
    BY StepAppends
<1> QED
    BY <1>1 DEF ReversalOf

\* A step that adds no row and starts no reversal keeps the three invariants.
LEMMA QuietStep ==
    ASSUME IInv, TypeOK', UNCHANGED <<ledger, seen, readAt>>,
           \A c \in Callers : pc'[c] = "reversing" =>
               pc[c] = "reversing" /\ pending'[c] = pending[c]
    PROVE  IInv'
<1>1. PendingStillMirrors'
    BY DEF IInv, PendingStillMirrors
<1>2. RowsMirror' /\ DoubleReversalsOverlap'
    BY DEF IInv, RowsMirror, DoubleReversalsOverlap
<1> QED
    BY <1>1, <1>2 DEF IInv

\* A step that posts a row with no original, or a pending reversal, keeps them.
LEMMA PostStep ==
    ASSUME IInv, TypeOK', [Next]_vars, NEW c \in Callers, NEW row \in Row, NEW s \in Nat,
           ledger' = Append(ledger, row), readAt' = Append(readAt, s),
           UNCHANGED seen, pc'[c] # "reversing",
           \A b \in Callers \ {c} : pc'[b] = pc[b] /\ pending'[b] = pending[b],
           row.original # NoOriginal =>
               /\ pc[c] = "reversing" /\ row = pending[c] /\ s = seen[c]
    PROVE  IInv'
<1> DEFINE n == Len(ledger)
<1> USE DEF IInv
<1>1. /\ n \in Nat /\ Len(ledger') = n + 1 /\ ledger'[n + 1] = row
      /\ DOMAIN ledger = 1..n /\ DOMAIN ledger' = 1..(n + 1)
      /\ \A t \in 1..n : ledger'[t] = ledger[t]
    BY AppendRow DEF TypeOK
<1>2. /\ DOMAIN readAt = 1..n /\ readAt'[n + 1] = s
      /\ \A t \in 1..n : readAt'[t] = readAt[t]
    BY AppendRow, <1>1 DEF TypeOK
<1>3. \A b \in Callers : seen[b] \in Nat
    BY DEF TypeOK
<1>4. PendingStillMirrors'
    <2> SUFFICES ASSUME NEW b \in Callers, pc'[b] = "reversing"
                 PROVE  LET t == pending[b].original IN
                        /\ t \in 1..seen[b] /\ seen[b] <= Len(ledger')
                        /\ pending[b] = ReversalOf(ledger', t, "ADJUSTMENT")
                        /\ \A r \in DOMAIN ledger' : ledger'[r].original = t => seen[b] < r
        BY DEF PendingStillMirrors
    <2> DEFINE t == pending[b].original
    <2>1. pc[b] = "reversing"
        OBVIOUS
    <2>2. /\ t \in 1..seen[b] /\ seen[b] <= n
          /\ pending[b] = ReversalOf(ledger, t, "ADJUSTMENT")
          /\ \A r \in DOMAIN ledger : ledger[r].original = t => seen[b] < r
        BY <2>1 DEF PendingStillMirrors
    <2>3. t \in 1..n
        BY <2>2, <1>1, <1>3
    <2>4. pending[b] = ReversalOf(ledger', t, "ADJUSTMENT")
        BY <2>2, <2>3, ReversalStable
    <2>5. \A r \in DOMAIN ledger' : ledger'[r].original = t => seen[b] < r
        BY <2>2, <1>1, <1>3
    <2>6. seen[b] <= Len(ledger')
        BY <2>2, <1>1, <1>3
    <2> QED
        BY <2>2, <2>4, <2>5, <2>6
<1>5. RowsMirror'
    <2> SUFFICES ASSUME NEW r \in 1..(n + 1), ledger'[r].original # NoOriginal
                 PROVE  /\ ledger'[r].original \in 1..(r - 1)
                        /\ ledger'[r] = ReversalOf(ledger', ledger'[r].original, "ADJUSTMENT")
        BY <1>1 DEF RowsMirror
    <2>1. CASE r \in 1..n
        <3>1. /\ ledger[r].original \in 1..(r - 1)
              /\ ledger[r] = ReversalOf(ledger, ledger[r].original, "ADJUSTMENT")
            BY <2>1, <1>1 DEF RowsMirror
        <3>2. ledger[r].original \in 1..n
            BY <3>1, <2>1, <1>1
        <3> QED
            BY <3>1, <3>2, <2>1, <1>1, ReversalStable
    <2>2. CASE r = n + 1
        <3>1. pc[c] = "reversing" /\ row = pending[c] /\ ledger'[r] = row
            BY <2>2, <1>1
        <3>2. /\ row.original \in 1..seen[c] /\ seen[c] <= n
              /\ row = ReversalOf(ledger, row.original, "ADJUSTMENT")
            BY <3>1 DEF PendingStillMirrors
        <3>3. row.original \in 1..n
            BY <3>2, <1>1, <1>3
        <3> QED
            BY <3>1, <3>2, <3>3, <2>2, <1>1, ReversalStable
    <2> QED
        BY <2>1, <2>2, <1>1
<1>6. DoubleReversalsOverlap'
    <2> SUFFICES ASSUME NEW q \in 1..(n + 1), NEW r \in 1..(n + 1), q < r,
                        ledger'[q].original = ledger'[r].original,
                        ledger'[r].original # NoOriginal
                 PROVE  readAt'[r] < q
        BY <1>1 DEF DoubleReversalsOverlap
    <2>1. CASE r \in 1..n
        BY <2>1, <1>1, <1>2 DEF DoubleReversalsOverlap
    <2>2. CASE r = n + 1
        <3>1. pc[c] = "reversing" /\ row = pending[c] /\ s = seen[c]
            BY <2>2, <1>1
        <3>2. q \in 1..n /\ ledger[q].original = row.original
            BY <2>2, <1>1
        <3> QED
            BY <3>1, <3>2, <2>2, <1>1, <1>2 DEF PendingStillMirrors
    <2>3. r \in 1..n \/ r = n + 1
        BY <1>1
    <2> QED
        BY <2>1, <2>2, <2>3
<1> QED
    BY <1>4, <1>5, <1>6

\* The reads that open a reversal start it from rows as they are.
LEMMA ReadStep ==
    ASSUME IInv, TypeOK', NEW c \in Callers, NEW t \in 1..MaxTransactions, ReadOriginal(c, t)
    PROVE  IInv'
<1> USE DEF IInv
<1>1. /\ Len(ledger) \in Nat /\ DOMAIN ledger = 1..Len(ledger)
      /\ t \in DOMAIN ledger /\ \A r \in DOMAIN ledger : ledger[r].original # t
      /\ UNCHANGED <<ledger, readAt>>
    BY LenProperties DEF TypeOK, ReadOriginal, Reversible, Reversals
<1>2. PendingStillMirrors'
    <2> SUFFICES ASSUME NEW b \in Callers, pc'[b] = "reversing"
                 PROVE  LET o == pending'[b].original IN
                        /\ o \in 1..seen'[b] /\ seen'[b] <= Len(ledger)
                        /\ pending'[b] = ReversalOf(ledger, o, "ADJUSTMENT")
                        /\ \A r \in DOMAIN ledger : ledger[r].original = o => seen'[b] < r
        BY <1>1 DEF PendingStillMirrors
    <2>1. CASE b = c
        <3>1. /\ pending'[b] = ReversalOf(ledger, t, "ADJUSTMENT") /\ seen'[b] = Len(ledger)
            BY <2>1 DEF ReadOriginal, TypeOK
        <3>2. pending'[b].original = t
            BY <3>1 DEF ReversalOf, Transaction
        <3> QED
            BY <3>1, <3>2, <1>1
    <2>2. CASE b # c
        BY <2>2 DEF ReadOriginal, TypeOK, PendingStillMirrors
    <2> QED
        BY <2>1, <2>2
<1>3. RowsMirror' /\ DoubleReversalsOverlap'
    BY <1>1 DEF RowsMirror, DoubleReversalsOverlap
<1> QED
    BY <1>2, <1>3

\* The inductive invariant holds in every reachable state.
LEMMA Inductive == Spec => []IInv
<1>1. Init => IInv
    <2> SUFFICES ASSUME Init PROVE IInv
        OBVIOUS
    <2>1. TypeOK
        BY EmptySeq DEF Init, TypeOK
    <2>2. DOMAIN ledger = {}
        BY DEF Init
    <2> QED
        BY <2>1, <2>2 DEF Init, IInv, PendingStillMirrors, RowsMirror, DoubleReversalsOverlap
<1>2. IInv /\ TypeOK' /\ [Next]_vars => IInv'
    <2> SUFFICES ASSUME IInv, TypeOK', [Next]_vars PROVE IInv'
        OBVIOUS
    <2>1. ASSUME NEW c \in Callers, NEW d \in Drafts, PostTransaction(c, d) PROVE IInv'
        <3> DEFINE row == Transaction(d.referenceId, "PAYMENT_RECEIVED",
                                      Stored(d.entries), NoOriginal)
        <3>1. row \in Row /\ row.original = NoOriginal
            BY <2>1, PostedType DEF PostTransaction, Postable, Transaction
        <3>2. Len(ledger) \in Nat
            BY LenProperties DEF IInv, TypeOK
        <3>3. /\ ledger' = Append(ledger, row) /\ readAt' = Append(readAt, Len(ledger))
              /\ UNCHANGED seen /\ pc'[c] # "reversing"
              /\ \A b \in Callers \ {c} : pc'[b] = pc[b] /\ pending'[b] = pending[b]
            BY <2>1 DEF PostTransaction, IInv, TypeOK
        <3> HIDE DEF row
        <3> QED
            BY <3>1, <3>2, <3>3, PostStep
    <2>2. ASSUME NEW c \in Callers, NEW d \in Drafts, RefuseTransaction(c, d) PROVE IInv'
        BY <2>2, QuietStep DEF RefuseTransaction, IInv, TypeOK
    <2>3. ASSUME NEW c \in Callers, NEW t \in 1..MaxTransactions, ReadOriginal(c, t) PROVE IInv'
        BY <2>3, ReadStep
    <2>4. ASSUME NEW c \in Callers, NEW t \in 1..MaxTransactions, RefuseReversal(c, t) PROVE IInv'
        BY <2>4, QuietStep DEF RefuseReversal, IInv, TypeOK
    <2>5. ASSUME NEW c \in Callers, PostReversal(c) PROVE IInv'
        <3>1. pending[c] \in Row /\ seen[c] \in Nat
            BY <2>5 DEF PostReversal, IInv, TypeOK
        <3>2. /\ ledger' = Append(ledger, pending[c]) /\ readAt' = Append(readAt, seen[c])
              /\ UNCHANGED seen /\ pc'[c] # "reversing" /\ pc[c] = "reversing"
              /\ \A b \in Callers \ {c} : pc'[b] = pc[b] /\ pending'[b] = pending[b]
            BY <2>5 DEF PostReversal, IInv, TypeOK
        <3> QED
            BY <3>1, <3>2, PostStep
    <2>6. ASSUME NEW c \in Callers, ReversalFails(c) PROVE IInv'
        BY <2>6, QuietStep DEF ReversalFails, IInv, TypeOK
    <2>7. CASE UNCHANGED vars
        BY <2>7, QuietStep DEF vars
    <2> QED
        BY <2>1, <2>2, <2>3, <2>4, <2>5, <2>6, <2>7 DEF Next
<1> QED
    BY <1>1, <1>2, TypeCorrect, PTL DEF Spec

\* Whatever callers interleave, a row with an original is that earlier row with
\* its amounts negated: reverseTransaction, which reads outside a transaction.
THEOREM ReversalsMirror == Spec => []ReversalMirrorsOriginal
<1>1. IInv => ReversalMirrorsOriginal
    <2> SUFFICES ASSUME IInv, NEW r \in DOMAIN ledger, ledger[r].original # NoOriginal
                 PROVE  LET t == ledger[r].original IN
                        /\ t \in DOMAIN ledger /\ t < r
                        /\ ledger[r].referenceId = ledger[t].referenceId
                        /\ Len(ledger[r].entries) = Len(ledger[t].entries)
                        /\ \A i \in DOMAIN ledger[t].entries :
                              /\ ledger[r].entries[i].account = ledger[t].entries[i].account
                              /\ ledger[r].entries[i].amount = -ledger[t].entries[i].amount
        BY DEF ReversalMirrorsOriginal
    <2> DEFINE t == ledger[r].original
    <2>1. Len(ledger) \in Nat /\ DOMAIN ledger = 1..Len(ledger)
        BY LenProperties DEF IInv, TypeOK
    <2>2. t \in 1..(r - 1) /\ ledger[r] = ReversalOf(ledger, t, "ADJUSTMENT")
        BY DEF IInv, RowsMirror
    <2>3. t \in DOMAIN ledger /\ t < r
        BY <2>1, <2>2
    <2>4. ledger[t].entries \in Seq(StoredEntry)
        <3>1. ledger \in Seq(Row)
            BY DEF IInv, TypeOK
        <3>2. ledger[t] \in Row
            BY <2>1, <2>3, <3>1, ElementOfSeq
        <3> QED
            BY <3>2 DEF Row, StoredEntry
    <2>5. /\ ledger[r].referenceId = ledger[t].referenceId
          /\ ledger[r].entries = NegatedEntries(ledger[t].entries)
        BY <2>2 DEF ReversalOf, Transaction
    <2>6. /\ Len(ledger[r].entries) = Len(ledger[t].entries)
          /\ \A i \in DOMAIN ledger[t].entries :
                /\ ledger[r].entries[i].account = ledger[t].entries[i].account
                /\ ledger[r].entries[i].amount = -ledger[t].entries[i].amount
        <3> DEFINE es == ledger[t].entries
        <3>1. es \in Seq([account : Accounts, amount : Int])
            BY <2>4 DEF StoredEntry
        <3> HIDE DEF es, t
        <3>2. /\ Len(NegatedEntries(es)) = Len(es)
              /\ \A i \in DOMAIN es : /\ NegatedEntries(es)[i].account = es[i].account
                                      /\ NegatedEntries(es)[i].amount = -es[i].amount
            BY <3>1, NegatedType
        <3> QED
            BY <2>5, <3>2 DEF es
    <2> QED
        BY <2>3, <2>5, <2>6
<1> QED
    BY <1>1, Inductive, PTL

\* The check for existing reversals stops every reversal that does not overlap
\* an earlier one (ledger.service.ts, "Prevent double-reversal").
THEOREM OnlyOverlapsReverseTwice == Spec => []DoubleReversalsOverlap
<1>1. IInv => DoubleReversalsOverlap
    BY DEF IInv
<1> QED
    BY <1>1, Inductive, PTL

=============================================================================
