------------------------------- MODULE Ledger -------------------------------
(***************************************************************************)
(* LedgerService as its HTTP controller exposes it: POST                   *)
(* /ledger/transactions and POST /ledger/reverse/:transactionId, called by *)
(* any number of concurrent callers.                                       *)
(*                                                                         *)
(* Posting is one database transaction, so it is one step.  A reversal is  *)
(* two: it reads the original and its reversals outside any transaction,   *)
(* computes the counter-entries in memory, and only then posts them.       *)
(*                                                                         *)
(* An amount a caller sends is exact; a row keeps it rounded to the        *)
(* column's four places.  Drafts count amounts in 1/Scale of the column's  *)
(* unit, so that both the exact check and the rounded row can be said.     *)
(***************************************************************************)
EXTENDS LedgerOps

CONSTANTS
    Callers,          \* the concurrent HTTP requests
    AccountIds,       \* the account ids a request may name
    Accounts,         \* those of the accounts that exist
    Currencies, Currency,   \* the currency of each account
    References,       \* the reference ids of payments, payouts and the like
    Drafts,           \* the transactions a caller may ask for
    Scale,            \* fine units of a draft's amount per unit of the column
    MaxTransactions   \* bound on the rows posted

NoTransaction == [none |-> TRUE]

Draft ==
    [referenceId : References,
     entries : Seq([account : AccountIds, amount : Int, currency : Currencies])]

ASSUME AccountAssumption == Accounts \subseteq AccountIds
ASSUME ScaleAssumption == Scale \in Nat \ {0}
ASSUME DraftAssumption == Drafts \subseteq Draft

VARIABLES
    ledger,    \* the committed ledger transactions
    pc,        \* where each caller is
    pending,   \* the reversal a caller computed and has not posted yet
    seen,      \* how many rows there were when it read the original
    readAt     \* history: seen, for the caller that posted each row

vars == <<ledger, pc, pending, seen, readAt>>

Init ==
    /\ ledger = << >>
    /\ pc = [c \in Callers |-> "idle"]
    /\ pending = [c \in Callers |-> NoTransaction]
    /\ seen = [c \in Callers |-> 0]
    /\ readAt = << >>

-----------------------------------------------------------------------------
\* The amount column keeps four places.
ToColumn(x) == RoundTo(x, Scale)

Stored(entries) ==
    [i \in DOMAIN entries |-> Entry(entries[i].account, ToColumn(entries[i].amount))]

AccountsExist(entries) == \A i \in DOMAIN entries : entries[i].account \in Accounts

CurrencyMatches(entries) ==
    \A i \in DOMAIN entries : Currency[entries[i].account] = entries[i].currency

Postable(entries) ==
    /\ Balanced(entries)
    /\ AccountsExist(entries)
    /\ CurrencyMatches(entries)

HasRoom == Len(ledger) < MaxTransactions

\* A caller sends a new request when it is in no request.
Ready(c) == pc[c] # "reversing"

\* Mutant: the row is left at the status column's default.
PostTransactionPending(c, d) ==
    /\ Ready(c) /\ HasRoom
    /\ Postable(d.entries)
    /\ ledger' = Append(ledger,
                   [Transaction(d.referenceId, "PAYMENT_RECEIVED", Stored(d.entries), NoOriginal)
                      EXCEPT !.status = "PENDING"])
    /\ readAt' = Append(readAt, Len(ledger))
    /\ pc' = [pc EXCEPT ![c] = "posted"]
    /\ UNCHANGED <<pending, seen>>

PostTransaction(c, d) ==
    /\ Ready(c) /\ HasRoom
    /\ Postable(d.entries)
    /\ ledger' = Append(ledger,
                   Transaction(d.referenceId, "PAYMENT_RECEIVED", Stored(d.entries), NoOriginal))
    /\ readAt' = Append(readAt, Len(ledger))
    /\ pc' = [pc EXCEPT ![c] = "posted"]
    /\ UNCHANGED <<pending, seen>>

\* The dto is invalid, or the database transaction fails and rolls back.
RefuseTransaction(c, d) ==
    /\ Ready(c)
    /\ pc' = [pc EXCEPT ![c] = "refused"]
    /\ UNCHANGED <<ledger, pending, seen, readAt>>

\* Mutant: reversals are not looked at.
ReadOriginalOnly(c, t) ==
    /\ Ready(c)
    /\ t \in DOMAIN ledger
    /\ pending' = [pending EXCEPT ![c] = ReversalOf(ledger, t, "ADJUSTMENT")]
    /\ seen' = [seen EXCEPT ![c] = Len(ledger)]
    /\ pc' = [pc EXCEPT ![c] = "reversing"]
    /\ UNCHANGED <<ledger, readAt>>

\* The reads and checks that open reverseTransaction, outside any transaction.
ReadOriginal(c, t) ==
    /\ Ready(c)
    /\ Reversible(ledger, t)
    /\ pending' = [pending EXCEPT ![c] = ReversalOf(ledger, t, "ADJUSTMENT")]
    /\ seen' = [seen EXCEPT ![c] = Len(ledger)]
    /\ pc' = [pc EXCEPT ![c] = "reversing"]
    /\ UNCHANGED <<ledger, readAt>>

\* Not found, not POSTED or already reversed: BadRequest.
RefuseReversal(c, t) ==
    /\ Ready(c)
    /\ ~Reversible(ledger, t)
    /\ pc' = [pc EXCEPT ![c] = "refused"]
    /\ UNCHANGED <<ledger, pending, seen, readAt>>

\* Mutant: the original is marked when its reversal is posted.
PostReversalMarking(c) ==
    /\ pc[c] = "reversing" /\ HasRoom
    /\ Balanced(pending[c].entries)
    /\ ledger' = Append([ledger EXCEPT ![pending[c].original].status = "REVERSED"], pending[c])
    /\ readAt' = Append(readAt, seen[c])
    /\ pending' = [pending EXCEPT ![c] = NoTransaction]
    /\ pc' = [pc EXCEPT ![c] = "posted"]
    /\ UNCHANGED seen

\* The reversal goes through postTransaction, which checks it again.
PostReversal(c) ==
    /\ pc[c] = "reversing" /\ HasRoom
    /\ Balanced(pending[c].entries)
    /\ ledger' = Append(ledger, pending[c])
    /\ readAt' = Append(readAt, seen[c])
    /\ pending' = [pending EXCEPT ![c] = NoTransaction]
    /\ pc' = [pc EXCEPT ![c] = "posted"]
    /\ UNCHANGED seen

\* The check or the database refuses the reversal, or the process dies first.
ReversalFails(c) ==
    /\ pc[c] = "reversing"
    /\ pending' = [pending EXCEPT ![c] = NoTransaction]
    /\ pc' = [pc EXCEPT ![c] = "refused"]
    /\ UNCHANGED <<ledger, seen, readAt>>

Next ==
    \E c \in Callers :
        \/ \E d \in Drafts : PostTransaction(c, d) \/ RefuseTransaction(c, d)
        \/ \E t \in 1..MaxTransactions : ReadOriginal(c, t) \/ RefuseReversal(c, t)
        \/ PostReversal(c)
        \/ ReversalFails(c)

Spec == Init /\ [][Next]_vars

-----------------------------------------------------------------------------
Row ==
    [referenceId : References, type : {"PAYMENT_RECEIVED", "ADJUSTMENT"},
     status : {"POSTED"}, original : Nat,
     entries : Seq([account : Accounts, amount : Int])]

\* The ledger is a list of POSTED rows over existing accounts, and only a caller
\* in the middle of a reversal holds a computed row (the Prisma models and
\* _postTransactionInner).
TypeOK ==
    /\ ledger \in Seq(Row)
    /\ readAt \in Seq(Nat) /\ Len(readAt) = Len(ledger)
    /\ pc \in [Callers -> {"idle", "reversing", "posted", "refused"}]
    /\ seen \in [Callers -> Nat]
    /\ pending \in [Callers -> Row \cup {NoTransaction}]
    /\ \A c \in Callers : pc[c] = "reversing" <=> pending[c] # NoTransaction

\* Every posted transaction balances as stored, not only as it was sent (rule 1 of
\* LedgerService): true as long as the drafts have no more places than the column.
EveryTransactionBalanced ==
    \A t \in DOMAIN ledger :
        Len(ledger[t].entries) >= 2 /\ SumOf(ledger[t].entries) = 0

\* The audit of the whole ledger: the sum of all entries of all transactions is
\* zero ("the ultimate invariant", auditGlobalLedgerBalance).
GlobalLedgerBalanced ==
    SumFunction([t \in DOMAIN ledger |-> SumOf(ledger[t].entries)]) = 0

\* Rows are only added, and a committed row never changes: a reversal is a new
\* row and leaves its original as it was (rule 5 of LedgerService).
LedgerImmutable ==
    [][\A t \in DOMAIN ledger : t \in DOMAIN ledger' /\ ledger'[t] = ledger[t]]_vars

\* A row with an original is that earlier row with every amount negated, on the
\* same accounts and for the same reference: what reverseTransaction promises.
ReversalMirrorsOriginal ==
    \A r \in DOMAIN ledger : ledger[r].original # NoOriginal =>
        LET t == ledger[r].original IN
        /\ t \in DOMAIN ledger /\ t < r
        /\ ledger[r].referenceId = ledger[t].referenceId
        /\ Len(ledger[r].entries) = Len(ledger[t].entries)
        /\ \A i \in DOMAIN ledger[t].entries :
              /\ ledger[r].entries[i].account = ledger[t].entries[i].account
              /\ ledger[r].entries[i].amount = -ledger[t].entries[i].amount

\* Two reversals of one original come only from overlapping calls: the second to
\* post had read the original before the first posted.  The check for existing
\* reversals stops every later call.
DoubleReversalsOverlap ==
    \A q, r \in DOMAIN ledger :
        q < r /\ ledger[q].original = ledger[r].original /\ ledger[r].original # NoOriginal
            => readAt[r] < q

(***************************************************************************)
(* The inductive invariant behind the last two: what a caller between read *)
(* and post holds is still the reversal of its original, and whatever has  *)
(* reversed that original since was posted after the caller's read.        *)
(***************************************************************************)
PendingStillMirrors ==
    \A c \in Callers : pc[c] = "reversing" =>
        LET t == pending[c].original IN
        /\ t \in 1..seen[c] /\ seen[c] <= Len(ledger)
        /\ pending[c] = ReversalOf(ledger, t, "ADJUSTMENT")
        /\ \A r \in DOMAIN ledger : ledger[r].original = t => seen[c] < r

RowsMirror ==
    \A r \in DOMAIN ledger : ledger[r].original # NoOriginal =>
        /\ ledger[r].original \in 1..(r - 1)
        /\ ledger[r] = ReversalOf(ledger, ledger[r].original, "ADJUSTMENT")

IInv == TypeOK /\ PendingStillMirrors /\ RowsMirror /\ DoubleReversalsOverlap

\* "Prevent double-reversal": no original has two reversals.
NoDoubleReversal == \A t \in DOMAIN ledger : ~\E q, r \in Reversals(ledger, t) : q # r

=============================================================================
