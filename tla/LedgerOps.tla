----------------------------- MODULE LedgerOps -----------------------------
(***************************************************************************)
(* The ledger as data: what a transaction and its entries are, what a      *)
(* balance is, and the checks LedgerService makes before it writes.  No    *)
(* variables: Ledger and every module that posts to a ledger use these.    *)
(*                                                                         *)
(* A ledger is the sequence of committed LedgerTransaction rows in commit  *)
(* order, and the place of a row in it stands for the row's id.  Amounts   *)
(* are integers in the unit of the amount column, 1/10000 of a currency    *)
(* unit (Decimal(19, 4)); positive is a debit, negative a credit.          *)
(***************************************************************************)
EXTENDS Integers, Sequences, Functions

NoOriginal == 0

Entry(account, amount) == [account |-> account, amount |-> amount]

SumOf(entries) == SumFunction([i \in DOMAIN entries |-> entries[i].amount])

\* An amount counted in 1/scale of the column's unit, rounded to the column's four
\* places: half a unit goes away from zero (numeric's rule, and Decimal.toFixed's).
RoundTo(x, scale) ==
    IF x >= 0 THEN (2 * x + scale) \div (2 * scale)
              ELSE -((scale - 2 * x) \div (2 * scale))

\* Mutant: the check that only counts the entries.
CountedOnly(entries) == Len(entries) >= 2

\* The double-entry check: two entries at least, and they sum to zero.
Balanced(entries) == Len(entries) >= 2 /\ SumOf(entries) = 0

\* Mutant: each amount is put on the next entry's account instead of negated.
SwappedEntries(entries) ==
    [i \in DOMAIN entries |-> Entry(entries[(i % Len(entries)) + 1].account, entries[i].amount)]

NegatedEntries(entries) ==
    [i \in DOMAIN entries |-> Entry(entries[i].account, -entries[i].amount)]

Transaction(referenceId, type, entries, original) ==
    [referenceId |-> referenceId, type |-> type, status |-> "POSTED",
     entries |-> entries, original |-> original]

\* The counter-transaction of row t: same reference, every amount negated.
ReversalOf(ledger, t, type) ==
    Transaction(ledger[t].referenceId, type, NegatedEntries(ledger[t].entries), t)

Reversals(ledger, t) == {r \in DOMAIN ledger : ledger[r].original = t}

\* The guards of a reversal: the row is there, is POSTED and has no reversal.
Reversible(ledger, t) ==
    /\ t \in DOMAIN ledger
    /\ ledger[t].status = "POSTED"
    /\ Reversals(ledger, t) = {}

\* What one transaction, and the whole ledger, add up to on an account.
NetOn(transaction, account) ==
    SumFunction([i \in DOMAIN transaction.entries |->
        IF transaction.entries[i].account = account
          THEN transaction.entries[i].amount ELSE 0])

Balance(ledger, account) ==
    SumFunction([t \in DOMAIN ledger |->
        IF ledger[t].status = "POSTED" THEN NetOn(ledger[t], account) ELSE 0])

PostedFor(ledger, referenceId) ==
    {t \in DOMAIN ledger : ledger[t].referenceId = referenceId
                           /\ ledger[t].status = "POSTED"}

=============================================================================
