------------------------------ MODULE SplitOps ------------------------------
(***************************************************************************)
(* SplitEngine and Money.distribute: how a payment becomes ledger entries. *)
(* Operators only: Splits checks them over bounded inputs, and Payments    *)
(* posts what they compute.                                                *)
(*                                                                         *)
(* An order's amount may have more places than the column: it counts in    *)
(* 1/Scale of the column's unit.  A ratio counts in 1/Whole.  The decimals *)
(* of the code are exact here: its 20 digits hold every amount of the      *)
(* column.                                                                 *)
(***************************************************************************)
EXTENDS LedgerOps

CONSTANTS
    Scale,       \* fine units of an amount per unit of the column
    Whole,       \* parts in a ratio of 1
    Wallets,     \* the wallets that have their accounts
    NoWallet     \* no platform wallet in the order

ASSUME ScaleAssumption == Scale \in Nat \ {0} /\ Whole \in Nat \ {0}
ASSUME NoWalletAssumption == NoWallet \notin Wallets

Account(w, type) == <<w, type>>

Participant(w, ratio) == [wallet |-> w, ratio |-> ratio]

\* An order: who pays what, and the split that its splitConfig asks for, if any.
Order(payer, amount, participants, feeRatio, platform) ==
    [payer |-> payer, amount |-> amount, participants |-> participants,
     feeRatio |-> feeRatio, platform |-> platform]

\* Amounts and ratios are not below zero: the cuts below are floors, and the code's
\* ROUND_DOWN goes towards zero.
WellFormed(order) ==
    /\ order = Order(order.payer, order.amount, order.participants, order.feeRatio, order.platform)
    /\ order.amount \in Nat /\ order.feeRatio \in Nat
    /\ order.participants \in Seq(Range(order.participants))
    /\ \A participant \in Range(order.participants) : participant.ratio \in Nat

RatioSum(participants) ==
    SumFunction([i \in DOMAIN participants |-> participants[i].ratio])

\* A share cut down to whole units of the column.
ShareOf(total, ratio, ratioSum) == Scale * ((total * ratio) \div (ratioSum * Scale))

\* Mutant: the remainder goes to the first participant.
FirstListed(participants) == 1

\* The first of the participants with the largest ratio.
LargestShare(participants) ==
    CHOOSE i \in DOMAIN participants :
        \A j \in DOMAIN participants :
            \/ participants[j].ratio < participants[i].ratio
            \/ participants[j].ratio = participants[i].ratio /\ i <= j

\* Every share is cut down, and the largest takes what the cuts left.
Distribute(total, participants) ==
    LET cut == [i \in DOMAIN participants |->
                  ShareOf(total, participants[i].ratio, RatioSum(participants))]
    IN  [cut EXCEPT ![LargestShare(participants)] = @ + total - SumFunction(cut)]

\* Mutant: the fee keeps its places below the column's.
FeeInFull(order) ==
    IF order.feeRatio = 0 \/ order.platform = NoWallet THEN 0
    ELSE (order.amount * order.feeRatio) \div Whole

\* The platform's fee, cut down, when the order names a wallet to take it.
Fee(order) ==
    IF order.feeRatio = 0 \/ order.platform = NoWallet THEN 0
    ELSE ShareOf(order.amount, order.feeRatio, Whole)

Shares(order) == Distribute(order.amount - Fee(order), order.participants)

FeeEntries(order) ==
    IF order.feeRatio = 0 \/ order.platform = NoWallet THEN << >>
    ELSE <<Entry(Account(order.platform, "FEE"), -RoundTo(Fee(order), Scale))>>

ShareEntries(order) ==
    [i \in DOMAIN order.participants |->
        Entry(Account(order.participants[i].wallet, "PAYABLE"),
              -RoundTo(Shares(order)[i], Scale))]

\* Mutant: the payer's cash is debited without the fee, and the fee is nobody's.
SplitEntriesNet(order) ==
    <<Entry(Account(order.payer, "CASH"), RoundTo(order.amount - Fee(order), Scale))>>
        \o ShareEntries(order)

\* computeSplitEntries: the payer's cash, the fee, then one entry per participant.
SplitEntries(order) ==
    <<Entry(Account(order.payer, "CASH"), RoundTo(order.amount, Scale))>>
        \o FeeEntries(order) \o ShareEntries(order)

\* What computeSplitEntries checks before it computes.
Splittable(order) ==
    /\ RatioSum(order.participants) + order.feeRatio = Whole
    /\ RatioSum(order.participants) # 0
    /\ order.payer \in Wallets
    /\ order.feeRatio # 0 => order.platform \in Wallets \cup {NoWallet}
    /\ \A i \in DOMAIN order.participants : order.participants[i].wallet \in Wallets

\* _ingestSimple: the payer's cash against what the platform owes the payer.  Only the
\* second amount is cut to four places, so the entries balance when none are lost.
SimpleEntries(order) ==
    <<Entry(Account(order.payer, "CASH"), RoundTo(order.amount, Scale)),
      Entry(Account(order.payer, "PAYABLE"), -RoundTo(order.amount, Scale))>>

IsSplit(order) == order.participants # << >>

PaymentEntries(order) == IF IsSplit(order) THEN SplitEntries(order) ELSE SimpleEntries(order)

\* Whether the transaction that books the order goes through.
Bookable(order) ==
    IF IsSplit(order) THEN Splittable(order) /\ Balanced(SplitEntries(order))
    ELSE order.payer \in Wallets /\ order.amount % Scale = 0

\* Mutant: a participant's entry is found by its place, after the payer's.
SplitRecordsByPlace(order) ==
    [i \in DOMAIN order.participants |->
        [wallet |-> order.participants[i].wallet,
         amount |-> -SplitEntries(order)[i + 1].amount]]

\* The payment_splits rows: for each participant, the amount of the first entry on the
\* PAYABLE account of its wallet.
SplitRecords(order) ==
    LET entries == SplitEntries(order)
        first(account) ==
            CHOOSE i \in DOMAIN entries :
                /\ entries[i].account = account
                /\ \A j \in DOMAIN entries : entries[j].account = account => i <= j
    IN  [i \in DOMAIN order.participants |->
            [wallet |-> order.participants[i].wallet,
             amount |-> -entries[first(Account(order.participants[i].wallet, "PAYABLE"))].amount]]

=============================================================================
