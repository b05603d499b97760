------------------------------- MODULE Credit -------------------------------
(***************************************************************************)
(* CreditEngine and RiskAssessmentService: POST /credit/advance            *)
(* (requestCreditAdvance), POST /credit/freeze (freezeCreditLine), and     *)
(* reconcileCredit, which repays an advance and which no code calls yet.   *)
(* None of them runs in a transaction or takes a lock: one action per      *)
(* statement that reads or writes something shared.                        *)
(*                                                                         *)
(* One currency: a wallet has one credit line.  Amounts are in the unit of *)
(* the column, and every settled payment has the same amount.  The reads   *)
(* of a risk assessment are taken as one.                                  *)
(***************************************************************************)
EXTENDS LedgerOps, FiniteSets

CONSTANTS
    Wallets,
    AgeInDays,         \* of each wallet
    PaymentAmount,     \* of every settled payment
    Calls,             \* calls of requestCreditAdvance and reconcileCredit
    Asked,             \* what advances ask for and repayments come with
    Exposure,          \* credit.maxExposureMultiplier, in hundredths
    MinApproval, MinPartial,    \* the scores of credit.minScoreFor...
    MaxPayments,       \* bound on the payments of a wallet
    MaxFailures        \* bound on database errors and crashes

ASSUME AmountAssumption ==
    /\ PaymentAmount \in Nat \ {0} /\ Asked \subseteq Nat \ {0} /\ Exposure \in Nat
    /\ AgeInDays \in [Wallets -> Nat]
    /\ MinApproval \in Nat /\ MinPartial \in Nat
    /\ MaxPayments \in Nat /\ MaxFailures \in Nat
ASSUME CallAssumption == IsFiniteSet(Calls)

VARIABLES
    ledger,      \* the committed ledger transactions
    settled,     \* how many payments of each wallet are SETTLED
    charged,     \* and how many are CHARGEBACKED
    lines,       \* the credit line of each wallet
    usages,      \* the credit_usages table, in the order of its rows
    readAt,      \* history: how many usages its call had read, for each of them
    call,        \* where each call is, and what it carries
    failures

vars == <<ledger, settled, charged, lines, usages, readAt, call, failures>>

Account(w, type) == <<w, type>>

NoLine == [status |-> "none"]
Line(max) == [status |-> "ACTIVE", max |-> max, used |-> 0]

Usage(w, type, amount) == [wallet |-> w, type |-> type, amount |-> amount]

Idle == [at |-> "idle"]
Over == [at |-> "over"]

Init ==
    /\ ledger = << >>
    /\ settled = [w \in Wallets |-> 0]
    /\ charged = [w \in Wallets |-> 0]
    /\ lines = [w \in Wallets |-> NoLine]
    /\ usages = << >>
    /\ readAt = << >>
    /\ call = [c \in Calls |-> Idle]
    /\ failures = 0

-----------------------------------------------------------------------------
(***************************************************************************)
(* The risk score of a wallet that asks for an amount                      *)
(***************************************************************************)

\* The score of the highest step that x is above; a step is <<bound, score>>, and they
\* are listed from the highest.
Step(x, steps, otherwise) ==
    LET above == {i \in DOMAIN steps : x > steps[i][1]}
    IN  IF above = {} THEN otherwise
        ELSE steps[CHOOSE i \in above : \A j \in above : i <= j][2]

AgeScore(w) ==
    Step(AgeInDays[w], <<<<365, 100>>, <<180, 80>>, <<90, 60>>, <<30, 40>>, <<7, 20>>>>, 5)

HistoryScore(w) ==
    Step(settled[w], <<<<50, 100>>, <<20, 80>>, <<10, 60>>, <<5, 40>>, <<0, 20>>>>, 0)

SizeScore(w, amount) ==
    IF settled[w] = 0 THEN 50
    ELSE IF amount < PaymentAmount THEN 90
    ELSE IF amount < 2 * PaymentAmount THEN 70
    ELSE IF amount < 5 * PaymentAmount THEN 40 ELSE 15

Total(w) == settled[w] + charged[w]

ReliabilityScore(w) == IF Total(w) = 0 THEN 50 ELSE RoundTo(100 * settled[w], Total(w))

ChargebackScore(w) ==
    IF Total(w) = 0 THEN 100
    ELSE LET above(percent) == 100 * charged[w] > percent * Total(w)
         IN  IF above(5) THEN 0 ELSE IF above(2) THEN 30
             ELSE IF above(1) THEN 60 ELSE IF above(0) THEN 80 ELSE 100

\* Utilisation is of the stored used amount, in tenths of the line.
ExposureScore(w) ==
    IF lines[w] = NoLine THEN 80
    ELSE IF lines[w].max = 0 THEN 90
    ELSE LET above(tenths) == 10 * lines[w].used > tenths * lines[w].max
         IN  IF above(9) THEN 10 ELSE IF above(7) THEN 30
             ELSE IF above(5) THEN 50 ELSE IF above(3) THEN 70 ELSE 90

Score(w, amount) ==
    RoundTo(15 * AgeScore(w) + 25 * HistoryScore(w) + 20 * SizeScore(w, amount)
              + 20 * ReliabilityScore(w) + 15 * ChargebackScore(w) + 5 * ExposureScore(w), 100)

\* APPROVE, PARTIAL or REJECT, as the amount that is approved.
Approved(w, amount) ==
    LET score == Score(w, amount) IN
    IF score >= MinApproval THEN amount
    ELSE IF score >= MinPartial THEN RoundTo(amount * score, 100) ELSE 0

-----------------------------------------------------------------------------
(***************************************************************************)
(* The used amount and the rows an advance or a repayment writes           *)
(***************************************************************************)

Signed(usage, w) ==
    IF usage.wallet # w THEN 0 ELSE IF usage.type = "ADVANCE" THEN usage.amount ELSE -usage.amount

SignedUsages(w) == SumFunction([i \in DOMAIN usages |-> Signed(usages[i], w)])

\* computeUsedAmount: derived from the usages, never below zero.
Used(w) == IF SignedUsages(w) < 0 THEN 0 ELSE SignedUsages(w)

\* Mutant: a repayment is posted as another advance.
UsageRowUnsigned(w, type, amount) ==
    Transaction(w, IF type = "ADVANCE" THEN "CREDIT_ADVANCE" ELSE "CREDIT_REPAYMENT",
        <<Entry(Account(w, "CREDIT"), amount), Entry(Account(w, "PAYABLE"), -amount)>>, NoOriginal)

\* An advance debits CREDIT and credits PAYABLE, a repayment does the opposite.
UsageRow(w, type, amount) ==
    LET signed == IF type = "ADVANCE" THEN amount ELSE -amount IN
    Transaction(w, IF type = "ADVANCE" THEN "CREDIT_ADVANCE" ELSE "CREDIT_REPAYMENT",
        <<Entry(Account(w, "CREDIT"), signed), Entry(Account(w, "PAYABLE"), -signed)>>, NoOriginal)

Lesser(a, b) == IF a < b THEN a ELSE b

Move(c, next) == call' = [call EXCEPT ![c] = next]
At(label, w, type, amount, seen) ==
    [at |-> label, wallet |-> w, type |-> type, amount |-> amount, seen |-> seen]

tables == <<ledger, settled, charged, lines, usages, readAt, failures>>

-----------------------------------------------------------------------------
(***************************************************************************)
(* requestCreditAdvance                                                    *)
(***************************************************************************)

\* assessRisk: a rejected request ends here, and so does one approved for nothing.
AskAdvance(c, w, amount) ==
    /\ call[c] = Idle
    /\ Move(c, IF Approved(w, amount) > 0
                 THEN At("line", w, "ADVANCE", Approved(w, amount), 0) ELSE Over)
    /\ UNCHANGED tables

FindLine(c) ==
    /\ call[c].at = "line"
    /\ Move(c, [call[c] EXCEPT !.at = IF lines[call[c].wallet] = NoLine THEN "volume" ELSE "used"])
    /\ UNCHANGED tables

\* Without a line: the volume of settled payments as of now.
ReadVolume(c) ==
    /\ call[c].at = "volume"
    /\ Move(c, [call[c] EXCEPT !.at = "create", !.seen = settled[call[c].wallet] * PaymentAmount])
    /\ UNCHANGED tables

\* The line is a share of that volume for good, or another call made one first and
\* create throws.
CreateLine(c) ==
    LET w == call[c].wallet IN
    /\ call[c].at = "create"
    /\ \/ /\ lines[w] = NoLine
          /\ lines' = [lines EXCEPT ![w] = Line(RoundTo(call[c].seen * Exposure, 100))]
          /\ Move(c, [call[c] EXCEPT !.at = "used", !.seen = 0])
       \/ lines[w] # NoLine /\ Move(c, Over) /\ UNCHANGED lines
    /\ UNCHANGED <<ledger, settled, charged, usages, readAt, failures>>

\* Mutant: the whole line is taken for available.
ReadUsedIgnored(c) ==
    LET w == call[c].wallet
        effective == Lesser(call[c].amount, lines[w].max)
    IN  /\ call[c].at = "used"
        /\ Move(c, IF effective > 0
                     THEN At("post", w, "ADVANCE", effective, Len(usages)) ELSE Over)
        /\ UNCHANGED tables

\* Mutant: nothing available is not refused.
ReadUsedUnchecked(c) ==
    LET w == call[c].wallet
        effective == Lesser(call[c].amount, lines[w].max - Used(w))
    IN  /\ call[c].at = "used"
        /\ Move(c, At("post", w, "ADVANCE", effective, Len(usages)))
        /\ UNCHANGED tables

\* What is available of the line: the advance is cut down to it, or refused.
ReadUsed(c) ==
    LET w == call[c].wallet
        effective == Lesser(call[c].amount, lines[w].max - Used(w))
    IN  /\ call[c].at = "used"
        /\ Move(c, IF effective > 0
                     THEN At("post", w, "ADVANCE", effective, Len(usages)) ELSE Over)
        /\ UNCHANGED tables

-----------------------------------------------------------------------------
(***************************************************************************)
(* reconcileCredit, and what both end with                                 *)
(***************************************************************************)

\* Mutant: what is outstanding does not cap the repayment.
AskRepaymentInFull(c, w, amount) ==
    /\ call[c] = Idle
    /\ Move(c, IF lines[w] # NoLine /\ Used(w) > 0
                 THEN At("post", w, "REPAYMENT", amount, Len(usages)) ELSE Over)
    /\ UNCHANGED tables

\* The lesser of the payment and of what is outstanding.
AskRepayment(c, w, amount) ==
    /\ call[c] = Idle
    /\ Move(c, IF lines[w] # NoLine /\ Used(w) > 0
                 THEN At("post", w, "REPAYMENT", Lesser(amount, Used(w)), Len(usages)) ELSE Over)
    /\ UNCHANGED tables

PostUsage(c) ==
    LET row == UsageRow(call[c].wallet, call[c].type, call[c].amount) IN
    /\ call[c].at = "post"
    /\ Balanced(row.entries)
    /\ ledger' = Append(ledger, row)
    /\ Move(c, [call[c] EXCEPT !.at = "record"])
    /\ UNCHANGED <<settled, charged, lines, usages, readAt, failures>>

RecordUsage(c) ==
    /\ call[c].at = "record"
    /\ usages' = Append(usages, Usage(call[c].wallet, call[c].type, call[c].amount))
    /\ readAt' = Append(readAt, call[c].seen)
    /\ Move(c, Over)
    /\ UNCHANGED <<ledger, settled, charged, lines, failures>>

\* A statement fails or the process dies: the call is over where it stands.
CallFails(c) ==
    /\ call[c] \notin {Idle, Over} /\ failures < MaxFailures
    /\ failures' = failures + 1
    /\ Move(c, Over)
    /\ UNCHANGED <<ledger, settled, charged, lines, usages, readAt>>

\* freezeCreditLine: the status alone, which advances do not look at.
FreezeLine(w) ==
    /\ lines[w] # NoLine
    /\ lines' = [lines EXCEPT ![w].status = "FROZEN"]
    /\ UNCHANGED <<ledger, settled, charged, usages, readAt, call, failures>>

PaymentSettles(w) ==
    /\ Total(w) < MaxPayments
    /\ settled' = [settled EXCEPT ![w] = @ + 1]
    /\ UNCHANGED <<ledger, charged, lines, usages, readAt, call, failures>>

PaymentChargedBack(w) ==
    /\ settled[w] > 0
    /\ settled' = [settled EXCEPT ![w] = @ - 1]
    /\ charged' = [charged EXCEPT ![w] = @ + 1]
    /\ UNCHANGED <<ledger, lines, usages, readAt, call, failures>>

Next ==
    \/ \E c \in Calls :
          \/ \E w \in Wallets, amount \in Asked :
                AskAdvance(c, w, amount) \/ AskRepayment(c, w, amount)
          \/ FindLine(c) \/ ReadVolume(c) \/ CreateLine(c) \/ ReadUsed(c)
          \/ PostUsage(c) \/ RecordUsage(c)
          \/ CallFails(c)
    \/ \E w \in Wallets : FreezeLine(w) \/ PaymentSettles(w) \/ PaymentChargedBack(w)

Spec == Init /\ [][Next]_vars

-----------------------------------------------------------------------------
Row ==
    [referenceId : Wallets, type : {"CREDIT_ADVANCE", "CREDIT_REPAYMENT"},
     status : {"POSTED"}, original : Nat,
     entries : Seq([account : Wallets \X {"CREDIT", "PAYABLE"}, amount : Int])]

UsageTypes == {"ADVANCE", "REPAYMENT"}
CallRecord ==
    [at : {"line", "volume", "create", "used", "post", "record"}, wallet : Wallets,
     type : UsageTypes, amount : Nat \ {0}, seen : Nat]

\* The tables hold rows of their schema; a usage is of a wallet that has a line, for an
\* amount above zero; a wallet's score is on "a 0-100 scale".
TypeOK ==
    /\ ledger \in Seq(Row)
    /\ settled \in [Wallets -> Nat] /\ charged \in [Wallets -> Nat]
    /\ lines \in [Wallets -> {NoLine} \cup [status : {"ACTIVE", "FROZEN"}, max : Nat, used : {0}]]
    /\ usages \in Seq([wallet : Wallets, type : UsageTypes, amount : Nat \ {0}])
    /\ \A i \in DOMAIN usages : lines[usages[i].wallet] # NoLine
    /\ readAt \in Seq(Nat) /\ Len(readAt) = Len(usages)
    /\ call \in [Calls -> {Idle, Over} \cup CallRecord]
    /\ failures \in Nat
    /\ \A w \in Wallets, amount \in Asked : Score(w, amount) \in 0..100

\* Of two usages of a wallet, the call of the second read before the first was there.
Overlapped(w) ==
    \E i, j \in DOMAIN usages :
        /\ usages[i].wallet = w /\ usages[j].wallet = w
        /\ readAt[j] < i /\ i < j

\* The advances of a line exceed it only when two calls overlap, the second having read
\* the used amount before the usage of the first was there.
OverdrawnOnlyByOverlap ==
    \A w \in Wallets : lines[w] # NoLine /\ Used(w) > lines[w].max => Overlapped(w)

\* What the ledger has on CREDIT is what the usages say is outstanding and what calls
\* have posted and not recorded yet, as long as no call fails in between.
Unrecorded(w) ==
    SumFunction([c \in Calls |-> IF call[c].at = "record" THEN Signed(call[c], w) ELSE 0])

LedgerAgreesWithUsages ==
    failures = 0 => \A w \in Wallets :
        Balance(ledger, Account(w, "CREDIT")) = SignedUsages(w) + Unrecorded(w)

\* A repayment alone never makes a wallet a creditor of its line: below zero only when
\* two repayments overlap ("should never be negative", computeUsedAmount).
OverpaidOnlyByOverlap == \A w \in Wallets : SignedUsages(w) < 0 => Overlapped(w)

-----------------------------------------------------------------------------
(***************************************************************************)
(* The inductive invariant: an advance or a repayment is within what its   *)
(* call read, which is the sum of the usages there were by then.           *)
(***************************************************************************)
SignedUpTo(w, n) == SumFunction([i \in 1..n |-> Signed(usages[i], w)])
UsedUpTo(w, n) == IF SignedUpTo(w, n) < 0 THEN 0 ELSE SignedUpTo(w, n)

\* A call past its read of the used amount is of a wallet that has a line, and carries an
\* amount within what it read.
WithinWhatWasRead ==
    \A c \in Calls :
        LET w == call[c].wallet IN
        /\ call[c].at \in {"used", "post", "record"} => lines[w] # NoLine
        /\ call[c].at \in {"post", "record"} =>
              /\ call[c].seen <= Len(usages)
              /\ IF call[c].type = "ADVANCE"
                   THEN call[c].amount <= lines[w].max - UsedUpTo(w, call[c].seen)
                   ELSE call[c].amount <= UsedUpTo(w, call[c].seen)

IInv ==
    /\ TypeOK /\ WithinWhatWasRead
    /\ OverdrawnOnlyByOverlap /\ OverpaidOnlyByOverlap /\ LedgerAgreesWithUsages

=============================================================================
