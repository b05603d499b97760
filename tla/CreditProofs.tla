---------------------------- MODULE CreditProofs ----------------------------
(***************************************************************************)
(* The invariants of Credit, for any wallets, ages, amounts, thresholds    *)
(* and calls, and any number of payments and failures.                     *)
(***************************************************************************)
EXTENDS Credit, LedgerOpsProofs

UsageRecord == [wallet : Wallets, type : UsageTypes, amount : Nat \ {0}]
LineRecord == [status : {"ACTIVE", "FROZEN"}, max : Nat, used : {0}]

\* What a score is computed from, and the scale it is on.
ScoreTypes ==
    /\ settled \in [Wallets -> Nat] /\ charged \in [Wallets -> Nat]
    /\ lines \in [Wallets -> {NoLine} \cup LineRecord]
ScoresOnScale == \A w \in Wallets, amount \in Asked : Score(w, amount) \in 0..100

-----------------------------------------------------------------------------
(***************************************************************************)
(* The risk score                                                          *)
(***************************************************************************)

\* A table of steps gives one of its scores, or the one for no step.
LEMMA StepRange ==
    ASSUME NEW x \in Int, NEW steps \in Seq(Int \X (0..100)), NEW otherwise \in 0..100
    PROVE  Step(x, steps, otherwise) \in 0..100
<1> DEFINE above == {i \in DOMAIN steps : x > steps[i][1]}
<1>1. DOMAIN steps = 1..Len(steps) /\ Len(steps) \in Nat
      /\ \A i \in DOMAIN steps : steps[i] \in Int \X (0..100)
    BY LenProperties, ElementOfSeq
<1>2. CASE above = {}
    BY <1>2 DEF Step
<1>3. CASE above # {}
  <2>1. above \subseteq Nat
      BY <1>1
  <2>2. \E i \in above : \A j \in above : i <= j
    <3> HIDE DEF above
    <3> QED
        BY <1>3, <2>1, LeastNatural
  <2>3. (CHOOSE i \in above : \A j \in above : i <= j) \in DOMAIN steps
      BY <2>2
  <2> QED
      BY <1>1, <1>3, <2>3 DEF Step
<1> QED
    BY <1>2, <1>3

\* A score is on the scale that risk-assessment.service.ts names.
LEMMA ScoreRange == ScoreTypes => ScoresOnScale
<1> SUFFICES ASSUME ScoreTypes, NEW w \in Wallets, NEW amount \in Asked
             PROVE  Score(w, amount) \in 0..100
    BY DEF ScoresOnScale
<1>0. /\ settled[w] \in Nat /\ charged[w] \in Nat
      /\ lines[w] \in {NoLine} \cup LineRecord /\ amount \in Nat
    BY AmountAssumption DEF ScoreTypes
<1>1. AgeScore(w) \in 0..100
  <2> DEFINE steps == <<<<365, 100>>, <<180, 80>>, <<90, 60>>, <<30, 40>>, <<7, 20>>>>
  <2>1. steps \in Seq(Int \X (0..100))
      OBVIOUS
  <2>2. AgeScore(w) = Step(AgeInDays[w], steps, 5)
      BY DEF AgeScore
  <2>3. AgeInDays[w] \in Int /\ 5 \in 0..100
      BY AmountAssumption
  <2> HIDE DEF steps
  <2> QED
      BY <2>1, <2>2, <2>3, StepRange
<1>2. HistoryScore(w) \in 0..100
  <2> DEFINE steps == <<<<50, 100>>, <<20, 80>>, <<10, 60>>, <<5, 40>>, <<0, 20>>>>
  <2>1. steps \in Seq(Int \X (0..100))
      OBVIOUS
  <2>2. HistoryScore(w) = Step(settled[w], steps, 0)
      BY DEF HistoryScore
  <2>3. settled[w] \in Int /\ 0 \in 0..100
      BY <1>0
  <2> HIDE DEF steps
  <2> QED
      BY <2>1, <2>2, <2>3, StepRange
<1>3. SizeScore(w, amount) \in 0..100
    BY <1>0, AmountAssumption DEF SizeScore
<1>4. ReliabilityScore(w) \in 0..100
  <2>1. CASE Total(w) = 0
      BY <2>1 DEF ReliabilityScore
  <2>2. CASE Total(w) # 0
    <3>1. /\ Total(w) \in Nat \ {0} /\ 100 * settled[w] \in Nat
          /\ 100 * settled[w] <= 100 * Total(w)
        BY <2>2, <1>0 DEF Total
    <3>2. RoundTo(100 * settled[w], Total(w)) \in Nat
          /\ RoundTo(100 * settled[w], Total(w)) <= 100
        BY <3>1, RoundRange
    <3> QED
        BY <2>2, <3>2 DEF ReliabilityScore
  <2> QED
      BY <2>1, <2>2
<1>5. ChargebackScore(w) \in 0..100
    BY <1>0 DEF ChargebackScore, Total
<1>6. ExposureScore(w) \in 0..100
    BY <1>0 DEF ExposureScore, LineRecord
<1> DEFINE sum == 15 * AgeScore(w) + 25 * HistoryScore(w) + 20 * SizeScore(w, amount)
                    + 20 * ReliabilityScore(w) + 15 * ChargebackScore(w) + 5 * ExposureScore(w)
           a == AgeScore(w)          b == HistoryScore(w)     c == SizeScore(w, amount)
           d == ReliabilityScore(w)  e == ChargebackScore(w)  f == ExposureScore(w)
<1>7. sum \in Nat /\ sum <= 100 * 100
  <2>1. sum = 15 * a + 25 * b + 20 * c + 20 * d + 15 * e + 5 * f
      OBVIOUS
  <2>2. /\ a \in 0..100 /\ b \in 0..100 /\ c \in 0..100
        /\ d \in 0..100 /\ e \in 0..100 /\ f \in 0..100
      BY <1>1, <1>2, <1>3, <1>4, <1>5, <1>6
  <2> HIDE DEF sum, a, b, c, d, e, f
  <2> QED
      BY <2>1, <2>2
<1> HIDE DEF sum
<1>8. RoundTo(sum, 100) \in Nat /\ RoundTo(sum, 100) <= 100
    BY <1>7, RoundRange
<1> QED
    BY <1>8 DEF Score, sum

\* What assessRisk approves is an amount in the unit of the column.
LEMMA ApprovedType ==
    ASSUME NEW w \in Wallets, NEW amount \in Nat, Score(w, amount) \in 0..100
    PROVE  Approved(w, amount) \in Nat
<1>1. amount * Score(w, amount) \in Nat
    OBVIOUS
<1>2. RoundTo(amount * Score(w, amount), 100) \in Nat
    BY <1>1, RoundType
<1> QED
    BY <1>2, AmountAssumption DEF Approved

-----------------------------------------------------------------------------
(***************************************************************************)
(* Type correctness                                                        *)
(***************************************************************************)

\* A call that has begun and not ended carries a wallet, a kind and amounts.
LEMMA CallTypes ==
    ASSUME TypeOK, NEW c \in Calls
    PROVE  /\ call[c] = Idle \/ call[c] = Over \/ call[c] \in CallRecord
           /\ call[c].at \in {"line", "volume", "create", "used", "post", "record"}
                => call[c] \in CallRecord
    BY DEF TypeOK, CallRecord, Idle, Over

\* The tables, without the scores.
LEMMA TableTypes ==
    ASSUME TypeOK
    PROVE  /\ ScoreTypes
           /\ usages \in [1..Len(usages) -> UsageRecord] /\ DOMAIN usages = 1..Len(usages)
           /\ Len(usages) \in Nat
           /\ \A i \in 1..Len(usages) :
                 /\ usages[i] \in UsageRecord /\ usages[i].wallet \in Wallets
                 /\ lines[usages[i].wallet] # NoLine
           /\ readAt \in Seq(Nat) /\ DOMAIN readAt = 1..Len(usages)
<1>1. usages \in Seq(UsageRecord) /\ readAt \in Seq(Nat)
    BY DEF TypeOK, UsageRecord
<1>2. usages \in [1..Len(usages) -> UsageRecord] /\ DOMAIN usages = 1..Len(usages)
      /\ Len(usages) \in Nat /\ DOMAIN readAt = 1..Len(readAt)
    BY <1>1, LenProperties
<1>3. \A i \in 1..Len(usages) : usages[i] \in UsageRecord /\ usages[i].wallet \in Wallets
    BY <1>2 DEF UsageRecord
<1> QED
    BY <1>1, <1>2, <1>3 DEF TypeOK, ScoreTypes, LineRecord

\* A move of one call to a place of its kind.
LEMMA MoveType ==
    ASSUME TypeOK, NEW c \in Calls, NEW next \in {Idle, Over} \cup CallRecord, Move(c, next)
    PROVE  /\ call' \in [Calls -> {Idle, Over} \cup CallRecord]
           /\ call'[c] = next /\ \A d \in Calls \ {c} : call'[d] = call[d]
    BY DEF TypeOK, Move, CallRecord

\* The row that a usage posts is of the ledger's schema and balances.
LEMMA UsageRowType ==
    ASSUME NEW w \in Wallets, NEW type \in UsageTypes, NEW amount \in Nat \ {0}
    PROVE  UsageRow(w, type, amount) \in Row
<1> DEFINE signed == IF type = "ADVANCE" THEN amount ELSE -amount
           es == <<Entry(Account(w, "CREDIT"), signed), Entry(Account(w, "PAYABLE"), -signed)>>
<1>1. signed \in Int
    OBVIOUS
<1> HIDE DEF signed
<1>2. es \in Seq([account : Wallets \X {"CREDIT", "PAYABLE"}, amount : Int])
    BY <1>1 DEF Entry, Account
<1> HIDE DEF es
<1>3. UsageRow(w, type, amount)
        = Transaction(w, IF type = "ADVANCE" THEN "CREDIT_ADVANCE" ELSE "CREDIT_REPAYMENT",
                      es, NoOriginal)
    BY DEF UsageRow, es, signed
<1> QED
    BY <1>2, <1>3 DEF Transaction, Row, NoOriginal

\* Used amounts are never below zero.
LEMMA UsedType ==
    ASSUME TypeOK, NEW w \in Wallets
    PROVE  SignedUsages(w) \in Int /\ Used(w) \in Nat
<1> DEFINE f == [i \in DOMAIN usages |-> Signed(usages[i], w)]
<1>1. usages \in [1..Len(usages) -> UsageRecord] /\ Len(usages) \in Nat
    BY LenProperties DEF TypeOK, UsageRecord
<1>2. f \in [1..Len(usages) -> Int]
    BY <1>1 DEF Signed, UsageRecord
<1>3. SumFunction(f) \in Int
    BY <1>1, <1>2, SumIsInt
<1> QED
    BY <1>3 DEF Used, SignedUsages

\* After a step as before it.
LEMMA ScoreRangeNext == ScoreTypes' => ScoresOnScale'
    BY ScoreRange, PTL

\* Every step keeps the types.
LEMMA TypeStep ==
    ASSUME TypeOK, WithinWhatWasRead, [Next]_vars
    PROVE  TypeOK'
<1> USE AmountAssumption
<1> DEFINE CallsOK == call' \in [Calls -> {Idle, Over} \cup CallRecord]
           ScoresOK == ScoreTypes'
           TablesOK == /\ ledger' \in Seq(Row)
                       /\ usages' \in Seq(UsageRecord)
                       /\ \A i \in DOMAIN usages' : lines'[usages'[i].wallet] # NoLine
                       /\ readAt' \in Seq(Nat) /\ Len(readAt') = Len(usages')
                       /\ failures' \in Nat
<1>0. SUFFICES CallsOK /\ ScoresOK /\ TablesOK
    BY ScoreRangeNext DEF TypeOK, ScoreTypes, ScoresOnScale, LineRecord, UsageRecord
<1>1. ASSUME UNCHANGED tables PROVE ScoresOK /\ TablesOK
    BY <1>1 DEF tables, TypeOK, ScoreTypes, LineRecord, UsageRecord
<1>2. ASSUME NEW c \in Calls, NEW w \in Wallets, NEW amount \in Asked, AskAdvance(c, w, amount)
      PROVE  CallsOK
  <2>1. Approved(w, amount) \in Nat
      BY ApprovedType DEF TypeOK
  <2>2. Approved(w, amount) > 0 => At("line", w, "ADVANCE", Approved(w, amount), 0) \in CallRecord
      BY <2>1 DEF At, CallRecord, UsageTypes
  <2> QED
      BY <1>2, <2>1, <2>2, MoveType DEF AskAdvance
<1>3. ASSUME NEW c \in Calls, NEW w \in Wallets, NEW amount \in Asked, AskRepayment(c, w, amount)
      PROVE  CallsOK
  <2>1. Used(w) \in Nat /\ Len(usages) \in Nat
      BY UsedType, LenProperties DEF TypeOK
  <2>2. Used(w) > 0 => At("post", w, "REPAYMENT", Lesser(amount, Used(w)), Len(usages)) \in CallRecord
      BY <2>1 DEF At, CallRecord, UsageTypes, Lesser
  <2> QED
      BY <1>3, <2>2, MoveType DEF AskRepayment
<1>4. ASSUME NEW c \in Calls, FindLine(c) PROVE CallsOK
  <2>1. [call[c] EXCEPT !.at = IF lines[call[c].wallet] = NoLine THEN "volume" ELSE "used"]
          \in CallRecord
      BY <1>4, CallTypes DEF FindLine, CallRecord
  <2> QED
      BY <1>4, <2>1, MoveType DEF FindLine
<1>5. ASSUME NEW c \in Calls, ReadVolume(c) PROVE CallsOK
  <2>1. settled[call[c].wallet] * PaymentAmount \in Nat
      BY <1>5, CallTypes DEF ReadVolume, CallRecord, TypeOK
  <2>2. [call[c] EXCEPT !.at = "create", !.seen = settled[call[c].wallet] * PaymentAmount]
          \in CallRecord
      BY <1>5, <2>1, CallTypes DEF ReadVolume, CallRecord
  <2> QED
      BY <1>5, <2>2, MoveType DEF ReadVolume
<1>6. ASSUME NEW c \in Calls, CreateLine(c) PROVE CallsOK /\ ScoresOK /\ TablesOK
  <2>1. call[c] \in CallRecord
      BY <1>6, CallTypes DEF CreateLine
  <2>2. RoundTo(call[c].seen * Exposure, 100) \in Nat
    <3>1. call[c].seen * Exposure \in Nat
        BY <2>1 DEF CallRecord
    <3> QED
        BY <3>1, RoundType
  <2>3. CallsOK
    <3>1. [call[c] EXCEPT !.at = "used", !.seen = 0] \in CallRecord
        BY <2>1 DEF CallRecord
    <3> QED
        BY <1>6, <3>1, MoveType DEF CreateLine
  <2> DEFINE line == Line(RoundTo(call[c].seen * Exposure, 100))
  <2>7. line \in LineRecord
      BY <2>2 DEF LineRecord, Line
  <2>8. \/ lines' = [lines EXCEPT ![call[c].wallet] = line]
        \/ lines' = lines
      BY <1>6 DEF CreateLine
  <2> HIDE DEF line
  <2>4. lines' \in [Wallets -> {NoLine} \cup LineRecord]
      BY <2>7, <2>8, TableTypes DEF ScoreTypes
  <2>5. \A w \in Wallets : lines[w] # NoLine => lines'[w] # NoLine
    <3>1. line # NoLine
        BY <2>7 DEF LineRecord, NoLine
    <3> QED
        BY <2>8, <3>1, TableTypes DEF ScoreTypes
  <2>6. \A i \in DOMAIN usages : usages[i].wallet \in Wallets
      BY TableTypes
  <2> QED
      BY <1>6, <2>3, <2>4, <2>5, <2>6 DEF CreateLine, TypeOK, ScoreTypes, UsageRecord
<1>7. ASSUME NEW c \in Calls, ReadUsed(c) PROVE CallsOK
  <2> DEFINE w == call[c].wallet
             effective == Lesser(call[c].amount, lines[w].max - Used(w))
  <2>1. call[c] \in CallRecord /\ lines[w] # NoLine
      BY <1>7, CallTypes DEF ReadUsed, WithinWhatWasRead
  <2>2. effective \in Int /\ Len(usages) \in Nat
      BY <2>1, UsedType, LenProperties DEF TypeOK, Lesser, CallRecord, LineRecord
  <2>3. effective > 0 => At("post", w, "ADVANCE", effective, Len(usages)) \in CallRecord
      BY <2>1, <2>2 DEF At, CallRecord, UsageTypes
  <2> HIDE DEF effective
  <2> QED
      BY <1>7, <2>3, MoveType DEF ReadUsed, effective
<1>8. ASSUME NEW c \in Calls, PostUsage(c) PROVE CallsOK /\ ScoresOK /\ TablesOK
  <2>1. call[c] \in CallRecord
      BY <1>8, CallTypes DEF PostUsage
  <2>2. [call[c] EXCEPT !.at = "record"] \in CallRecord
      BY <2>1 DEF CallRecord
  <2>3. CallsOK
      BY <1>8, <2>2, MoveType DEF PostUsage
  <2>4. UsageRow(call[c].wallet, call[c].type, call[c].amount) \in Row
      BY <2>1, UsageRowType DEF CallRecord
  <2>5. ledger' \in Seq(Row)
      BY <1>8, <2>4, AppendRow DEF PostUsage, TypeOK
  <2> QED
      BY <1>8, <2>3, <2>5 DEF PostUsage, TypeOK, ScoreTypes, LineRecord, UsageRecord
<1>9. ASSUME NEW c \in Calls, RecordUsage(c) PROVE CallsOK /\ ScoresOK /\ TablesOK
  <2> DEFINE usage == Usage(call[c].wallet, call[c].type, call[c].amount)
  <2>1. call[c] \in CallRecord /\ lines[call[c].wallet] # NoLine
      BY <1>9, CallTypes DEF RecordUsage, WithinWhatWasRead
  <2>2. usage \in UsageRecord
      BY <2>1 DEF CallRecord, Usage, UsageRecord
  <2>3. usages \in Seq(UsageRecord) /\ readAt \in Seq(Nat) /\ call[c].seen \in Nat
      BY <2>1 DEF TypeOK, UsageRecord, CallRecord
  <2>4. usages' = Append(usages, usage) /\ readAt' = Append(readAt, call[c].seen)
      BY <1>9 DEF RecordUsage
  <2> HIDE DEF usage
  <2>5. /\ usages' \in Seq(UsageRecord) /\ Len(usages') = Len(usages) + 1
        /\ DOMAIN usages = 1..Len(usages) /\ DOMAIN usages' = 1..(Len(usages) + 1)
        /\ (\A i \in 1..Len(usages) : usages'[i] = usages[i]) /\ usages'[Len(usages) + 1] = usage
        /\ Len(usages) \in Nat
      BY <2>2, <2>3, <2>4, AppendRow
  <2>6. readAt' \in Seq(Nat) /\ Len(readAt') = Len(readAt) + 1
      BY <2>3, <2>4, AppendRow
  <2>7. \A i \in DOMAIN usages' : lines[usages'[i].wallet] # NoLine
    <3>1. \A i \in 1..Len(usages) : lines[usages[i].wallet] # NoLine
        BY TableTypes
    <3>2. usage.wallet = call[c].wallet
        BY DEF usage, Usage
    <3> QED
        BY <2>1, <2>5, <3>1, <3>2
  <2>8. CallsOK
      BY <1>9, MoveType DEF RecordUsage
  <2> QED
      BY <1>9, <2>5, <2>6, <2>7, <2>8 DEF RecordUsage, TypeOK, ScoreTypes, LineRecord
<1>10. ASSUME NEW c \in Calls, CallFails(c) PROVE CallsOK /\ ScoresOK /\ TablesOK
  <2>1. CallsOK
      BY <1>10, MoveType DEF CallFails
  <2> QED
      BY <1>10, <2>1 DEF CallFails, TypeOK, ScoreTypes, LineRecord, UsageRecord
<1>11. ASSUME NEW w \in Wallets, FreezeLine(w) PROVE CallsOK /\ ScoresOK /\ TablesOK
  <2>1. lines' \in [Wallets -> {NoLine} \cup LineRecord]
      BY <1>11 DEF FreezeLine, TypeOK, LineRecord
  <2>2. \A v \in Wallets : lines[v] # NoLine => lines'[v] # NoLine
      BY <1>11 DEF FreezeLine, TypeOK, LineRecord, NoLine
  <2>3. \A i \in DOMAIN usages : usages[i].wallet \in Wallets
      BY TableTypes
  <2> QED
      BY <1>11, <2>1, <2>2, <2>3 DEF FreezeLine, TypeOK, ScoreTypes, UsageRecord
<1>12. ASSUME NEW w \in Wallets, PaymentSettles(w) PROVE CallsOK /\ ScoresOK /\ TablesOK
  <2>1. ScoresOK
      BY <1>12, TableTypes DEF PaymentSettles, ScoreTypes
  <2> QED
      BY <1>12, <2>1 DEF PaymentSettles, TypeOK, UsageRecord
<1>14. ASSUME NEW w \in Wallets, PaymentChargedBack(w) PROVE CallsOK /\ ScoresOK /\ TablesOK
  <2>1. ScoresOK
      BY <1>14, TableTypes DEF PaymentChargedBack, ScoreTypes
  <2> QED
      BY <1>14, <2>1 DEF PaymentChargedBack, TypeOK, UsageRecord
<1>13. CASE UNCHANGED vars
    BY <1>13, <1>1 DEF vars, tables, TypeOK
<1> HIDE DEF CallsOK, ScoresOK, TablesOK
<1> QED
    BY <1>1, <1>2, <1>3, <1>4, <1>5, <1>6, <1>7, <1>8, <1>9, <1>10, <1>11, <1>12, <1>13, <1>14
       DEF Next, AskAdvance, AskRepayment, FindLine, ReadVolume, ReadUsed

-----------------------------------------------------------------------------
(***************************************************************************)
(* What a call read, and what it may do with it                            *)
(***************************************************************************)

\* The usages up to a row, as a function of the table.
Prefix(table, w, n) == SumFunction([i \in 1..n |-> Signed(table[i], w)])

\* A prefix of the table is what it is whatever is appended; an appended usage adds its
\* signed amount; and the whole table is no more than a prefix when the rest of it is of
\* other wallets.
LEMMA PrefixFacts ==
    ASSUME NEW table \in Seq(UsageRecord), NEW w \in Wallets, NEW n \in 0..Len(table)
    PROVE  /\ Prefix(table, w, n) \in Int
           /\ \A usage \in UsageRecord :
                 /\ Prefix(Append(table, usage), w, n) = Prefix(table, w, n)
                 /\ Prefix(Append(table, usage), w, Len(table) + 1)
                      = Prefix(table, w, Len(table)) + Signed(usage, w)
           /\ (\A i \in (n + 1)..Len(table) : table[i].wallet # w)
                => Prefix(table, w, n) = Prefix(table, w, Len(table))
<1> DEFINE m == Len(table)
           f == [i \in 1..n |-> Signed(table[i], w)]
           g == [i \in 1..m |-> Signed(table[i], w)]
<1>1. m \in Nat /\ n \in Nat /\ n <= m /\ \A i \in 1..m : table[i] \in UsageRecord
    BY LenProperties
<1>2. \A usage \in UsageRecord : Signed(usage, w) \in Int
    BY DEF Signed, UsageRecord
<1> HIDE DEF m
<1>3. f \in [1..n -> Int] /\ g \in [1..m -> Int]
    BY <1>1, <1>2
<1>4. Prefix(table, w, n) = SumFunction(f) /\ Prefix(table, w, m) = SumFunction(g)
    BY DEF Prefix
<1>5. SumFunction(f) \in Int
    BY <1>1, <1>3, SumIsInt
<1>6. ASSUME NEW usage \in UsageRecord
      PROVE  /\ Prefix(Append(table, usage), w, n) = Prefix(table, w, n)
             /\ Prefix(Append(table, usage), w, m + 1) = Prefix(table, w, m) + Signed(usage, w)
  <2> DEFINE more == Append(table, usage)
             h == [i \in 1..(m + 1) |-> Signed(more[i], w)]
  <2>1. (\A i \in 1..m : more[i] = table[i]) /\ more[m + 1] = usage
      BY AppendRow DEF m
  <2> HIDE DEF more
  <2>2. [i \in 1..n |-> Signed(more[i], w)] = f
      BY <2>1, <1>1
  <2>3. h \in [1..(m + 1) -> Int] /\ (\A i \in 1..m : h[i] = g[i])
        /\ h[m + 1] = Signed(usage, w)
      BY <2>1, <1>1, <1>2
  <2>4. Prefix(more, w, n) = SumFunction(f) /\ Prefix(more, w, m + 1) = SumFunction(h)
      BY <2>2 DEF Prefix
  <2> HIDE DEF f, g, h
  <2>5. SumFunction(h) = SumFunction(g) + h[m + 1]
      BY <1>1, <1>3, <2>3, SumOfFirst
  <2> QED
      BY <1>4, <2>3, <2>4, <2>5 DEF more
<1>7. ASSUME \A i \in (n + 1)..m : table[i].wallet # w
      PROVE  Prefix(table, w, n) = Prefix(table, w, m)
  <2>1. IsFiniteSet(1..n) /\ IsFiniteSet((n + 1)..m)
      BY <1>1, FS_Interval
  <2>2. 1..m = (1..n) \cup ((n + 1)..m) /\ (1..n) \cap ((n + 1)..m) = {}
      BY <1>1
  <2>3. \A i \in (n + 1)..m : g[i] = 0
      BY <1>1, <1>7 DEF Signed
  <2>4. \A i \in 1..n : g[i] = f[i]
      BY <1>1
  <2> HIDE DEF f, g
  <2>5. SumFunctionOnSet(g, (n + 1)..m) = 0
      BY <2>1, <2>3, SumOfZeros
  <2>6. SumFunctionOnSet(g, 1..m) = SumFunctionOnSet(g, 1..n) + 0
    <3>1. \A i \in (1..n) \cup ((n + 1)..m) : g[i] \in Int
        BY <1>3, <2>2
    <3>2. SumFunctionOnSet(g, (1..n) \cup ((n + 1)..m))
            = SumFunctionOnSet(g, 1..n) + SumFunctionOnSet(g, (n + 1)..m)
        BY <2>1, <2>2, <3>1, SumUnion
    <3> QED
        BY <2>2, <2>5, <3>2
  <2>7. SumFunctionOnSet(g, 1..n) = SumFunctionOnSet(f, 1..n)
    <3>1. \A i \in 1..n : g[i] = f[i] /\ g[i] \in Int
        BY <1>3, <2>4
    <3> QED
        BY <2>1, <3>1, SumSame
  <2>8. SumFunction(f) = SumFunctionOnSet(f, 1..n) /\ SumFunction(g) = SumFunctionOnSet(g, 1..m)
      BY <1>1, <1>3, SumIsInt
  <2> QED
      BY <1>4, <1>5, <2>6, <2>7, <2>8
<1> QED
    BY <1>4, <1>5, <1>6, <1>7 DEF m

\* And the used amount they make.
UsedIn(table, w, n) == IF Prefix(table, w, n) < 0 THEN 0 ELSE Prefix(table, w, n)

\* What WithinWhatWasRead says of one call.
Within(record, lns, table) ==
    LET w == record.wallet IN
    /\ record.at \in {"used", "post", "record"} => lns[w] # NoLine
    /\ record.at \in {"post", "record"} =>
          /\ record.seen <= Len(table)
          /\ IF record.type = "ADVANCE"
               THEN record.amount <= lns[w].max - UsedIn(table, w, record.seen)
               ELSE record.amount <= UsedIn(table, w, record.seen)

LEMMA WithinOfCalls ==
    /\ WithinWhatWasRead <=> \A c \in Calls : Within(call[c], lines, usages)
    /\ WithinWhatWasRead' <=> \A c \in Calls : Within(call'[c], lines', usages')
    BY DEF WithinWhatWasRead, Within, UsedUpTo, SignedUpTo, UsedIn, Prefix

\* The used amount is that of the whole table, after a step as before it.
TableIsSequence == DOMAIN usages = 1..Len(usages)
UsedOfTable ==
    \A w \in Wallets :
        /\ SignedUsages(w) = Prefix(usages, w, Len(usages))
        /\ Used(w) = UsedIn(usages, w, Len(usages))

LEMMA UsedAsPrefix == TableIsSequence => UsedOfTable
    BY DEF TableIsSequence, UsedOfTable, SignedUsages, Used, UsedIn, Prefix

LEMMA UsedAsPrefixNext == TableIsSequence' => UsedOfTable'
    BY UsedAsPrefix, PTL

\* The tables of usages only grow, by the usage of a call that posted one.
LEMMA UsagesGrow ==
    ASSUME TypeOK, WithinWhatWasRead, [Next]_vars
    PROVE  \/ UNCHANGED <<usages, readAt>>
           \/ \E c \in Calls :
                 LET usage == Usage(call[c].wallet, call[c].type, call[c].amount) IN
                 /\ RecordUsage(c)
                 /\ call[c] \in CallRecord /\ usage \in UsageRecord
                 /\ usages' = Append(usages, usage) /\ readAt' = Append(readAt, call[c].seen)
<1>1. ASSUME NEW c \in Calls, RecordUsage(c)
      PROVE  /\ call[c] \in CallRecord
             /\ Usage(call[c].wallet, call[c].type, call[c].amount) \in UsageRecord
             /\ usages' = Append(usages, Usage(call[c].wallet, call[c].type, call[c].amount))
             /\ readAt' = Append(readAt, call[c].seen)
    BY <1>1, CallTypes DEF RecordUsage, CallRecord, Usage, UsageRecord
<1>2. CASE \A c \in Calls : ~RecordUsage(c)
    BY <1>2 DEF Next, vars, tables, AskAdvance, AskRepayment, FindLine, ReadVolume, CreateLine,
                ReadUsed, PostUsage, CallFails, FreezeLine, PaymentSettles, PaymentChargedBack
<1> QED
    BY <1>1, <1>2

\* A line is never taken away and keeps its size: freezeCreditLine changes its status.
LEMMA LinesStay ==
    ASSUME TypeOK, WithinWhatWasRead, [Next]_vars, NEW w \in Wallets, lines[w] # NoLine
    PROVE  lines'[w] # NoLine /\ lines'[w].max = lines[w].max /\ lines[w].max \in Nat
<1>0. lines[w] \in LineRecord /\ lines \in [Wallets -> {NoLine} \cup LineRecord]
    BY TableTypes DEF ScoreTypes
<1>1. ASSUME NEW c \in Calls, CreateLine(c) PROVE lines'[w] = lines[w]
  <2>1. call[c].wallet \in Wallets
      BY <1>1, CallTypes DEF CreateLine, CallRecord
  <2> QED
      BY <1>0, <1>1, <2>1 DEF CreateLine
<1>2. ASSUME NEW v \in Wallets, FreezeLine(v)
      PROVE  lines'[w] = lines[w] \/ lines'[w] = [lines[w] EXCEPT !.status = "FROZEN"]
    BY <1>0, <1>2 DEF FreezeLine
<1>3. CASE UNCHANGED lines
    BY <1>0, <1>3 DEF LineRecord
<1>4. lines'[w] = lines[w] \/ lines'[w] = [lines[w] EXCEPT !.status = "FROZEN"]
    BY <1>1, <1>2, <1>3 DEF Next, vars, tables, AskAdvance, AskRepayment, FindLine, ReadVolume,
            ReadUsed, PostUsage, RecordUsage, CallFails, PaymentSettles, PaymentChargedBack
<1> QED
    BY <1>0, <1>4 DEF LineRecord, NoLine

\* What the usages say of a wallet after a step, from what they said before.
LEMMA UsedNext ==
    ASSUME TypeOK, WithinWhatWasRead, [Next]_vars, NEW w \in Wallets
    PROVE  /\ Overlapped(w) => Overlapped(w)'
           /\ \A n \in 0..Len(usages) : UsedIn(usages', w, n) = UsedIn(usages, w, n)
           /\ Len(usages) <= Len(usages') /\ Len(usages') \in Nat
           /\ SignedUsages(w) \in Int
           /\ \/ SignedUsages(w)' = SignedUsages(w) /\ \A c \in Calls : ~RecordUsage(c)
              \/ \E c \in Calls :
                    /\ RecordUsage(c) /\ call[c] \in CallRecord /\ call[c].at = "record"
                    /\ SignedUsages(w)' = SignedUsages(w) + Signed(call[c], w)
                    /\ call[c].wallet = w /\ ~Overlapped(w)'
                         => UsedIn(usages, w, call[c].seen) = Used(w)
<1>1. /\ SignedUsages(w) = Prefix(usages, w, Len(usages))
      /\ Used(w) = UsedIn(usages, w, Len(usages))
    BY UsedAsPrefix, TableTypes DEF TableIsSequence, UsedOfTable
<1>2. /\ usages \in Seq(UsageRecord) /\ Len(usages) \in Nat /\ DOMAIN usages = 1..Len(usages)
      /\ readAt \in Seq(Nat) /\ DOMAIN readAt = 1..Len(usages) /\ Len(readAt) = Len(usages)
    BY TableTypes DEF TypeOK, UsageRecord
<1>9. UNCHANGED <<usages, readAt>> => \A c \in Calls : ~RecordUsage(c)
  <2>1. ASSUME NEW c \in Calls, RecordUsage(c) PROVE usages' # usages
    <3> DEFINE usage == Usage(call[c].wallet, call[c].type, call[c].amount)
    <3>1. usage \in UsageRecord /\ usages' = Append(usages, usage)
        BY <2>1, CallTypes DEF RecordUsage, CallRecord, Usage, UsageRecord
    <3> HIDE DEF usage
    <3>2. Len(usages') = Len(usages) + 1
        BY <1>2, <3>1, AppendRow
    <3> QED
        BY <1>2, <3>2
  <2> QED
      BY <2>1
<1>3. CASE UNCHANGED <<usages, readAt>>
  <2>1. Overlapped(w) <=> Overlapped(w)'
      BY <1>3 DEF Overlapped
  <2>2. SignedUsages(w)' = SignedUsages(w) /\ Len(usages') = Len(usages)
      BY <1>3 DEF SignedUsages
  <2> QED
      BY <1>2, <1>3, <1>9, <2>1, <2>2, UsedType
<1>4. ASSUME NEW c \in Calls, RecordUsage(c), call[c] \in CallRecord,
             NEW usage \in UsageRecord,
             usage = Usage(call[c].wallet, call[c].type, call[c].amount),
             usages' = Append(usages, usage), readAt' = Append(readAt, call[c].seen)
      PROVE  /\ Overlapped(w) => Overlapped(w)'
             /\ \A n \in 0..Len(usages) : UsedIn(usages', w, n) = UsedIn(usages, w, n)
             /\ Len(usages) <= Len(usages') /\ Len(usages') \in Nat
             /\ SignedUsages(w)' = SignedUsages(w) + Signed(call[c], w)
             /\ call[c].wallet = w /\ ~Overlapped(w)'
                  => UsedIn(usages, w, call[c].seen) = Used(w)
  <2> DEFINE m == Len(usages)
  <2>1. /\ Len(usages') = m + 1 /\ DOMAIN usages' = 1..(m + 1)
        /\ (\A i \in 1..m : usages'[i] = usages[i]) /\ usages'[m + 1] = usage
        /\ (\A i \in 1..m : readAt'[i] = readAt[i]) /\ readAt'[m + 1] = call[c].seen
      BY <1>2, <1>4, AppendRow DEF CallRecord
  <2>2. call[c].seen \in 0..m
      BY <1>2, <1>4, WithinOfCalls DEF Within, RecordUsage, CallRecord
  <2>3. Signed(usage, w) = Signed(call[c], w) /\ usage.wallet = call[c].wallet
      BY <1>4 DEF Usage, Signed
  <2>4. Overlapped(w) => Overlapped(w)'
      BY <1>2, <2>1 DEF Overlapped
  <2>5. \A n \in 0..m : Prefix(usages', w, n) = Prefix(usages, w, n)
      BY <1>2, <1>4, PrefixFacts
  <2>6. \A n \in 0..m : UsedIn(usages', w, n) = UsedIn(usages, w, n)
      BY <2>5 DEF UsedIn
  <2>7. Prefix(usages', w, m + 1) = Prefix(usages, w, m) + Signed(usage, w)
        /\ Prefix(usages, w, m) \in Int
    <3>1. m \in 0..m
        BY <1>2
    <3> QED
        BY <1>2, <1>4, <3>1, PrefixFacts
  <2>8. SignedUsages(w)' = SignedUsages(w) + Signed(usage, w) /\ SignedUsages(w) \in Int
      BY <1>1, <2>1, <2>7, UsedAsPrefixNext DEF TableIsSequence, UsedOfTable
  <2>9. ASSUME call[c].wallet = w, ~Overlapped(w)'
        PROVE  UsedIn(usages, w, call[c].seen) = Used(w)
    <3>1. \A i \in (call[c].seen + 1)..m : usages[i].wallet # w
      <4> SUFFICES ASSUME NEW i \in (call[c].seen + 1)..m, usages[i].wallet = w PROVE FALSE
          OBVIOUS
      <4>1. i \in DOMAIN usages' /\ m + 1 \in DOMAIN usages' /\ i < m + 1 /\ call[c].seen < i
            /\ i \in 1..m
          BY <1>2, <2>1, <2>2
      <4>2. usages'[i].wallet = w /\ usages'[m + 1].wallet = w /\ readAt'[m + 1] = call[c].seen
          BY <2>1, <2>3, <2>9, <4>1
      <4> QED
          BY <2>9, <4>1, <4>2 DEF Overlapped
    <3>2. Prefix(usages, w, call[c].seen) = Prefix(usages, w, m)
        BY <1>2, <2>2, <3>1, PrefixFacts
    <3> QED
        BY <1>1, <3>2 DEF UsedIn
  <2> QED
      BY <1>2, <2>1, <2>3, <2>4, <2>6, <2>8, <2>9
<1>5. ASSUME NEW c \in Calls, RecordUsage(c) PROVE call[c].at = "record"
    BY <1>5 DEF RecordUsage
<1> QED
    BY <1>3, <1>4, <1>5, UsedType, UsagesGrow

\* An advance or a repayment stays within what its call read.
LEMMA WithinStep ==
    ASSUME TypeOK, WithinWhatWasRead, [Next]_vars, TypeOK'
    PROVE  WithinWhatWasRead'
<1> SUFFICES ASSUME NEW c \in Calls
             PROVE  Within(call'[c], lines', usages')
    BY WithinOfCalls
<1>0. /\ Within(call[c], lines, usages)
      /\ DOMAIN usages = 1..Len(usages) /\ Len(usages) \in Nat
      /\ Len(usages) <= Len(usages')
    <2>1. Within(call[c], lines, usages)
        BY WithinOfCalls
    <2>2. \A w \in Wallets : Len(usages) <= Len(usages')
        BY UsedNext
    <2>3. UNCHANGED usages \/ Wallets # {}
        BY UsagesGrow DEF CallRecord
    <2> QED
        BY <2>1, <2>2, <2>3, TableTypes
<1>1. \A w \in Wallets :
        /\ lines[w] # NoLine => lines'[w] # NoLine /\ lines'[w].max = lines[w].max
        /\ \A n \in 0..Len(usages) : UsedIn(usages', w, n) = UsedIn(usages, w, n)
    BY LinesStay, UsedNext
\* A call that stands where it stood.
<1>2. ASSUME call'[c] = call[c] PROVE Within(call'[c], lines', usages')
  <2>1. CASE call[c] \notin CallRecord
      BY <1>2, <2>1, CallTypes DEF Within, Idle, Over
  <2>2. CASE call[c] \in CallRecord
      BY <1>0, <1>1, <1>2, <2>2 DEF Within, CallRecord
  <2> QED
      BY <2>1, <2>2
\* A call that ends, or goes where nothing has been read yet.
<1>3. ASSUME call'[c].at \in {"over", "line", "volume", "create"}
      PROVE  Within(call'[c], lines', usages')
    BY <1>3 DEF Within
<1>4. ASSUME NEW next, call' = [call EXCEPT ![c] = next] PROVE call'[c] = next
    BY <1>4 DEF TypeOK
<1>5. ASSUME NEW w \in Wallets, NEW amount \in Asked, AskAdvance(c, w, amount)
      PROVE  Within(call'[c], lines', usages')
    BY <1>3, <1>4, <1>5 DEF AskAdvance, Move, At, Over
<1>6. ASSUME NEW w \in Wallets, NEW amount \in Asked, AskRepayment(c, w, amount)
      PROVE  Within(call'[c], lines', usages')
  <2>1. /\ Used(w) \in Nat /\ Used(w) = UsedIn(usages, w, Len(usages)) /\ amount \in Nat
        /\ UNCHANGED <<lines, usages>>
      BY <1>0, <1>6, UsedType, UsedAsPrefix, AmountAssumption
         DEF AskRepayment, tables, TableIsSequence, UsedOfTable
  <2>2. CASE lines[w] # NoLine /\ Used(w) > 0
    <3>1. call'[c] = At("post", w, "REPAYMENT", Lesser(amount, Used(w)), Len(usages))
        BY <1>4, <1>6, <2>2 DEF AskRepayment, Move
    <3> QED
        BY <1>0, <2>1, <2>2, <3>1 DEF Within, At, Lesser
  <2>3. CASE ~(lines[w] # NoLine /\ Used(w) > 0)
      BY <1>3, <1>4, <1>6, <2>3 DEF AskRepayment, Move, Over
  <2> QED
      BY <2>2, <2>3
<1>7. ASSUME FindLine(c) PROVE Within(call'[c], lines', usages')
  <2>1. call[c] \in CallRecord /\ UNCHANGED <<lines, usages>>
      BY <1>7, CallTypes DEF FindLine, tables
  <2>2. call'[c] = [call[c] EXCEPT !.at = IF lines[call[c].wallet] = NoLine THEN "volume" ELSE "used"]
      BY <1>4, <1>7 DEF FindLine, Move
  <2> QED
      BY <2>1, <2>2 DEF Within, CallRecord
<1>8. ASSUME ReadVolume(c) PROVE Within(call'[c], lines', usages')
  <2>1. call[c] \in CallRecord
      BY <1>8, CallTypes DEF ReadVolume
  <2>2. call'[c] = [call[c] EXCEPT !.at = "create",
                                   !.seen = settled[call[c].wallet] * PaymentAmount]
      BY <1>4, <1>8 DEF ReadVolume, Move
  <2> QED
      BY <1>3, <2>1, <2>2 DEF CallRecord
<1>9. ASSUME CreateLine(c) PROVE Within(call'[c], lines', usages')
  <2>1. call[c] \in CallRecord
      BY <1>9, CallTypes DEF CreateLine
  <2> DEFINE w == call[c].wallet
  <2>2. CASE lines[w] # NoLine
      BY <1>3, <1>4, <1>9, <2>2 DEF CreateLine, Move, Over
  <2>3. CASE lines[w] = NoLine
    <3>1. call'[c] = [call[c] EXCEPT !.at = "used", !.seen = 0]
        BY <1>4, <1>9, <2>3 DEF CreateLine, Move
    <3>2. lines'[w] # NoLine
        BY <1>9, <2>1, <2>3, TableTypes DEF CreateLine, ScoreTypes, CallRecord, Line, NoLine
    <3> QED
        BY <2>1, <3>1, <3>2 DEF Within, CallRecord
  <2> QED
      BY <2>2, <2>3
<1>10. ASSUME ReadUsed(c) PROVE Within(call'[c], lines', usages')
  <2> DEFINE w == call[c].wallet
             effective == Lesser(call[c].amount, lines[w].max - Used(w))
  <2>1. call[c] \in CallRecord /\ w \in Wallets /\ lines[w] # NoLine /\ lines[w].max \in Nat
        /\ UNCHANGED <<lines, usages>>
      BY <1>0, <1>10, CallTypes, TableTypes
         DEF ReadUsed, Within, CallRecord, ScoreTypes, LineRecord, tables
  <2>2. Used(w) \in Nat /\ Used(w) = UsedIn(usages, w, Len(usages))
      BY <1>0, <2>1, UsedType, UsedAsPrefix DEF TableIsSequence, UsedOfTable
  <2>3. effective <= lines[w].max - Used(w)
      BY <2>1, <2>2 DEF Lesser, CallRecord
  <2>4. CASE effective > 0
    <3>1. call'[c] = At("post", w, "ADVANCE", effective, Len(usages))
        BY <1>4, <1>10, <2>4 DEF ReadUsed, Move
    <3> HIDE DEF w, effective
    <3> QED
        BY <1>0, <2>1, <2>2, <2>3, <3>1 DEF Within, At
  <2>5. CASE ~(effective > 0)
      BY <1>3, <1>4, <1>10, <2>5 DEF ReadUsed, Move, Over
  <2> QED
      BY <2>4, <2>5
<1>11. ASSUME PostUsage(c) PROVE Within(call'[c], lines', usages')
  <2>1. call[c] \in CallRecord /\ call[c].at = "post" /\ UNCHANGED <<lines, usages>>
      BY <1>11, CallTypes DEF PostUsage
  <2>2. call'[c] = [call[c] EXCEPT !.at = "record"]
      BY <1>4, <1>11 DEF PostUsage, Move
  <2> QED
      BY <1>0, <2>1, <2>2 DEF Within, CallRecord
<1>12. ASSUME RecordUsage(c) \/ CallFails(c) PROVE Within(call'[c], lines', usages')
  <2>1. call'[c] = Over
      BY <1>4, <1>12 DEF RecordUsage, CallFails, Move
  <2> QED
      BY <1>3, <2>1 DEF Over
<1>13. ASSUME NEW d \in Calls, d # c, NEW next, Move(d, next) PROVE call'[c] = call[c]
    BY <1>13 DEF Move, TypeOK
<1>14. CASE call' = call
    BY <1>2, <1>14
<1> QED
    BY <1>2, <1>5, <1>6, <1>7, <1>8, <1>9, <1>10, <1>11, <1>12, <1>13, <1>14
       DEF Next, vars, AskAdvance, AskRepayment, FindLine, ReadVolume, CreateLine, ReadUsed,
           PostUsage, RecordUsage, CallFails, FreezeLine, PaymentSettles, PaymentChargedBack

\* A wallet without a line has no usages, and its used amount is zero.
LEMMA NothingUsed ==
    ASSUME TypeOK, NEW w \in Wallets, lines[w] = NoLine
    PROVE  SignedUsages(w) = 0
<1> DEFINE f == [i \in 1..Len(usages) |-> Signed(usages[i], w)]
<1>1. \A i \in 1..Len(usages) : usages[i].wallet # w
    BY TableTypes
<1>2. SignedUsages(w) = SumFunction(f)
    BY TableTypes DEF SignedUsages
<1>3. (\A i \in 1..Len(usages) : f[i] = 0) /\ f \in [1..Len(usages) -> Int]
      /\ Len(usages) \in Nat
    BY <1>1, TableTypes DEF Signed
<1> HIDE DEF f
<1>4. IsFiniteSet(1..Len(usages))
    BY <1>3, FS_Interval
<1>5. SumFunctionOnSet(f, 1..Len(usages)) = 0
    BY <1>3, <1>4, SumOfZeros
<1> QED
    BY <1>2, <1>3, <1>5, SumIsInt

\* Past the overlaps, the used amount stays within the line: the call that records an
\* advance read all the usages of its wallet that there are.
LEMMA OverdrawnStep ==
    ASSUME TypeOK, WithinWhatWasRead, OverdrawnOnlyByOverlap, [Next]_vars
    PROVE  OverdrawnOnlyByOverlap'
<1> SUFFICES ASSUME NEW w \in Wallets, lines'[w] # NoLine, ~Overlapped(w)'
             PROVE  ~(Used(w)' > lines'[w].max)
    BY DEF OverdrawnOnlyByOverlap
<1>0. TypeOK'
    BY TypeStep
<1>1. lines'[w].max \in Nat
    BY <1>0 DEF TypeOK
<1>2. SignedUsages(w) \in Int /\ Used(w) \in Nat /\ ~Overlapped(w)
    BY UsedType, UsedNext
<1>3. CASE lines[w] = NoLine
  <2>1. SignedUsages(w)' = SignedUsages(w)
    <3>1. ASSUME NEW c \in Calls, RecordUsage(c) PROVE call[c].wallet # w
        BY <1>3, <3>1, WithinOfCalls DEF Within, RecordUsage
    <3> QED
        BY <1>2, <3>1, UsedNext DEF Signed
  <2> QED
      BY <1>1, <1>3, <2>1, NothingUsed DEF Used
<1>4. CASE lines[w] # NoLine
  <2>1. lines'[w].max = lines[w].max /\ ~(Used(w) > lines[w].max)
      BY <1>2, <1>4, LinesStay DEF OverdrawnOnlyByOverlap
  <2>2. CASE SignedUsages(w)' = SignedUsages(w)
      BY <2>1, <2>2 DEF Used
  <2>3. ASSUME NEW c \in Calls, RecordUsage(c), call[c] \in CallRecord,
               SignedUsages(w)' = SignedUsages(w) + Signed(call[c], w),
               call[c].wallet = w => UsedIn(usages, w, call[c].seen) = Used(w)
        PROVE  ~(Used(w)' > lines'[w].max)
    <3>1. call[c].wallet = w /\ call[c].type = "ADVANCE"
            => call[c].amount <= lines[w].max - Used(w)
        BY <2>3, WithinOfCalls DEF Within, RecordUsage
    <3>2. call[c].amount \in Nat
        BY <2>3 DEF CallRecord
    <3>3. Signed(call[c], w) <= 0 \/ Signed(call[c], w) <= lines[w].max - Used(w)
        BY <3>1, <3>2 DEF Signed
    <3>4. Signed(call[c], w) \in Int
        BY <3>2 DEF Signed
    <3> QED
        BY <1>1, <1>2, <2>1, <2>3, <3>3, <3>4 DEF Used
  <2> QED
      BY <2>2, <2>3, UsedNext
<1> QED
    BY <1>3, <1>4

\* And a repayment past the overlaps is of no more than there is to repay.
LEMMA OverpaidStep ==
    ASSUME TypeOK, WithinWhatWasRead, OverpaidOnlyByOverlap, [Next]_vars
    PROVE  OverpaidOnlyByOverlap'
<1> SUFFICES ASSUME NEW w \in Wallets, ~Overlapped(w)'
             PROVE  ~(SignedUsages(w)' < 0)
    BY DEF OverpaidOnlyByOverlap
<1>1. SignedUsages(w) \in Int /\ SignedUsages(w) >= 0 /\ Used(w) = SignedUsages(w)
    BY UsedType, UsedNext DEF OverpaidOnlyByOverlap, Used
<1>2. ASSUME NEW c \in Calls, RecordUsage(c), call[c] \in CallRecord,
             SignedUsages(w)' = SignedUsages(w) + Signed(call[c], w),
             call[c].wallet = w => UsedIn(usages, w, call[c].seen) = Used(w)
      PROVE  ~(SignedUsages(w)' < 0)
  <2>1. call[c].wallet = w /\ call[c].type # "ADVANCE" => call[c].amount <= Used(w)
      BY <1>2, WithinOfCalls DEF Within, RecordUsage
  <2>2. call[c].amount \in Nat
      BY <1>2 DEF CallRecord
  <2>3. Signed(call[c], w) \in Int /\ Signed(call[c], w) >= -Used(w)
      BY <1>1, <2>1, <2>2 DEF Signed
  <2> QED
      BY <1>1, <1>2, <2>3
<1> QED
    BY <1>1, <1>2, UsedNext

-----------------------------------------------------------------------------
(***************************************************************************)
(* The ledger and the usages                                               *)
(***************************************************************************)

\* Every row of this ledger is posted and adds a whole number to an account.
LEMMA RowNet ==
    ASSUME NEW account
    PROVE  \A row \in Row : row.status = "POSTED" /\ NetOn(row, account) \in Int
<1> SUFFICES ASSUME NEW row \in Row PROVE NetOn(row, account) \in Int
    BY DEF Row
<1>1. row.entries \in Seq([account : Wallets \X {"CREDIT", "PAYABLE"}, amount : Int])
    BY DEF Row
<1>2. [entries |-> NegatedEntries(row.entries)].entries = NegatedEntries(row.entries)
    OBVIOUS
<1> QED
    BY <1>1, <1>2, NetOfReversal

\* What a call has posted for a wallet and not recorded yet.
Posted(record, w) == IF record.at = "record" THEN Signed(record, w) ELSE 0

LEMMA UnrecordedNext ==
    ASSUME TypeOK, NEW w \in Wallets, NEW c \in Calls,
           NEW next \in {Idle, Over} \cup CallRecord, Move(c, next)
    PROVE  /\ Unrecorded(w) \in Int
           /\ Unrecorded(w)' = Unrecorded(w) + Posted(next, w) - Posted(call[c], w)
<1> DEFINE f == [d \in Calls |-> Posted(call[d], w)]
           h == [d \in Calls |-> Posted(call'[d], w)]
<1>1. /\ call \in [Calls -> {Idle, Over} \cup CallRecord]
      /\ call' \in [Calls -> {Idle, Over} \cup CallRecord]
      /\ call'[c] = next /\ \A d \in Calls \ {c} : call'[d] = call[d]
    BY MoveType DEF TypeOK
<1>2. \A record \in {Idle, Over} \cup CallRecord : Posted(record, w) \in Int
    BY DEF Posted, Signed, Idle, Over, CallRecord
<1>3. Unrecorded(w) = SumFunction(f) /\ Unrecorded(w)' = SumFunction(h)
    BY DEF Unrecorded, Posted
<1>4. SumFunction(f) = SumFunctionOnSet(f, Calls) /\ SumFunction(h) = SumFunctionOnSet(h, Calls)
    BY DEF SumFunction
<1>5. /\ \A d \in Calls : f[d] \in Int /\ h[d] \in Int
      /\ \A d \in Calls \ {c} : h[d] = f[d]
      /\ f[c] = Posted(call[c], w) /\ h[c] = Posted(next, w)
    BY <1>1, <1>2
<1> HIDE DEF f, h
<1>6. SumFunctionOnSet(f, Calls) \in Int
    BY <1>5, SumRemove, CallAssumption
<1>7. SumFunctionOnSet(h, Calls) = SumFunctionOnSet(f, Calls) + h[c] - f[c]
    BY <1>5, SumChange, CallAssumption
<1> QED
    BY <1>3, <1>4, <1>5, <1>6, <1>7

\* The row a usage posts adds its signed amount to the wallet's CREDIT account.
LEMMA NetOfUsage ==
    ASSUME NEW w \in Wallets, NEW record \in CallRecord
    PROVE  NetOn(UsageRow(record.wallet, record.type, record.amount), Account(w, "CREDIT"))
             = Signed(record, w)
<1> DEFINE v == record.wallet
           signed == IF record.type = "ADVANCE" THEN record.amount ELSE -record.amount
           row == UsageRow(v, record.type, record.amount)
<1>1. signed \in Int
    BY DEF CallRecord
<1>2. row.entries = <<Entry(Account(v, "CREDIT"), signed), Entry(Account(v, "PAYABLE"), -signed)>>
    BY DEF UsageRow, Transaction
<1>3. /\ (Account(w, "CREDIT") = Account(v, "CREDIT")) <=> (v = w)
      /\ Account(w, "CREDIT") # Account(v, "PAYABLE")
    BY DEF Account
<1>4. Signed(record, w) = IF v = w THEN signed ELSE 0
    BY DEF Signed
<1> HIDE DEF v, signed, row
<1>5. NetOn(row, Account(w, "CREDIT")) =
        (IF Account(w, "CREDIT") = Account(v, "CREDIT") THEN signed ELSE 0)
        + (IF Account(w, "CREDIT") = Account(v, "PAYABLE") THEN -signed ELSE 0)
    BY <1>1, <1>2, NetOfTwo
<1> QED
    BY <1>1, <1>3, <1>4, <1>5 DEF row, v

\* Posting, recording and failing each keep the ledger and the usages together.
LEMMA AgreeStep ==
    ASSUME TypeOK, WithinWhatWasRead, LedgerAgreesWithUsages, [Next]_vars
    PROVE  LedgerAgreesWithUsages'
<1> SUFFICES ASSUME failures' = 0, NEW w \in Wallets
             PROVE  Balance(ledger', Account(w, "CREDIT")) = SignedUsages(w)' + Unrecorded(w)'
    BY DEF LedgerAgreesWithUsages
<1> DEFINE account == Account(w, "CREDIT")
<1>0. \A c \in Calls : ~CallFails(c)
    BY DEF CallFails, TypeOK
<1>1. failures = 0
    BY <1>0 DEF Next, vars, tables, AskAdvance, AskRepayment, FindLine, ReadVolume, CreateLine,
       ReadUsed, PostUsage, RecordUsage, FreezeLine, PaymentSettles, PaymentChargedBack
<1>2. Balance(ledger, account) = SignedUsages(w) + Unrecorded(w)
    BY <1>1 DEF LedgerAgreesWithUsages
<1>3. SignedUsages(w) \in Int
    BY UsedType
\* A call that moves and writes to neither table.
<1>4. ASSUME NEW c \in Calls, NEW next, Move(c, next), next.at # "record",
             call[c].at # "record", UNCHANGED <<ledger, usages>>
      PROVE  Balance(ledger', account) = SignedUsages(w)' + Unrecorded(w)'
  <2>1. next \in {Idle, Over} \cup CallRecord
    <3>1. call'[c] = next
        BY <1>4 DEF Move, TypeOK
    <3> QED
        BY <3>1, TypeStep DEF TypeOK
  <2>2. Unrecorded(w)' = Unrecorded(w) /\ Unrecorded(w) \in Int
      BY <1>4, <2>1, UnrecordedNext DEF Posted
  <2> QED
      BY <1>2, <1>4, <2>2 DEF SignedUsages
<1>5. ASSUME NEW c \in Calls,
             \/ \E v \in Wallets, amount \in Asked : AskAdvance(c, v, amount) \/ AskRepayment(c, v, amount)
             \/ FindLine(c) \/ ReadVolume(c) \/ CreateLine(c) \/ ReadUsed(c)
      PROVE  \E next : Move(c, next) /\ next.at # "record" /\ call[c].at # "record"
                       /\ UNCHANGED <<ledger, usages>>
  <2>1. ASSUME NEW v \in Wallets, NEW amount \in Asked, AskAdvance(c, v, amount)
        PROVE  \E next : Move(c, next) /\ next.at # "record" /\ call[c].at # "record"
                         /\ UNCHANGED <<ledger, usages>>
    <3>1. CASE Approved(v, amount) > 0
        BY <2>1, <3>1 DEF AskAdvance, tables, At, Idle
    <3>2. CASE ~(Approved(v, amount) > 0)
        BY <2>1, <3>2 DEF AskAdvance, tables, Over, Idle
    <3> QED
        BY <3>1, <3>2
  <2>2. ASSUME NEW v \in Wallets, NEW amount \in Asked, AskRepayment(c, v, amount)
        PROVE  \E next : Move(c, next) /\ next.at # "record" /\ call[c].at # "record"
                         /\ UNCHANGED <<ledger, usages>>
    <3>1. CASE lines[v] # NoLine /\ Used(v) > 0
        BY <2>2, <3>1 DEF AskRepayment, tables, At, Idle
    <3>2. CASE ~(lines[v] # NoLine /\ Used(v) > 0)
        BY <2>2, <3>2 DEF AskRepayment, tables, Over, Idle
    <3> QED
        BY <3>1, <3>2
  <2>3. CASE FindLine(c)
      BY <2>3, CallTypes DEF FindLine, tables, CallRecord
  <2>4. CASE ReadVolume(c)
      BY <2>4, CallTypes DEF ReadVolume, tables, CallRecord
  <2>5. CASE CreateLine(c)
    <3>1. call[c] \in CallRecord /\ call[c].at # "record" /\ UNCHANGED <<ledger, usages>>
        BY <2>5, CallTypes DEF CreateLine
    <3>2. Move(c, [call[c] EXCEPT !.at = "used", !.seen = 0]) \/ Move(c, Over)
        BY <2>5 DEF CreateLine
    <3>3. [call[c] EXCEPT !.at = "used", !.seen = 0].at # "record" /\ Over.at # "record"
        BY <3>1 DEF CallRecord, Over
    <3> QED
        BY <3>1, <3>2, <3>3
  <2>6. CASE ReadUsed(c)
    <3> DEFINE v == call[c].wallet
               effective == Lesser(call[c].amount, lines[v].max - Used(v))
    <3>1. CASE effective > 0
        BY <2>6, <3>1 DEF ReadUsed, tables, At
    <3>2. CASE ~(effective > 0)
        BY <2>6, <3>2 DEF ReadUsed, tables, Over
    <3> QED
        BY <3>1, <3>2
  <2> QED
      BY <1>5, <2>1, <2>2, <2>3, <2>4, <2>5, <2>6
<1>6. ASSUME NEW c \in Calls, PostUsage(c)
      PROVE  Balance(ledger', account) = SignedUsages(w)' + Unrecorded(w)'
  <2> DEFINE row == UsageRow(call[c].wallet, call[c].type, call[c].amount)
             next == [call[c] EXCEPT !.at = "record"]
  <2>1. call[c] \in CallRecord /\ next \in CallRecord /\ Signed(next, w) = Signed(call[c], w)
      BY <1>6, CallTypes DEF PostUsage, CallRecord, Signed
  <2>2. row \in Row /\ NetOn(row, account) = Signed(call[c], w)
      BY <2>1, UsageRowType, NetOfUsage DEF CallRecord
  <2>3. ledger' = Append(ledger, row) /\ Move(c, next) /\ call[c].at = "post"
        /\ SignedUsages(w)' = SignedUsages(w)
      BY <1>6 DEF PostUsage, SignedUsages
  <2>4. Posted(next, w) = Signed(call[c], w) /\ Posted(call[c], w) = 0
      BY <2>1, <2>3 DEF Posted, CallRecord
  <2>5. Signed(call[c], w) \in Int
      BY <2>1 DEF Signed, CallRecord
  <2> HIDE DEF row, next
  <2>6. Unrecorded(w)' = Unrecorded(w) + Signed(call[c], w) /\ Unrecorded(w) \in Int
      BY <2>1, <2>3, <2>4, <2>5, UnrecordedNext
  <2>7. Balance(ledger', account) = Balance(ledger, account) + NetOn(row, account)
    <3>1. ledger \in Seq(Row)
        BY DEF TypeOK
    <3>2. \A r \in Row : r.status = "POSTED" /\ NetOn(r, account) \in Int
        BY RowNet
    <3> HIDE DEF account
    <3> QED
        BY <2>2, <2>3, <3>1, <3>2, BalanceOfAppend
  <2> QED
      BY <1>2, <1>3, <2>2, <2>3, <2>5, <2>6, <2>7
<1>7. ASSUME NEW c \in Calls, RecordUsage(c)
      PROVE  Balance(ledger', account) = SignedUsages(w)' + Unrecorded(w)'
  <2>1. PICK d \in Calls : /\ RecordUsage(d) /\ call[d] \in CallRecord /\ call[d].at = "record"
                           /\ SignedUsages(w)' = SignedUsages(w) + Signed(call[d], w)
      BY <1>7, UsedNext
  <2>2. Move(d, Over) /\ ledger' = ledger
      BY <2>1 DEF RecordUsage
  <2>3. Posted(Over, w) = 0 /\ Posted(call[d], w) = Signed(call[d], w)
        /\ Signed(call[d], w) \in Int
      BY <2>1 DEF Posted, Over, Signed, CallRecord
  <2>4. Unrecorded(w)' = Unrecorded(w) - Signed(call[d], w) /\ Unrecorded(w) \in Int
      BY <2>2, <2>3, UnrecordedNext
  <2> QED
      BY <1>2, <1>3, <2>1, <2>2, <2>3, <2>4
<1>8. ASSUME UNCHANGED <<ledger, usages, call>>
      PROVE  Balance(ledger', account) = SignedUsages(w)' + Unrecorded(w)'
    BY <1>2, <1>8 DEF SignedUsages, Unrecorded
<1> HIDE DEF account
<1>9. CASE \E c \in Calls :
             \/ \E v \in Wallets, amount \in Asked : AskAdvance(c, v, amount) \/ AskRepayment(c, v, amount)
             \/ FindLine(c) \/ ReadVolume(c) \/ CreateLine(c) \/ ReadUsed(c)
    BY <1>4, <1>5, <1>9 DEF account
<1>10. CASE \/ \E v \in Wallets : FreezeLine(v) \/ PaymentSettles(v) \/ PaymentChargedBack(v)
            \/ UNCHANGED vars
    BY <1>8, <1>10 DEF account, FreezeLine, PaymentSettles, PaymentChargedBack, vars
<1> QED
    BY <1>0, <1>6, <1>7, <1>9, <1>10 DEF Next, account

-----------------------------------------------------------------------------
(***************************************************************************)
(* The theorems                                                            *)
(***************************************************************************)
LEMMA InitHolds == Init => IInv
<1> SUFFICES ASSUME Init PROVE IInv
    OBVIOUS
<1> USE AmountAssumption
<1>1. ScoresOnScale
  <2>1. ScoreTypes
      BY DEF Init, ScoreTypes
  <2> QED
      BY <2>1, ScoreRange
<1>2. TypeOK
    BY <1>1 DEF Init, TypeOK, ScoresOnScale, Idle
<1>3. WithinWhatWasRead
    BY DEF Init, WithinWhatWasRead, Idle
<1>4. \A w \in Wallets : lines[w] = NoLine /\ SignedUsages(w) = 0
    BY <1>2, NothingUsed DEF Init
<1>5. OverdrawnOnlyByOverlap /\ OverpaidOnlyByOverlap
    BY <1>4 DEF OverdrawnOnlyByOverlap, OverpaidOnlyByOverlap
<1>6. LedgerAgreesWithUsages
  <2> SUFFICES ASSUME NEW w \in Wallets
               PROVE  Balance(ledger, Account(w, "CREDIT")) = SignedUsages(w) + Unrecorded(w)
      BY DEF LedgerAgreesWithUsages
  <2> DEFINE f == [c \in Calls |-> IF call[c].at = "record" THEN Signed(call[c], w) ELSE 0]
  <2>1. Balance(ledger, Account(w, "CREDIT")) = 0
      BY SumOfNone DEF Init, Balance
  <2>2. Unrecorded(w) = SumFunctionOnSet(f, Calls) /\ \A c \in Calls : f[c] = 0
      BY DEF Init, Unrecorded, SumFunction, Idle
  <2> HIDE DEF f
  <2>3. Unrecorded(w) = 0
      BY <2>2, SumOfZeros, CallAssumption
  <2> QED
      BY <1>4, <2>1, <2>3
<1> QED
    BY <1>2, <1>3, <1>5, <1>6 DEF IInv

\* The inductive invariant holds in every state.
THEOREM Invariant == Spec => []IInv
<1>1. IInv /\ [Next]_vars => IInv'
    BY TypeStep, WithinStep, OverdrawnStep, OverpaidStep, AgreeStep DEF IInv
<1> QED
    BY InitHolds, <1>1, PTL DEF Spec

\* Every row, line and call is of its type, and every score on the 0-100 scale that
\* risk-assessment.service.ts names.
THEOREM TypeCorrect == Spec => []TypeOK
<1>1. IInv => TypeOK
    BY DEF IInv
<1> QED
    BY <1>1, Invariant, PTL

\* requestCreditAdvance exceeds a line only when its read of the used amount and its
\* record of the usage enclose another call's record.
THEOREM OverdrawsByOverlap == Spec => []OverdrawnOnlyByOverlap
<1>1. IInv => OverdrawnOnlyByOverlap
    BY DEF IInv
<1> QED
    BY <1>1, Invariant, PTL

\* And reconcileCredit repays more than is outstanding only then.
THEOREM OverpaysByOverlap == Spec => []OverpaidOnlyByOverlap
<1>1. IInv => OverpaidOnlyByOverlap
    BY DEF IInv
<1> QED
    BY <1>1, Invariant, PTL

\* As long as no statement fails, CREDIT on the ledger is what the usages and the calls
\* that posted and have not recorded yet add up to.
THEOREM LedgerAgrees == Spec => []LedgerAgreesWithUsages
<1>1. IInv => LedgerAgreesWithUsages
    BY DEF IInv
<1> QED
    BY <1>1, Invariant, PTL

=============================================================================
