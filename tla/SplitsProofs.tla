---------------------------- MODULE SplitsProofs ----------------------------
(***************************************************************************)
(* The invariants of Splits, for orders of any amount and ratios, any      *)
(* number of participants, and any places below the column's.              *)
(***************************************************************************)
EXTENDS Splits, LedgerOpsProofs

EntryRecord == [account : Wallets \X {"CASH", "PAYABLE", "FEE"}, amount : Int]

-----------------------------------------------------------------------------
(***************************************************************************)
(* The shares                                                              *)
(***************************************************************************)

\* The participants of an order that can be split, and their ratios.
LEMMA Ratios ==
    ASSUME NEW o, WellFormed(o), Splittable(o)
    PROVE  LET ps == o.participants
               ratio == [i \in DOMAIN ps |-> ps[i].ratio]
           IN  /\ DOMAIN ps = 1..Len(ps) /\ Len(ps) \in Nat /\ IsFiniteSet(DOMAIN ps)
               /\ Cardinality(DOMAIN ps) = Len(ps)
               /\ \A i \in DOMAIN ps : ps[i].ratio \in Nat
               /\ RatioSum(ps) = SumFunctionOnSet(ratio, DOMAIN ps)
               /\ RatioSum(ps) \in Nat \ {0}
               /\ DOMAIN ps # {}
<1> DEFINE ps == o.participants
           ratio == [i \in DOMAIN ps |-> ps[i].ratio]
           R == RatioSum(ps)
<1>1. ps \in Seq(Range(ps)) /\ \A x \in Range(ps) : x.ratio \in Nat
    BY DEF WellFormed
<1>2. DOMAIN ps = 1..Len(ps) /\ Len(ps) \in Nat /\ \A i \in DOMAIN ps : ps[i] \in Range(ps)
    BY <1>1, LenProperties DEF Range
<1>3. IsFiniteSet(1..Len(ps)) /\ Cardinality(1..Len(ps)) = Len(ps)
    BY <1>2, FS_Interval
<1>4. R = SumFunctionOnSet(ratio, DOMAIN ps) /\ R # 0
    BY DEF RatioSum, SumFunction, Splittable
<1>5. IsFiniteSet(DOMAIN ps) /\ \A i \in DOMAIN ps : ratio[i] \in Nat /\ ps[i].ratio \in Nat
    BY <1>1, <1>2, <1>3
<1> HIDE DEF ratio, R
<1>6. R \in Nat
    BY <1>4, <1>5, SumOfNaturals
<1>7. DOMAIN ps # {}
    BY <1>4, <1>5, SumRemove
<1> QED
    BY <1>2, <1>3, <1>4, <1>5, <1>6, <1>7 DEF R, ratio

\* The fee is a whole number of units, within the amount.
LEMMA FeeIs ==
    ASSUME NEW o, WellFormed(o), Splittable(o)
    PROVE  \E q \in Nat : Fee(o) = Scale * q /\ Scale * q \in Nat /\ Scale * q <= o.amount
<1> DEFINE fee == o.feeRatio
           a == o.amount
           R == RatioSum(o.participants)
           q == (a * fee) \div (Whole * Scale)
<1>1. a \in Nat /\ fee \in Nat /\ Whole \in Nat \ {0} /\ Scale \in Nat \ {0}
    BY ScaleAssumption DEF WellFormed
<1>2. R \in Nat /\ R + fee = Whole
    BY Ratios DEF Splittable
<1>3. Fee(o) = 0 \/ Fee(o) = Scale * q
    BY DEF Fee, ShareOf
<1> HIDE DEF q, a, fee, R
<1>4. a * fee \in Nat /\ a * fee <= a * Whole
    BY <1>1, <1>2
<1>5. q \in Nat /\ Whole * (Scale * q) <= a * fee
    BY <1>1, <1>4, CutDown DEF q
<1>6. Scale * q \in Nat /\ Scale * 0 = 0
    BY <1>1, <1>5
<1>7. Whole * (Scale * q) <= Whole * a
    BY <1>1, <1>4, <1>5, <1>6
<1>8. Scale * q <= a
    BY <1>1, <1>6, <1>7, Cancel
<1>9. CASE Fee(o) = 0
    BY <1>1, <1>6, <1>9 DEF a
<1>10. CASE Fee(o) = Scale * q
    BY <1>5, <1>6, <1>8, <1>10 DEF a
<1> QED
    BY <1>3, <1>9, <1>10

\* Of the participants with the largest ratio there is a first.
LEMMA LargestIs ==
    ASSUME NEW o, WellFormed(o), Splittable(o)
    PROVE  LET ps == o.participants
               l == LargestShare(ps)
           IN  l \in DOMAIN ps /\ \A j \in DOMAIN ps : ps[j].ratio <= ps[l].ratio
<1> DEFINE ps == o.participants
           ratio == [i \in DOMAIN ps |-> ps[i].ratio]
           bound == SumFunctionOnSet(ratio, DOMAIN ps)
<1>1. /\ DOMAIN ps = 1..Len(ps) /\ Len(ps) \in Nat /\ IsFiniteSet(DOMAIN ps) /\ DOMAIN ps # {}
      /\ \A i \in DOMAIN ps : ratio[i] \in Nat /\ ratio[i] = ps[i].ratio
    BY Ratios
<1> HIDE DEF ratio
<1>2. bound \in Nat /\ \A i \in DOMAIN ps : ratio[i] \in Nat /\ ratio[i] <= bound
    BY <1>1, SumOfNaturals
<1> HIDE DEF bound
<1>3. PICK i \in DOMAIN ps : \A j \in DOMAIN ps : ratio[j] <= ratio[i]
    BY <1>1, <1>2, GreatestOf
<1> DEFINE T == {k \in DOMAIN ps : ratio[k] = ratio[i]}
<1>4. PICK k \in T : \A j \in T : k <= j
  <2>1. T \subseteq Nat /\ T # {}
      BY <1>1, <1>3
  <2> QED
      BY <2>1, LeastNatural
<1>5. ASSUME NEW j \in DOMAIN ps
      PROVE  ps[j].ratio < ps[k].ratio \/ (ps[j].ratio = ps[k].ratio /\ k <= j)
    BY <1>1, <1>3, <1>4
<1>6. \E m \in DOMAIN ps : \A j \in DOMAIN ps :
          \/ ps[j].ratio < ps[m].ratio
          \/ ps[j].ratio = ps[m].ratio /\ m <= j
    BY <1>5
<1> DEFINE l == LargestShare(ps)
<1>7. l \in DOMAIN ps /\ \A j \in DOMAIN ps :
          \/ ps[j].ratio < ps[l].ratio
          \/ ps[j].ratio = ps[l].ratio /\ l <= j
    BY <1>6 DEF LargestShare
<1> HIDE DEF l
<1>8. \A j \in DOMAIN ps : ps[j].ratio \in Nat
    BY <1>1
<1> QED
    BY <1>7, <1>8 DEF l

\* What each participant gets: its fraction cut down, and the first of the largest what
\* the cuts left.
LEMMA SharesAre ==
    ASSUME NEW o, WellFormed(o), Splittable(o)
    PROVE  LET ps == o.participants
               total == o.amount - Fee(o)
               R == RatioSum(ps)
               unit == R * Scale
               cut == [i \in DOMAIN ps |-> ShareOf(total, ps[i].ratio, R)]
               rest == total - SumFunctionOnSet(cut, DOMAIN ps)
               l == LargestShare(ps)
           IN  /\ total \in Nat /\ rest \in Nat
               /\ \A i \in DOMAIN ps : /\ cut[i] \in Nat
                                       /\ -unit < R * cut[i] - total * ps[i].ratio
                                       /\ R * cut[i] - total * ps[i].ratio <= 0
               /\ 0 <= R * (cut[l] + rest) - total * ps[l].ratio
               /\ R * (cut[l] + rest) - total * ps[l].ratio < Len(ps) * unit
               /\ DOMAIN Shares(o) = DOMAIN ps
               /\ \A i \in DOMAIN ps : Shares(o)[i] = IF i = l THEN cut[l] + rest ELSE cut[i]
<1> DEFINE ps == o.participants
           total == o.amount - Fee(o)
           R == RatioSum(ps)
           ratio == [i \in DOMAIN ps |-> ps[i].ratio]
           cut == [i \in DOMAIN ps |-> ShareOf(total, ps[i].ratio, R)]
           rest == total - SumFunctionOnSet(cut, DOMAIN ps)
           l == LargestShare(ps)
<1>1. /\ IsFiniteSet(DOMAIN ps) /\ Cardinality(DOMAIN ps) = Len(ps)
      /\ \A i \in DOMAIN ps : ratio[i] \in Nat /\ ratio[i] = ps[i].ratio
      /\ R \in Nat \ {0} /\ SumFunctionOnSet(ratio, DOMAIN ps) = R
    BY Ratios
<1>2. total \in Nat /\ Scale \in Nat \ {0}
    BY FeeIs, ScaleAssumption DEF WellFormed
<1>3. l \in DOMAIN ps
    BY LargestIs
<1>4. \A i \in DOMAIN ps : cut[i] = CutOf(total, ratio[i], R, Scale)
    BY <1>1 DEF ShareOf, CutOf
<1>5. Shares(o) = [cut EXCEPT ![l] = @ + total - SumFunction(cut)]
      /\ SumFunction(cut) = SumFunctionOnSet(cut, DOMAIN ps) /\ DOMAIN cut = DOMAIN ps
    BY DEF Shares, Distribute, SumFunction
<1> HIDE DEF cut, R, total, ratio, l
<1>6. /\ \A x \in DOMAIN ps : /\ cut[x] \in Nat
                              /\ -(R * Scale) < R * cut[x] - total * ratio[x]
                              /\ R * cut[x] - total * ratio[x] <= 0
      /\ rest \in Nat
      /\ 0 <= R * (cut[l] + rest) - total * ratio[l]
      /\ R * (cut[l] + rest) - total * ratio[l] < Len(ps) * (R * Scale)
  <2> DEFINE S == DOMAIN ps
  <2>1. S = DOMAIN ps
      OBVIOUS
  <2> HIDE DEF S
  <2>2. \A x \in S : ratio[x] \in Nat /\ cut[x] = CutOf(total, ratio[x], R, Scale)
      BY <1>1, <1>4, <2>1
  <2>3. IsFiniteSet(S) /\ total \in Nat /\ R \in Nat \ {0} /\ Scale \in Nat \ {0}
        /\ SumFunctionOnSet(ratio, S) = R
      BY <1>1, <1>2, <1>3, <2>1
  <2>4. CutShares(S, total, R, Scale, ratio, cut) /\ l \in S
      BY <1>3, <2>1, <2>2, <2>3 DEF CutShares
  <2>5. /\ \A x \in S : /\ cut[x] \in Nat
                        /\ -UnitOf(R, Scale) < Excess(cut[x], total, ratio[x], R)
                        /\ Excess(cut[x], total, ratio[x], R) <= 0
        /\ LeftOf(total, cut, S) \in Nat
        /\ 0 <= Excess(cut[l] + LeftOf(total, cut, S), total, ratio[l], R)
        /\ Excess(cut[l] + LeftOf(total, cut, S), total, ratio[l], R)
             < Cardinality(S) * UnitOf(R, Scale)
      BY <2>4, FairShares
  <2> QED
      BY <1>1, <2>1, <2>5 DEF UnitOf, Excess, LeftOf
<1>7. SumFunctionOnSet(cut, DOMAIN ps) \in Int
  <2>1. \A x \in DOMAIN ps : cut[x] \in Int
      BY <1>6
  <2> QED
      BY <1>1, <2>1, SumRemove
<1>8. cut[l] + total - SumFunctionOnSet(cut, DOMAIN ps) = cut[l] + rest
    BY <1>2, <1>3, <1>6, <1>7
<1>9. /\ DOMAIN Shares(o) = DOMAIN ps
      /\ \A i \in DOMAIN ps : Shares(o)[i] = IF i = l THEN cut[l] + rest ELSE cut[i]
    BY <1>5, <1>8
<1>10. \A i \in DOMAIN ps : ratio[i] = ps[i].ratio
    BY <1>1
<1> HIDE DEF rest
<1> QED
    BY <1>1, <1>2, <1>3, <1>6, <1>9, <1>10 DEF cut, R, total, l, rest

\* Rounding the shares to the column's places loses nothing: the share that takes the rest
\* is rounded as the whole total is.
LEMMA RoundedShares ==
    ASSUME NEW o, WellFormed(o), Splittable(o)
    PROVE  LET ps == o.participants
               total == o.amount - Fee(o)
               rounded == [i \in DOMAIN ps |-> RoundTo(Shares(o)[i], Scale)]
           IN  /\ SumFunction(Shares(o)) = total
               /\ \A i \in DOMAIN ps : Shares(o)[i] \in Nat /\ rounded[i] \in Nat
               /\ SumFunctionOnSet(rounded, DOMAIN ps) = RoundTo(total, Scale)
<1> DEFINE ps == o.participants
           S == DOMAIN ps
           total == o.amount - Fee(o)
           R == RatioSum(ps)
           k == [i \in S |-> (total * ps[i].ratio) \div (R * Scale)]
           cut == [i \in S |-> ShareOf(total, ps[i].ratio, R)]
           rest == total - SumFunctionOnSet(cut, S)
           l == LargestShare(ps)
           rounded == [i \in S |-> RoundTo(Shares(o)[i], Scale)]
           K == SumFunctionOnSet(k, S)
<1>1. /\ IsFiniteSet(S) /\ Scale \in Nat \ {0} /\ R \in Nat \ {0} /\ l \in S
      /\ \A i \in S : ps[i].ratio \in Nat
    BY Ratios, LargestIs, ScaleAssumption
<1>2. /\ total \in Nat /\ rest \in Nat /\ DOMAIN Shares(o) = S
      /\ \A i \in S : cut[i] \in Nat
      /\ \A i \in S : Shares(o)[i] = IF i = l THEN cut[l] + rest ELSE cut[i]
    BY SharesAre
<1> HIDE DEF total, R, l
<1>3. ASSUME NEW i \in S PROVE k[i] \in Nat /\ cut[i] = Scale * k[i]
  <2> DEFINE y == total * ps[i].ratio
  <2>1. y \in Nat
      BY <1>1, <1>2
  <2>2. k[i] = y \div (R * Scale) /\ cut[i] = Scale * k[i]
      BY DEF ShareOf
  <2> HIDE DEF y
  <2>3. y \div (R * Scale) \in Nat
      BY <1>1, <2>1, CutDown
  <2> QED
      BY <2>2, <2>3
<1>4. \A i \in S : rounded[i] = RoundTo(Shares(o)[i], Scale)
    OBVIOUS
<1> HIDE DEF k, cut, rounded, S
<1>5. SumFunctionOnSet(cut, S) = Scale * K
  <2>1. Scale \in Int /\ \A i \in S : k[i] \in Int /\ cut[i] = Scale * k[i]
      BY <1>1, <1>3
  <2> QED
      BY <1>1, <2>1, SumTimes
<1>6. K \in Nat
    BY <1>1, <1>3, SumOfNaturals
<1> HIDE DEF K
<1>7. total = Scale * K + rest
    BY <1>1, <1>2, <1>5, <1>6
<1>8. SumFunction(Shares(o)) = total
  <2>1. \A i \in S : cut[i] \in Int /\ Shares(o)[i] \in Int
      BY <1>1, <1>2
  <2>2. \A i \in S \ {l} : Shares(o)[i] = cut[i]
      BY <1>2
  <2>3. SumFunctionOnSet(Shares(o), S) = SumFunctionOnSet(cut, S) + Shares(o)[l] - cut[l]
      BY <1>1, <2>1, <2>2, SumChange
  <2>4. SumFunction(Shares(o)) = SumFunctionOnSet(Shares(o), S)
      BY <1>2 DEF SumFunction
  <2>5. SumFunctionOnSet(cut, S) \in Int
      BY <1>1, <2>1, SumRemove
  <2> QED
      BY <1>1, <1>2, <2>3, <2>4, <2>5
<1> HIDE DEF rest
<1>9. RoundTo(total, Scale) = K + RoundTo(rest, Scale) /\ RoundTo(rest, Scale) \in Nat
    BY <1>1, <1>2, <1>6, <1>7, RoundShift, RoundType
<1>10. \A i \in S : rounded[i] = IF i = l THEN k[l] + RoundTo(rest, Scale) ELSE k[i]
  <2>1. RoundTo(Scale * k[l] + rest, Scale) = k[l] + RoundTo(rest, Scale)
      BY <1>1, <1>2, <1>3, RoundShift
  <2>2. \A i \in S : RoundTo(Scale * k[i], Scale) = k[i]
      BY <1>1, <1>3, RoundWhole
  <2>3. cut[l] = Scale * k[l]
      BY <1>1, <1>3
  <2> QED
      BY <1>2, <1>3, <1>4, <2>1, <2>2, <2>3
<1>11. SumFunctionOnSet(rounded, S) = K + RoundTo(rest, Scale)
  <2>1. \A i \in S : k[i] \in Int /\ rounded[i] \in Int
      BY <1>1, <1>3, <1>9, <1>10
  <2>2. \A i \in S \ {l} : rounded[i] = k[i]
      BY <1>10
  <2>3. SumFunctionOnSet(rounded, S) = SumFunctionOnSet(k, S) + rounded[l] - k[l]
      BY <1>1, <2>1, <2>2, SumChange
  <2>4. rounded[l] = k[l] + RoundTo(rest, Scale)
      BY <1>1, <1>10
  <2> QED
      BY <1>1, <1>3, <1>6, <1>9, <2>3, <2>4 DEF K
<1>12. \A i \in S : Shares(o)[i] \in Nat /\ rounded[i] \in Nat
    BY <1>1, <1>2, <1>3, <1>9, <1>10
<1> QED
    BY <1>8, <1>9, <1>11, <1>12 DEF total, rounded, S

-----------------------------------------------------------------------------
(***************************************************************************)
(* The entries                                                             *)
(***************************************************************************)

\* The entries of a split: the payer's cash, at most one fee, one per participant.
LEMMA EntriesAre ==
    ASSUME NEW o, WellFormed(o), Splittable(o)
    PROVE  LET cash == <<Entry(Account(o.payer, "CASH"), RoundTo(o.amount, Scale))>>
           IN  /\ SplitEntries(o) = (cash \o FeeEntries(o)) \o ShareEntries(o)
               /\ cash \in Seq(EntryRecord) /\ Len(cash) = 1 /\ cash[1].account[2] = "CASH"
               /\ FeeEntries(o) \in Seq(EntryRecord) /\ Len(FeeEntries(o)) \in {0, 1}
               /\ \A i \in DOMAIN FeeEntries(o) : FeeEntries(o)[i].account[2] = "FEE"
               /\ ShareEntries(o) \in Seq(EntryRecord) /\ Len(ShareEntries(o)) = Len(o.participants)
               /\ SumOf(cash) = RoundTo(o.amount, Scale) /\ RoundTo(o.amount, Scale) \in Nat
<1> DEFINE ps == o.participants
           first == Entry(Account(o.payer, "CASH"), RoundTo(o.amount, Scale))
           cash == <<first>>
           fee == Entry(Account(o.platform, "FEE"), -RoundTo(Fee(o), Scale))
<1>0. Scale \in Nat \ {0} /\ o.amount \in Nat /\ RoundTo(o.amount, Scale) \in Nat
    BY ScaleAssumption, RoundType DEF WellFormed
<1>1. SplitEntries(o) = (cash \o FeeEntries(o)) \o ShareEntries(o)
    BY DEF SplitEntries
<1>2. first \in EntryRecord /\ first.amount = RoundTo(o.amount, Scale)
      /\ first.account[2] = "CASH"
    BY <1>0 DEF Entry, EntryRecord, Account, Splittable
<1>3. SumOf(cash) = RoundTo(o.amount, Scale)
  <2>1. first.amount \in Int
      BY <1>0, <1>2
  <2> HIDE DEF first
  <2> QED
      BY <1>2, <2>1, SumOfOne
<1>4. /\ FeeEntries(o) \in Seq(EntryRecord) /\ Len(FeeEntries(o)) \in {0, 1}
      /\ \A i \in DOMAIN FeeEntries(o) : FeeEntries(o)[i].account[2] = "FEE"
  <2>1. CASE o.feeRatio = 0 \/ o.platform = NoWallet
      BY <2>1 DEF FeeEntries
  <2>2. CASE ~(o.feeRatio = 0 \/ o.platform = NoWallet)
    <3>1. RoundTo(Fee(o), Scale) \in Nat
      <4>1. Fee(o) \in Nat
          BY FeeIs
      <4> QED
          BY <1>0, <4>1, RoundType
    <3>2. fee \in EntryRecord /\ fee.account[2] = "FEE"
        BY <2>2, <3>1 DEF Entry, EntryRecord, Account, Splittable
    <3>3. FeeEntries(o) = <<fee>>
        BY <2>2 DEF FeeEntries
    <3> HIDE DEF fee
    <3> QED
        BY <3>2, <3>3
  <2> QED
      BY <2>1, <2>2
<1>5. ShareEntries(o) \in Seq(EntryRecord) /\ Len(ShareEntries(o)) = Len(ps)
  <2>1. DOMAIN ps = 1..Len(ps) /\ Len(ps) \in Nat
      BY Ratios
  <2>2. ASSUME NEW i \in DOMAIN ps PROVE ShareEntries(o)[i] \in EntryRecord
    <3>1. RoundTo(Shares(o)[i], Scale) \in Nat
        BY RoundedShares
    <3> QED
        BY <3>1 DEF ShareEntries, Entry, EntryRecord, Account, Splittable
  <2>3. ShareEntries(o) \in [1..Len(ps) -> EntryRecord]
      BY <2>1, <2>2 DEF ShareEntries
  <2> QED
      BY <2>1, <2>3
<1> HIDE DEF first
<1>6. cash \in Seq(EntryRecord) /\ Len(cash) = 1 /\ cash[1] = first
    BY <1>2
<1> QED
    BY <1>0, <1>1, <1>2, <1>3, <1>4, <1>5, <1>6 DEF first

\* What the fee's entry and the participants' entries add up to.
LEMMA CreditsAre ==
    ASSUME NEW o, WellFormed(o), Splittable(o)
    PROVE  /\ RoundTo(o.amount, Scale) + SumOf(FeeEntries(o)) + SumOf(ShareEntries(o)) = 0
           /\ SumOf(FeeEntries(o)) \in Int /\ SumOf(ShareEntries(o)) \in Int
<1> DEFINE ps == o.participants
           total == o.amount - Fee(o)
           rounded == [i \in DOMAIN ps |-> RoundTo(Shares(o)[i], Scale)]
           minus == [i \in DOMAIN ps |-> -RoundTo(Shares(o)[i], Scale)]
           zero == [i \in DOMAIN ps |-> 0]
<1>1. PICK q \in Nat : Fee(o) = Scale * q /\ Scale * q \in Nat /\ Scale * q <= o.amount
    BY FeeIs
<1>2. Scale \in Nat \ {0} /\ o.amount \in Nat /\ IsFiniteSet(DOMAIN ps)
    BY ScaleAssumption, Ratios DEF WellFormed
<1>3. total \in Nat /\ o.amount = Scale * q + total
    BY <1>1, <1>2
<1>4. RoundTo(o.amount, Scale) = q + RoundTo(total, Scale)
  <2> HIDE DEF total
  <2> QED
      BY <1>2, <1>3, RoundShift
<1>5. SumOf(FeeEntries(o)) = 0 - q
  <2> DEFINE fee == Entry(Account(o.platform, "FEE"), -RoundTo(Fee(o), Scale))
  <2>1. CASE o.feeRatio = 0 \/ o.platform = NoWallet
    <3>1. FeeEntries(o) = << >> /\ Fee(o) = 0
        BY <2>1 DEF FeeEntries, Fee
    <3>2. SumOf(<< >>) = 0
        BY SumOfNone DEF SumOf
    <3>3. q = 0
        BY <1>1, <1>2, <3>1
    <3> QED
        BY <3>1, <3>2, <3>3
  <2>2. CASE ~(o.feeRatio = 0 \/ o.platform = NoWallet)
    <3>1. RoundTo(Fee(o), Scale) = q
        BY <1>1, <1>2, RoundWhole
    <3>2. FeeEntries(o) = <<fee>>
        BY <2>2 DEF FeeEntries
    <3>3. fee.amount = 0 - q /\ fee.amount \in Int
        BY <3>1 DEF Entry
    <3> HIDE DEF fee
    <3> QED
        BY <3>2, <3>3, SumOfOne
  <2> QED
      BY <2>1, <2>2
<1>6. SumOf(ShareEntries(o)) = SumFunctionOnSet(minus, DOMAIN ps)
  <2>1. DOMAIN ShareEntries(o) = DOMAIN ps
        /\ \A i \in DOMAIN ps : ShareEntries(o)[i].amount = -RoundTo(Shares(o)[i], Scale)
      BY DEF ShareEntries, Entry
  <2>2. [i \in DOMAIN ShareEntries(o) |-> ShareEntries(o)[i].amount] = minus
      BY <2>1
  <2> HIDE DEF minus
  <2> QED
      BY <2>1, <2>2 DEF SumOf, SumFunction, minus
<1>7. /\ SumFunctionOnSet(rounded, DOMAIN ps) = RoundTo(total, Scale)
      /\ \A i \in DOMAIN ps : RoundTo(Shares(o)[i], Scale) \in Nat
    BY RoundedShares
<1>8. \A i \in DOMAIN ps : rounded[i] \in Int /\ minus[i] \in Int /\ zero[i] = rounded[i] + minus[i]
                           /\ zero[i] = 0
    BY <1>7
<1>9. RoundTo(total, Scale) \in Nat
    BY <1>2, <1>3, RoundType
<1> HIDE DEF rounded, minus, zero, total, ps
<1>10. SumFunctionOnSet(zero, DOMAIN ps) = 0
    BY <1>2, <1>8, SumOfZeros
<1>11. SumFunctionOnSet(zero, DOMAIN ps)
         = SumFunctionOnSet(rounded, DOMAIN ps) + SumFunctionOnSet(minus, DOMAIN ps)
  <2>1. \A i \in DOMAIN ps : rounded[i] \in Int /\ minus[i] \in Int /\ zero[i] = rounded[i] + minus[i]
      BY <1>8
  <2> QED
      BY <1>2, <2>1, SumPlus
<1>12. SumFunctionOnSet(minus, DOMAIN ps) \in Int
  <2>1. \A i \in DOMAIN ps : minus[i] \in Int
      BY <1>8
  <2> QED
      BY <1>2, <2>1, SumRemove
<1> QED
    BY <1>1, <1>4, <1>5, <1>6, <1>7, <1>9, <1>10, <1>11, <1>12

\* What passes the checks before the computation balances after it.
LEMMA SplitBalances ==
    ASSUME NEW o, WellFormed(o), Splittable(o)
    PROVE  Balanced(SplitEntries(o)) /\ SplitEntries(o) \in Seq(EntryRecord)
<1> DEFINE cash == <<Entry(Account(o.payer, "CASH"), RoundTo(o.amount, Scale))>>
           fees == FeeEntries(o)
           shares == ShareEntries(o)
<1>1. /\ SplitEntries(o) = (cash \o fees) \o shares
      /\ cash \in Seq(EntryRecord) /\ Len(cash) = 1
      /\ fees \in Seq(EntryRecord) /\ Len(fees) \in {0, 1}
      /\ shares \in Seq(EntryRecord) /\ Len(shares) = Len(o.participants)
      /\ SumOf(cash) = RoundTo(o.amount, Scale) /\ RoundTo(o.amount, Scale) \in Nat
    BY EntriesAre
<1>2. /\ RoundTo(o.amount, Scale) + SumOf(fees) + SumOf(shares) = 0
      /\ SumOf(fees) \in Int /\ SumOf(shares) \in Int
    BY CreditsAre
<1>3. Len(o.participants) \in Nat /\ Len(o.participants) # 0
  <2>1. DOMAIN o.participants = 1..Len(o.participants) /\ Len(o.participants) \in Nat
        /\ DOMAIN o.participants # {}
      BY Ratios
  <2>2. 1..0 = {}
      OBVIOUS
  <2> QED
      BY <2>1, <2>2
<1> HIDE DEF cash, fees, shares
<1>4. cash \o fees \in Seq(EntryRecord) /\ Len(cash \o fees) = Len(cash) + Len(fees)
      /\ Len((cash \o fees) \o shares) = Len(cash \o fees) + Len(shares)
    BY <1>1, ConcatProperties
<1>5. SumOf(cash \o fees) = SumOf(cash) + SumOf(fees)
      /\ SumOf((cash \o fees) \o shares) = SumOf(cash \o fees) + SumOf(shares)
    BY <1>1, <1>4, SumOfConcat DEF EntryRecord
<1>6. SumOf(SplitEntries(o)) = 0
    BY <1>1, <1>2, <1>5
<1>7. Len(SplitEntries(o)) >= 2
  <2>1. Len(SplitEntries(o)) = (1 + Len(fees)) + Len(o.participants)
      BY <1>1, <1>4
  <2>2. Len(fees) \in Nat
      BY <1>1
  <2>3. Len(o.participants) >= 1
      BY <1>3
  <2> DEFINE m == Len(fees)
             n == Len(o.participants)
  <2>4. m \in Nat /\ n \in Nat /\ n >= 1 /\ Len(SplitEntries(o)) = (1 + m) + n
      BY <1>3, <2>1, <2>2, <2>3
  <2> HIDE DEF m, n
  <2> QED
      BY <2>4
<1>8. SplitEntries(o) \in Seq(EntryRecord)
    BY <1>1, <1>4, ConcatProperties
<1> QED
    BY <1>6, <1>7, <1>8 DEF Balanced

\* The places of two sequences in their concatenation.
LEMMA ConcatPlaces ==
    ASSUME NEW S, NEW s \in Seq(S), NEW t \in Seq(S)
    PROVE  /\ s \o t \in Seq(S) /\ Len(s) \in Nat /\ Len(t) \in Nat
           /\ Len(s \o t) = Len(s) + Len(t) /\ DOMAIN (s \o t) = 1..(Len(s) + Len(t))
           /\ \A j \in 1..Len(s) : (s \o t)[j] = s[j]
           /\ \A j \in 1..Len(t) : (s \o t)[Len(s) + j] = t[j]
<1>1. /\ s \o t \in Seq(S) /\ Len(s \o t) = Len(s) + Len(t)
      /\ \A j \in 1..(Len(s) + Len(t)) : (s \o t)[j] = IF j <= Len(s) THEN s[j] ELSE t[j - Len(s)]
    BY ConcatProperties
<1>2. Len(s) \in Nat /\ Len(t) \in Nat
    BY LenProperties
<1>3. DOMAIN (s \o t) = 1..(Len(s) + Len(t))
    BY <1>1, LenProperties
<1> DEFINE m == Len(s)
           n == Len(t)
<1> HIDE DEF m, n
<1>4. ASSUME NEW j \in 1..m PROVE j \in 1..(m + n) /\ j <= m
    BY <1>2 DEF m, n
<1>5. ASSUME NEW j \in 1..n PROVE m + j \in 1..(m + n) /\ ~(m + j <= m) /\ (m + j) - m = j
    BY <1>2 DEF m, n
<1> QED
    BY <1>1, <1>2, <1>3, <1>4, <1>5 DEF m, n

\* When no wallet takes part twice, the first entry on the PAYABLE account of a participant
\* is the one of its share.
LEMMA RecordIs ==
    ASSUME NEW o, WellFormed(o), Splittable(o),
           \A i, j \in DOMAIN o.participants :
               o.participants[i].wallet = o.participants[j].wallet => i = j,
           NEW i \in DOMAIN o.participants
    PROVE  LET ps == o.participants
               es == SplitEntries(o)
           IN  Entry(Account(ps[i].wallet, "PAYABLE"), -SplitRecords(o)[i].amount)
                 = es[Len(es) - Len(ps) + i]
<1> DEFINE ps == o.participants
           cash == <<Entry(Account(o.payer, "CASH"), RoundTo(o.amount, Scale))>>
           fees == FeeEntries(o)
           shares == ShareEntries(o)
           es == SplitEntries(o)
           account == Account(ps[i].wallet, "PAYABLE")
           r == RoundTo(Shares(o)[i], Scale)
           m == Len(cash \o fees)
           n == Len(ps)
           First(k) == /\ es[k].account = account
                       /\ \A j \in DOMAIN es : es[j].account = account => k <= j
<1>1. /\ es = (cash \o fees) \o shares
      /\ cash \in Seq(EntryRecord) /\ Len(cash) = 1 /\ cash[1].account[2] = "CASH"
      /\ fees \in Seq(EntryRecord) /\ Len(fees) \in Nat
      /\ \A j \in DOMAIN fees : fees[j].account[2] = "FEE"
      /\ shares \in Seq(EntryRecord) /\ Len(shares) = n
    BY EntriesAre, LenProperties
<1>2. DOMAIN ps = 1..n /\ n \in Nat /\ i \in 1..n
    BY Ratios
<1>3. \A j \in 1..n : shares[j] = Entry(Account(ps[j].wallet, "PAYABLE"),
                                       -RoundTo(Shares(o)[j], Scale))
    BY <1>2 DEF ShareEntries
<1>4. r \in Nat
    BY RoundedShares
<1>5. SplitRecords(o)[i].amount = -es[CHOOSE k \in DOMAIN es : First(k)].amount
    BY DEF SplitRecords
<1> HIDE DEF cash, fees, shares, es, ps
<1>6. /\ cash \o fees \in Seq(EntryRecord) /\ m = 1 + Len(fees) /\ m \in Nat
      /\ Len(es) = m + n /\ DOMAIN es = 1..(m + n)
      /\ \A j \in 1..m : es[j] = (cash \o fees)[j]
      /\ \A j \in 1..n : es[m + j] = shares[j]
  <2>1. cash \in Seq(EntryRecord) /\ fees \in Seq(EntryRecord) /\ shares \in Seq(EntryRecord)
      BY <1>1
  <2>2. /\ cash \o fees \in Seq(EntryRecord) /\ Len(fees) \in Nat
        /\ Len(cash \o fees) = Len(cash) + Len(fees)
      BY ONLY <2>1, ConcatPlaces
  <2> DEFINE both == cash \o fees
  <2>3. both \in Seq(EntryRecord) /\ m = Len(both) /\ es = both \o shares
      BY <1>1, <2>2
  <2> HIDE DEF both, m
  <2>4. /\ Len(both \o shares) = Len(both) + Len(shares)
        /\ DOMAIN (both \o shares) = 1..(Len(both) + Len(shares))
        /\ \A j \in 1..Len(both) : (both \o shares)[j] = both[j]
        /\ \A j \in 1..Len(shares) : (both \o shares)[Len(both) + j] = shares[j]
      BY ONLY <2>1, <2>3, ConcatPlaces
  <2>5. m = 1 + Len(fees) /\ m \in Nat
      BY <1>1, <2>2 DEF m
  <2> QED
      BY <1>1, <2>2, <2>3, <2>4, <2>5 DEF both
<1>7. ASSUME NEW j \in 1..m PROVE es[j].account # account
  <2>1. es[j] = (cash \o fees)[j]
      BY <1>6
  <2>2. /\ \A k \in 1..Len(cash) : (cash \o fees)[k] = cash[k]
        /\ \A k \in 1..Len(fees) : (cash \o fees)[Len(cash) + k] = fees[k]
        /\ DOMAIN fees = 1..Len(fees)
    <3>1. cash \in Seq(EntryRecord) /\ fees \in Seq(EntryRecord)
        BY <1>1
    <3>2. /\ \A k \in 1..Len(cash) : (cash \o fees)[k] = cash[k]
          /\ \A k \in 1..Len(fees) : (cash \o fees)[Len(cash) + k] = fees[k]
        BY ONLY <3>1, ConcatPlaces
    <3> QED
        BY <3>1, <3>2, LenProperties
  <2>3. j = 1 => es[j].account[2] = "CASH"
    <3> SUFFICES ASSUME j = 1 PROVE es[j].account[2] = "CASH"
        OBVIOUS
    <3>1. es[j] = cash[1]
        BY <1>1, <2>1, <2>2
    <3> QED
        BY <1>1, <3>1
  <2>4. j # 1 => es[j].account[2] = "FEE"
    <3> SUFFICES ASSUME j # 1 PROVE es[j].account[2] = "FEE"
        OBVIOUS
    <3>1. PICK k \in 1..Len(fees) : j = Len(cash) + k
      <4> DEFINE k == j - 1
      <4>1. k \in 1..Len(fees) /\ j = 1 + k
          BY <1>1, <1>6
      <4> QED
          BY <1>1, <4>1
    <3>2. es[j] = fees[k]
        BY <2>1, <2>2, <3>1
    <3> QED
        BY <1>1, <2>2, <3>2
  <2>5. es[j].account[2] = "CASH" \/ es[j].account[2] = "FEE"
      BY <2>3, <2>4
  <2>6. account[2] = "PAYABLE"
      BY DEF Account
  <2> QED
      BY <2>5, <2>6
<1> HIDE DEF m, n, account
<1>8. \A j \in DOMAIN es : es[j].account = account => j = m + i
  <2> SUFFICES ASSUME NEW j \in DOMAIN es, es[j].account = account PROVE j = m + i
      OBVIOUS
  <2>1. j - m \in 1..n /\ j = m + (j - m)
      BY <1>2, <1>6, <1>7
  <2> DEFINE k == j - m
  <2>2. k \in 1..n /\ j = m + k
      BY <2>1
  <2> HIDE DEF k
  <2>3. es[j].account = Account(ps[k].wallet, "PAYABLE")
    <3>1. es[j] = shares[k]
        BY <1>6, <2>2
    <3>2. shares[k] = Entry(Account(ps[k].wallet, "PAYABLE"), -RoundTo(Shares(o)[k], Scale))
        BY <1>3, <2>2
    <3> QED
        BY <3>1, <3>2 DEF Entry
  <2>4. ps[k].wallet = ps[i].wallet
      BY <2>3 DEF account, Account
  <2>5. k = i
      BY <1>2, <2>2, <2>4 DEF ps
  <2> QED
      BY <2>2, <2>5
<1>9. m + i \in DOMAIN es /\ es[m + i] = Entry(account, -r)
  <2>1. m + i \in 1..(m + n)
      BY <1>2, <1>6
  <2>2. es[m + i] = shares[i] /\ shares[i] = Entry(Account(ps[i].wallet, "PAYABLE"), -r)
      BY <1>2, <1>3, <1>6
  <2> QED
      BY <1>6, <2>1, <2>2 DEF account
<1>10. First(m + i)
  <2>1. es[m + i].account = account
      BY <1>9 DEF Entry
  <2>2. m + i <= m + i
      BY <1>2, <1>6
  <2> QED
      BY <1>8, <2>1, <2>2
<1> DEFINE chosen == CHOOSE k \in DOMAIN es : First(k)
<1>11. chosen \in DOMAIN es /\ First(chosen)
    BY <1>9, <1>10
<1>12. chosen = m + i
    BY <1>8, <1>11
<1>13. SplitRecords(o)[i].amount = -(-r)
  <2>1. SplitRecords(o)[i].amount = -es[chosen].amount
      BY <1>5
  <2>2. es[m + i].amount = -r
      BY <1>9 DEF Entry
  <2> QED
      BY <1>12, <2>1, <2>2
<1>14. Len(es) - n + i = m + i
    BY <1>2, <1>6
<1>15. -(-(-r)) = -r
    BY <1>4
<1> HIDE DEF r
<1> QED
    BY <1>9, <1>13, <1>14, <1>15 DEF account, n, ps, es

-----------------------------------------------------------------------------
(***************************************************************************)
(* The call                                                                *)
(***************************************************************************)

\* A part of an order is an order of that amount, split the same way.
LEMMA PartOf ==
    ASSUME NEW o, WellFormed(o), NEW x \in Nat
    PROVE  LET p == [o EXCEPT !.amount = x]
           IN  /\ WellFormed(p) /\ (Splittable(o) => Splittable(p))
               /\ p.amount = x /\ p.participants = o.participants
<1> DEFINE p == [o EXCEPT !.amount = x]
<1>1. /\ p.payer = o.payer /\ p.amount = x /\ p.participants = o.participants
      /\ p.feeRatio = o.feeRatio /\ p.platform = o.platform
      /\ p = Order(o.payer, x, o.participants, o.feeRatio, o.platform)
    BY DEF WellFormed, Order
<1>2. o.feeRatio \in Nat /\ o.participants \in Seq(Range(o.participants))
      /\ \A participant \in Range(o.participants) : participant.ratio \in Nat
    BY DEF WellFormed
<1> HIDE DEF p
<1>3. WellFormed(p)
    BY <1>1, <1>2 DEF WellFormed
<1>4. Splittable(o) => Splittable(p)
    BY <1>1 DEF Splittable
<1> QED
    BY <1>1, <1>3, <1>4 DEF p

\* The part that an accepted call splits is an order that can be split.
LEMMA PartIsSplittable ==
    ASSUME order \in Orders, paid \in Nat, Accepts
    PROVE  WellFormed(Part) /\ Splittable(Part) /\ Part.amount = paid
           /\ Part.participants = order.participants
<1>1. WellFormed(order) /\ Splittable(order)
    BY OrdersAssumption DEF Accepts
<1> QED
    BY <1>1, PartOf DEF Part

\* The inductive invariant, of the specification.
THEOREM Invariant == Spec => []IInv
<1>1. Init => IInv
  <2> SUFFICES ASSUME Init PROVE IInv
      OBVIOUS
  <2>1. order \in Orders /\ paid \in Nat /\ answer = << >>
      BY OrdersAssumption DEF Init, WellFormed, Unanswered
  <2>2. answer # Refused
      BY <2>1 DEF Refused
  <2> QED
      BY <2>1, <2>2 DEF IInv, AnswersAreSplits, SplitAlwaysBalances, Answered, Unanswered
<1>2. IInv /\ [Next]_vars => IInv'
  <2> SUFFICES ASSUME IInv, [Next]_vars PROVE IInv'
      OBVIOUS
  <2>1. order \in Orders /\ paid \in Nat
      BY DEF IInv, AnswersAreSplits
  <2>2. CASE Answer
    <3>1. order' = order /\ paid' = paid /\ Accepts /\ answer' = SplitEntries(Part)
          /\ Balanced(SplitEntries(Part))
        BY <2>2 DEF Answer
    <3>2. answer' # Refused
      <4>1. Len(answer') >= 2 /\ Len(answer') \in Nat
          BY <2>1, <3>1, PartIsSplittable, SplitBalances, LenProperties DEF Balanced
      <4>2. Len(Refused) = 1
          BY DEF Refused
      <4> DEFINE n == Len(answer')
      <4>3. n # 1
        <5>1. n >= 2 /\ n \in Nat
            BY <4>1
        <5> HIDE DEF n
        <5> QED
            BY <5>1
      <4> QED
          BY <4>2, <4>3
    <3>4. Accepts' /\ Part' = Part
        BY <3>1 DEF Accepts, Part
    <3>5. AnswersAreSplits'
        BY <2>1, <3>1, <3>4 DEF AnswersAreSplits
    <3> QED
        BY <3>2, <3>5 DEF IInv, SplitAlwaysBalances, Refused
  <2>3. CASE Refuse
    <3>1. order' = order /\ paid' = paid /\ answer' = Refused
        BY <2>3 DEF Refuse
    <3>2. ~Accepts
      <4> SUFFICES ASSUME Accepts PROVE FALSE
          OBVIOUS
      <4>1. Balanced(SplitEntries(Part))
          BY <2>1, PartIsSplittable, SplitBalances
      <4> QED
          BY <2>3, <4>1 DEF Refuse
    <3>3. ~Accepts'
        BY <3>1, <3>2 DEF Accepts
    <3>4. ~Answered'
        BY <3>1 DEF Answered, Refused
    <3> QED
        BY <2>1, <3>1, <3>3, <3>4 DEF IInv, AnswersAreSplits, SplitAlwaysBalances
  <2>4. CASE UNCHANGED vars
      BY <2>4 DEF vars, IInv, AnswersAreSplits, SplitAlwaysBalances, Answered, Accepts, Part,
                  Refused, Unanswered
  <2> QED
      BY <2>2, <2>3, <2>4 DEF Next
<1> QED
    BY <1>1, <1>2, PTL DEF Spec

\* No call is refused by the validation of what it computed: an order that passes the checks
\* before has entries that sum to zero, whatever places its amount has.
THEOREM NeverRefusedAfterwards == Spec => []SplitAlwaysBalances
<1>1. IInv => SplitAlwaysBalances
    BY DEF IInv
<1> QED
    BY <1>1, Invariant, PTL

\* The shares and the fee add up to what is paid, and each share is its exact fraction cut
\* down to a unit, but the largest's, which takes what the cuts left: less than one unit for
\* each participant.
THEOREM EachGetsItsFraction == Spec => []SharesAreFair
<1>1. IInv => SharesAreFair
  <2> SUFFICES ASSUME IInv, Accepts PROVE SharesAreFair
      BY DEF SharesAreFair
  <2>1. PICK p : p = Part
      OBVIOUS
  <2>2. WellFormed(p) /\ Splittable(p) /\ p.amount = paid /\ p.participants = order.participants
      BY <2>1, PartIsSplittable DEF IInv, AnswersAreSplits
  <2> DEFINE ps == p.participants
             total == p.amount - Fee(p)
             R == RatioSum(ps)
             unit == R * Scale
             cut == [i \in DOMAIN ps |-> ShareOf(total, ps[i].ratio, R)]
             rest == total - SumFunctionOnSet(cut, DOMAIN ps)
             l == LargestShare(ps)
             excess == [i \in DOMAIN order.participants |->
                          RatioSum(order.participants) * Shares(p)[i]
                            - (paid - Fee(p)) * order.participants[i].ratio]
  <2>3. /\ \A i \in DOMAIN ps : /\ -unit < R * cut[i] - total * ps[i].ratio
                                /\ R * cut[i] - total * ps[i].ratio <= 0
        /\ 0 <= R * (cut[l] + rest) - total * ps[l].ratio
        /\ R * (cut[l] + rest) - total * ps[l].ratio < Len(ps) * unit
        /\ \A i \in DOMAIN ps : Shares(p)[i] = IF i = l THEN cut[l] + rest ELSE cut[i]
      BY <2>2, SharesAre
  <2>4. l \in DOMAIN ps /\ \A j \in DOMAIN ps : ps[j].ratio <= ps[l].ratio
      BY <2>2, LargestIs
  <2>5. Fee(p) + SumFunction(Shares(p)) = paid
    <3>1. SumFunction(Shares(p)) = paid - Fee(p)
        BY <2>2, RoundedShares
    <3>2. Fee(p) \in Nat /\ paid \in Nat
        BY <2>2, FeeIs DEF WellFormed
    <3> QED
        BY <3>1, <3>2
  <2>6. \A i \in DOMAIN ps : excess[i] = R * Shares(p)[i] - total * ps[i].ratio
      BY <2>2
  <2> HIDE DEF cut, rest, l, R, total, unit, excess
  <2>7. 0 <= excess[l] /\ excess[l] < Len(ps) * unit
    <3>1. excess[l] = R * (cut[l] + rest) - total * ps[l].ratio
        BY <2>3, <2>4, <2>6
    <3> QED
        BY <2>3, <3>1
  <2>8. \A j \in DOMAIN ps \ {l} : -unit < excess[j] /\ excess[j] <= 0
    <3> TAKE j \in DOMAIN ps \ {l}
    <3>1. excess[j] = R * cut[j] - total * ps[j].ratio
        BY <2>3, <2>6
    <3> QED
        BY <2>3, <3>1
  <2>9. \E i \in DOMAIN ps :
            /\ \A j \in DOMAIN ps : ps[j].ratio <= ps[i].ratio
            /\ 0 <= excess[i] /\ excess[i] < Len(ps) * unit
            /\ \A j \in DOMAIN ps \ {i} : -unit < excess[j] /\ excess[j] <= 0
      BY <2>4, <2>7, <2>8
  <2>10. order.participants = ps /\ unit = RatioSum(order.participants) * Scale
      BY <2>2 DEF unit, R
  <2> QED
      BY <2>1, <2>5, <2>9, <2>10 DEF SharesAreFair, excess
<1> QED
    BY <1>1, Invariant, PTL

\* The row that payment_splits keeps for a participant is the entry of its share, when no
\* wallet takes part twice.
THEOREM RecordedAsPosted == Spec => []RecordsMatchEntries
<1>1. IInv => RecordsMatchEntries
  <2> SUFFICES ASSUME IInv, Answered,
                      \A i, j \in DOMAIN order.participants :
                          order.participants[i].wallet = order.participants[j].wallet => i = j,
                      NEW i \in DOMAIN order.participants
               PROVE  Entry(Account(order.participants[i].wallet, "PAYABLE"),
                            -SplitRecords(Part)[i].amount)
                        = answer[Len(answer) - Len(order.participants) + i]
      BY DEF RecordsMatchEntries
  <2>1. order \in Orders /\ paid \in Nat /\ Accepts /\ answer = SplitEntries(Part)
      BY DEF IInv, AnswersAreSplits
  <2>2. PICK p : p = Part
      OBVIOUS
  <2>3. WellFormed(p) /\ Splittable(p) /\ p.participants = order.participants
      BY <2>1, <2>2, PartIsSplittable
  <2>4. Entry(Account(p.participants[i].wallet, "PAYABLE"), -SplitRecords(p)[i].amount)
          = SplitEntries(p)[Len(SplitEntries(p)) - Len(p.participants) + i]
      BY <2>3, RecordIs
  <2> QED
      BY <2>1, <2>2, <2>3, <2>4
<1> QED
    BY <1>1, Invariant, PTL

=============================================================================
