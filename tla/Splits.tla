------------------------------- MODULE Splits -------------------------------
(***************************************************************************)
(* One call of the split engine: an order comes in, whole or in part, and  *)
(* the engine answers entries or refuses.                                  *)
(***************************************************************************)
EXTENDS SplitOps

CONSTANTS
    Orders,      \* what callers ask to split
    Payments     \* what may be paid of an order

ASSUME OrdersAssumption ==
    /\ \A o \in Orders : WellFormed(o) /\ o.amount > 0 /\ IsSplit(o)
    /\ \A paid \in Payments : paid \in Nat /\ paid > 0

VARIABLES
    order,       \* the order
    paid,        \* how much of it is paid
    answer       \* the entries, << >> before the call is answered
vars == <<order, paid, answer>>

Unanswered == << >>
Refused == <<"refused">>

Init ==
    /\ order \in Orders
    /\ paid \in Payments \cup {order.amount}
    /\ answer = Unanswered

\* computePartialSplitEntries splits a part by the ratios of the whole.
Part == [order EXCEPT !.amount = paid]

Accepts == paid <= order.amount /\ Splittable(order)

Answer ==
    /\ answer = Unanswered
    /\ Accepts
    /\ Balanced(SplitEntries(Part))
    /\ answer' = SplitEntries(Part)
    /\ UNCHANGED <<order, paid>>

\* The ratios, the amount or an account are wrong, or the last validation fails.
Refuse ==
    /\ answer = Unanswered
    /\ Accepts => ~Balanced(SplitEntries(Part))
    /\ answer' = Refused
    /\ UNCHANGED <<order, paid>>

Next == Answer \/ Refuse

Spec == Init /\ [][Next]_vars

-----------------------------------------------------------------------------
Answered == answer \notin {Unanswered, Refused}

\* Money.distribute against its definition by exact fractions: the shares and the fee
\* "EXACTLY" add up to what is paid, a share is its fraction of the total cut down to a
\* unit, and the largest ratio gets at least its fraction and less than one unit per
\* participant more.
SharesAreFair ==
    Accepts =>
        /\ Fee(Part) + SumFunction(Shares(Part)) = paid
        /\ LET ps == order.participants
               total == paid - Fee(Part)
               excess == [i \in DOMAIN ps |-> RatioSum(ps) * Shares(Part)[i] - total * ps[i].ratio]
               unit == RatioSum(ps) * Scale
           IN  \E i \in DOMAIN ps :
                   /\ \A j \in DOMAIN ps : ps[j].ratio <= ps[i].ratio
                   /\ 0 <= excess[i] /\ excess[i] < Len(ps) * unit
                   /\ \A j \in DOMAIN ps \ {i} : -unit < excess[j] /\ excess[j] <= 0

\* The last validation never refuses what passed the others: whatever places the amount
\* has, rounding does to the payer's cash what it does to one other entry.
SplitAlwaysBalances == answer = Refused => ~Accepts

\* What the payment_splits rows say of a wallet is what the ledger owes it for the
\* payment, when no wallet takes part twice.
RecordsMatchEntries ==
    Answered =>
        LET ps == order.participants
            once == \A i, j \in DOMAIN ps : ps[i].wallet = ps[j].wallet => i = j
        IN  once => \A i \in DOMAIN ps :
                Entry(Account(ps[i].wallet, "PAYABLE"), -SplitRecords(Part)[i].amount)
                    = answer[Len(answer) - Len(ps) + i]

-----------------------------------------------------------------------------
\* The inductive invariant: an answer is the entries of an order that was accepted.
AnswersAreSplits ==
    /\ order \in Orders /\ paid \in Nat
    /\ Answered => Accepts /\ answer = SplitEntries(Part)

IInv == AnswersAreSplits /\ SplitAlwaysBalances

=============================================================================
