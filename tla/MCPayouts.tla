----------------------------- MODULE MCPayouts -----------------------------
(***************************************************************************)
(* Small instances of Payouts: one wallet with two payments of 1 to pay    *)
(* out, an order of 2 and its retries with the first key, and another      *)
(* order of 1, so that two payouts do not both fit.  When one payment is   *)
(* reversed, or a credit is repaid, after the order of 2, the debt is as   *)
(* large as the other order.                                               *)
(***************************************************************************)
EXTENDS Payouts, TLC, FiniteSets

MCWalletOf == [r \in Requests |-> "w"]

\* Requests named in Retries carry the first key.
CONSTANTS Retries, FirstKey, OtherKey

MCAmountOf == [r \in Requests |-> IF r \in Retries THEN 2 ELSE 1]

MCKeyOf == [r \in Requests |-> IF r \in Retries THEN FirstKey ELSE OtherKey]

\* Requests of one key, and deliveries, are interchangeable.
Symmetric == Permutations(Retries) \cup Permutations(Webhooks)

Payment ==
    Transaction(Nobody, "PAYMENT_RECEIVED",
        <<Entry(Cash("w"), 1), Entry(Payable("w"), -1)>>, NoOriginal)

MCOpening == <<Payment, Payment>>

\* A repayment of credit, which takes from PAYABLE without looking at it.
Repayment ==
    Transaction(Nobody, "CREDIT_REPAYMENT",
        <<Entry(Payable("w"), 1), Entry(Account("w", "CREDIT"), -1)>>, NoOriginal)

MCDrafts == {Payment, Repayment}

\* How many of the requests, deliveries and other calls have begun.
CONSTANT MaxActive
FewActive ==
      Cardinality({r \in Requests : pc[r] # "idle"})
    + Cardinality({h \in Webhooks : hook[h] # NoDelivery})
    + Cardinality({c \in Callers : call[c] # NoCall}) <= MaxActive

=============================================================================
