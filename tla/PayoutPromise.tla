--------------------------- MODULE PayoutPromise ---------------------------
(***************************************************************************)
(* What the payout flow promises, whatever it takes to keep it: the money  *)
(* of a payout is taken from the wallet once, when there is enough of it,  *)
(* and then either leaves the platform or comes back, once.                *)
(***************************************************************************)
EXTENDS Integers

CONSTANTS
    Payouts, Wallets,
    WalletOf,         \* [Payouts -> Wallets]
    AmountOf,         \* [Payouts -> Nat \ {0}]
    InitialFunds      \* [Wallets -> Nat]

VARIABLES
    available,        \* what each wallet may still pay out
    stage             \* where the money of each payout is

Init ==
    /\ available = InitialFunds
    /\ stage = [p \in Payouts |-> "none"]

Hold(p) ==
    /\ stage[p] = "none"
    /\ AmountOf[p] <= available[WalletOf[p]]
    /\ available' = [available EXCEPT ![WalletOf[p]] = @ - AmountOf[p]]
    /\ stage' = [stage EXCEPT ![p] = "held"]

Pay(p) ==
    /\ stage[p] = "held"
    /\ stage' = [stage EXCEPT ![p] = "paid"]
    /\ UNCHANGED available

Return(p) ==
    /\ stage[p] = "held"
    /\ available' = [available EXCEPT ![WalletOf[p]] = @ + AmountOf[p]]
    /\ stage' = [stage EXCEPT ![p] = "returned"]

Next == \E p \in Payouts : Hold(p) \/ Pay(p) \/ Return(p)

Spec == Init /\ [][Next]_<<available, stage>>

=============================================================================
