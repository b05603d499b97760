----------------------------- MODULE MCCredit -----------------------------
(***************************************************************************)
(* Small instances of Credit: one wallet, more than a year old.            *)
(***************************************************************************)
EXTENDS Credit, TLC

MCAge == [w \in Wallets |-> 400]
Symmetric == Permutations(Calls)

=============================================================================
