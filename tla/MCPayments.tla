----------------------------- MODULE MCPayments -----------------------------
(***************************************************************************)
(* Small instances of Payments: calls named in Retries carry the first key *)
(* and no external id, those in Imports an external id they share; the     *)
(* calls of Retries ask for a simple payment, the others for a split one.  *)
(***************************************************************************)
EXTENDS Payments, TLC

CONSTANTS Retries, Keyed, External, FirstKey, SecondKey

MCKeyOf == [r \in Ingests |->
    IF r \in Retries THEN FirstKey ELSE IF r \in Keyed THEN SecondKey ELSE NoKey]

MCExternalOf == [r \in Ingests |-> IF r \in Retries THEN NoExternal ELSE External]

SplitOrder == Order("p", 10, <<Participant("p", 9)>>, 1, "p")
PlainOrder == Order("p", 10, << >>, 0, NoWallet)

MCOrderOf == [r \in Ingests |-> IF r \in Retries THEN PlainOrder ELSE SplitOrder]

Symmetric == Permutations(Retries) \cup Permutations(Keyed) \cup Permutations(Undos)

=============================================================================
