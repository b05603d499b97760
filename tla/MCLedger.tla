------------------------------ MODULE MCLedger ------------------------------
(***************************************************************************)
(* Small instances of Ledger for TLC: four accounts, one of them in        *)
(* another currency, and drafts of every kind, the invalid ones included.  *)
(***************************************************************************)
EXTENDS Ledger

MCAccounts == {"cash", "payable", "fee", "euro"}

MCAccountIds == MCAccounts \cup {"nobody"}

MCCurrency == [a \in MCAccounts |-> IF a = "euro" THEN "EUR" ELSE "USD"]

Of(entries) == [referenceId |-> "p1", entries |-> entries]

USD(account, amount) == [account |-> account, amount |-> amount, currency |-> "USD"]

Invalid ==
    {Of(<<USD("cash", 4), USD("payable", -2)>>),
     Of(<<USD("cash", 0)>>),
     Of(<<USD("cash", 2), USD("nobody", -2)>>),
     Of(<<USD("cash", 2), USD("euro", -2)>>)}

\* Amounts with no more places than the column: Scale is 2.
WholeDrafts ==
    Invalid \cup
    {Of(<<USD("cash", 4), USD("payable", -4)>>),
     Of(<<USD("cash", 6), USD("payable", -4), USD("fee", -2)>>)}

\* One draft whose halves round away from zero.
FineDrafts == {Of(<<USD("cash", 1), USD("fee", 1), USD("payable", -2)>>)}

=============================================================================
