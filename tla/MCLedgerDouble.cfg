\* Two callers reverse one transaction at the same time.
SPECIFICATION Spec
CONSTANTS
  Callers = {c1, c2}
  AccountIds <- MCAccountIds
  Accounts <- MCAccounts
  Currencies = {"USD", "EUR"}
  References = {"p1"}
  Currency <- MCCurrency
  Drafts <- WholeDrafts
  Scale = 2
  MaxTransactions = 4
INVARIANT NoDoubleReversal
