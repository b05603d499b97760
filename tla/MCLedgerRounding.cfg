\* One caller posts a draft with more places than the column keeps.
SPECIFICATION Spec
CONSTANTS
  Callers = {c1}
  AccountIds <- MCAccountIds
  Accounts <- MCAccounts
  Currencies = {"USD", "EUR"}
  References = {"p1"}
  Currency <- MCCurrency
  Drafts <- FineDrafts
  Scale = 2
  MaxTransactions = 2
INVARIANT GlobalLedgerBalanced
