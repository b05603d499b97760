\* Two callers post and reverse up to four transactions.
SPECIFICATION Spec
CONSTANTS
  Callers = {c1, c2}
  AccountIds <- MCAccountIds
  Accounts <- MCAccounts
  Currencies = {"USD", "EUR"}
  References = {"p1"}
  Currency <- MCCurrency
  Drafts <- WholeDrafts
  Scale = 2
  MaxTransactions = 4
INVARIANTS
  TypeOK
  EveryTransactionBalanced
  ReversalMirrorsOriginal
  DoubleReversalsOverlap
PROPERTY LedgerImmutable
