\* Amounts up to twelve units, in halves of a unit.
SPECIFICATION Spec
CONSTANTS
  Scale = 2
  Whole = 10
  Wallets = {"p", "a", "b", "c", "f"}
  NoWallet = none
  MaxAmount = 24
  Orders <- MCOrders
  Payments = {1, 2, 7}
CHECK_DEADLOCK FALSE
INVARIANTS
  SharesAreFair
  SplitAlwaysBalances
  RecordsMatchEntries
