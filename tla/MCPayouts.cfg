\* Two requests of one key and one of another, a delivery, one other call that posts or
\* reverses a row of any kind, one failure and expired keys; at most three have begun.
SPECIFICATION Spec
CONSTANTS
  Keys = {k1, k2}
  Responses = {r1, r2, r3}
  Requests = {r1, r2, r3}
  Webhooks = {h1}
  Wallets = {"w"}
  Retries = {r1, r2}
  FirstKey = k1
  OtherKey = k2
  KeyOf <- MCKeyOf
  WalletOf <- MCWalletOf
  AmountOf <- MCAmountOf
  Opening <- MCOpening
  Callers = {c1}
  Manual = {c1}
  Drafts <- MCDrafts
  ReversalTypes = {"REFUND", "CHARGEBACK", "ADJUSTMENT"}
  Nobody = nobody
  SerialDelivery = FALSE
  KeysExpire = TRUE
  MaxFailures = 1
  MaxActive = 3
CONSTRAINT FewActive
SYMMETRY Symmetric
CHECK_DEADLOCK FALSE
INVARIANTS
  TypeOK
  HoldsAreCovered
  BalanceStaysCurrent
  HoldReversedOnce
  HoldWithPayout
  FinalMeansReleased
