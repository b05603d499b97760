\* The process dies between the two statements of a delivery; the bank, which got no answer, sends it again.
SPECIFICATION Spec
CONSTANTS
  Keys = {k1, k2}
  Responses = {r1}
  Requests = {r1}
  Webhooks = {h1, h2}
  Wallets = {"w"}
  Retries = {r1}
  FirstKey = k1
  OtherKey = k2
  KeyOf <- MCKeyOf
  WalletOf <- MCWalletOf
  AmountOf <- MCAmountOf
  Opening <- MCOpening
  Callers = {}
  Manual = {}
  Drafts <- MCDrafts
  ReversalTypes = {"REFUND", "CHARGEBACK", "ADJUSTMENT"}
  Nobody = nobody
  SerialDelivery = TRUE
  KeysExpire = FALSE
  MaxActive = 0
  MaxFailures = 1
CHECK_DEADLOCK FALSE
INVARIANT HoldReleasedOnce
