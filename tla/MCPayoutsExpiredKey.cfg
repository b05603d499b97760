\* A retry arrives after its key's time to live.
SPECIFICATION Spec
CONSTANTS
  Keys = {k1, k2}
  Responses = {r1, r2}
  Requests = {r1, r2}
  Webhooks = {h1, h2}
  Wallets = {"w"}
  Retries = {r1, r2}
  FirstKey = k1
  OtherKey = k2
  KeyOf <- MCKeyOf
  WalletOf <- MCWalletOf
  AmountOf <- MCAmountOf
  Opening <- MCOpening
  Callers = {}
  Manual = {}
  Drafts <- MCDrafts
  ReversalTypes = {"REFUND", "CHARGEBACK", "ADJUSTMENT"}
  Nobody = nobody
  SerialDelivery = TRUE
  KeysExpire = TRUE
  MaxActive = 0
  MaxFailures = 0
CHECK_DEADLOCK FALSE
INVARIANT AcceptedStaysHeld
