\* The same orders served without faults, crashes or expired keys, the bank sending
\* one delivery after another.
SPECIFICATION FairSpec
CONSTANTS
  Keys = {k1, k2}
  Responses = {r1, r2, r3}
  Requests = {r1, r2, r3}
  Webhooks = {h1, h2}
  Wallets = {"w"}
  Retries = {r1, r2}
  FirstKey = k1
  OtherKey = k2
  KeyOf <- MCKeyOf
  WalletOf <- MCWalletOf
  AmountOf <- MCAmountOf
  Opening <- MCOpening
  Callers = {}
  Manual = {}
  Drafts <- MCDrafts
  ReversalTypes = {"REFUND", "CHARGEBACK", "ADJUSTMENT"}
  Nobody = nobody
  SerialDelivery = TRUE
  KeysExpire = FALSE
  MaxActive = 0
  MaxFailures = 0
CHECK_DEADLOCK FALSE
INVARIANTS
  AcceptedStaysHeld
  OneAcceptedPerKey
  KeysAreGivenBack
PROPERTIES
  KeepsPromise
  EveryRequestEnds
