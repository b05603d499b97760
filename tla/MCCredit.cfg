\* Three calls, two payments, one failure.
SPECIFICATION Spec
CONSTANTS
  Wallets = {"w"}
  AgeInDays <- MCAge
  PaymentAmount = 2
  Calls = {c1, c2, c3}
  Asked = {1, 3}
  Exposure = 80
  MinApproval = 60
  MinPartial = 40
  MaxPayments = 2
  MaxFailures = 1
SYMMETRY Symmetric
CHECK_DEADLOCK FALSE
INVARIANTS
  TypeOK
  OverdrawnOnlyByOverlap
  LedgerAgreesWithUsages
  OverpaidOnlyByOverlap
