\* Two registrations of one email on a pool of two connections, a wallet made beside them,
\* two mappings of one external account, and one failure.
SPECIFICATION FairSpec
CONSTANTS
  Registrations = {r1, r2}
  Creations = {c1}
  Mappings = {m1, m2}
  Emails = {"e"}
  ExternalIds = {"x"}
  EmailOf <- MCEmailOf
  ExternalOf <- MCExternalOf
  AccountTypes <- MCAccountTypes
  Nobody = nobody
  PoolSize = 2
  MaxFailures = 1
CHECK_DEADLOCK FALSE
INVARIANTS
  TypeOK
  UsableMeansProvisioned
  LeftoverHasACause
  AnswersStayTrue
PROPERTIES
  EveryCallEnds
