\* Five calls of any kind, one or two companies, three events of which two are remembered,
\* and a restart.
SPECIFICATION Spec
CONSTANTS
  Calls = {c1, c2, c3, c4, c5}
  Realms = {q1, q2}
  NoRealm = norealm
  Mock = mock
  Nobody = nobody
  NoToken = notoken
  QboTokens <- MCQboTokens
  PlaidTokens <- MCPlaidTokens
  Events = {e1, e2, e3}
  MaxProcessed = 2
  MaxRestarts = 1
SYMMETRY Symmetric
CHECK_DEADLOCK FALSE
INVARIANTS
  TypeOK
  ConnectionIsLatest
  TokenNamesItsCompany
  RepeatsAreFarApart
PROPERTIES
  SectionsKeptApart
