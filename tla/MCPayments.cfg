\* Two retries of one order, and three calls for one external id: two of them are
\* retries with a key that may expire, and what the third books may be refunded or
\* charged back by two overlapping calls.
SPECIFICATION Spec
CONSTANTS
  Scale = 1
  Whole = 10
  Wallets = {"p"}
  NoWallet = none
  Keys = {k1, k2}
  Responses = {i1, i2, i3, i4, i5}
  Ingests = {i1, i2, i3, i4, i5}
  Undos = {u1, u2}
  Undoable = {i5}
  Retries = {i1, i2}
  Keyed = {i3, i4}
  External = x
  FirstKey = k1
  SecondKey = k2
  NoKey = nokey
  NoExternal = noext
  KeyOf <- MCKeyOf
  ExternalOf <- MCExternalOf
  OrderOf <- MCOrderOf
  Expiring = {k2}
  MaxFailures = 1
SYMMETRY Symmetric
CHECK_DEADLOCK FALSE
INVARIANTS
  TypeOK
  OncePerExternalId
  AnnouncesTruly
  OneBookingPerKey
  LockedOutByDuplicate
  StatusHasItsReversal
  MatchedUntilReversed
