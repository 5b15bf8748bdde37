SPECIFICATION ServiceStoreSpec
CONSTANTS
  Principal = {"p1", "p2"}
  MaxClock = 2
  Digest = {"d1", "d2", "d3"}
  TokenId <- MCTokenId
  Bootstrap <- MCBootstrap
  Window <- MCWindow
  LegacyRows <- MCLegacyRows
  PolicyId = {"a", "b"}
  PolicyOf <- MCPolicyOf
  Run = {"r1", "r2"}
  Key = {"k"}
  ReservationId = {i1, i2, i3}
  Scope = {"s", "other"}
  Units = {1}
  Actual = {0, 2}
  Day <- MCDay
  Month <- MCMonth
  None = None
SYMMETRY CallSymmetry
INVARIANTS
  ServiceStoreTypeOK
  RetiredStaysRetired
  OneOwnerEver
  OnlyAdmittedVerify
  WithinBudget
  OwnerKept
PROPERTIES
  RevokedForGood
  ServesLeases
