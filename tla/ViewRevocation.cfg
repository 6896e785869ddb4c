CONSTANTS
  g1 = g1
  w1 = w1
  r1 = r1
  a1 = a1
  Grants = {g1}
  NoKey = NoKey
  Writers = {w1}
  Recoverers = {r1}
  Consumers = {"tenant_view", "cache"}
  StatusesInPlay = {"pilot", "active", "suspended"}
  LeaseTTL = 1
  MaxSafeEpoch = 3
  MaxClock = 1
  MaxRebinds = 0
  MaxCrashes = 1
  Agents = {a1}
  MaxRevision = 2
SPECIFICATION TSpec
INVARIANTS
  RevokedNeverServed
  CleanupIsDone
