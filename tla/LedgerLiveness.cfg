CONSTANTS
  g1 = g1
  g2 = g2
  w1 = w1
  w2 = w2
  r1 = r1
  Grants = {g1, g2}
  NoKey = NoKey
  Writers = {w1}
  Recoverers = {r1}
  Consumers = {"tenant_view"}
  StatusesInPlay = {"active"}
  LeaseTTL = 1
  MaxSafeEpoch = 4
  MaxClock = 1
  MaxRebinds = 0
  MaxCrashes = 1
SPECIFICATION FairSpec
PROPERTIES
  RevocationCompletesOrDrifts
