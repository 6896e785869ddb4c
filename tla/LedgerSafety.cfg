CONSTANTS
  g1 = g1
  g2 = g2
  w1 = w1
  w2 = w2
  r1 = r1
  Grants = {g1}
  NoKey = NoKey
  Writers = {w1, w2}
  Recoverers = {r1}
  Consumers = {"tenant_view"}
  StatusesInPlay = {"active", "suspended"}
  LeaseTTL = 1
  MaxSafeEpoch = 3
  MaxClock = 2
  MaxRebinds = 2
  MaxCrashes = 1
SPECIFICATION Spec
INVARIANTS
  TypeOK
  BegunStaysBarred
  ReceiptIsBacked
  OneTransaction
PROPERTIES
  ImplementsPromise
SYMMETRY Symmetry
