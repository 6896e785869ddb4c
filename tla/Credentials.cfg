CONSTANTS
  c1 = c1
  c2 = c2
  t1 = t1
  Clients = {c1, c2}
  Tenants = {t1}
  Keys = {t1}
  Absent = Absent
  StatusesInPlay = {"active", "offboarded"}
  MaxSafeEpoch = 4
  MaxForeign = 2
  MaxTxns = 4
  MaxCrashes = 1
SPECIFICATION Spec
INVARIANTS
  RetiredNeverInForce
  FinalizeNotBlocked
PROPERTIES
  ImplementsReference
SYMMETRY Symmetry
\* All MaxTxns transactions made: nothing is left to do.
CHECK_DEADLOCK FALSE
