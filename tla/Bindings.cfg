CONSTANTS
  c1 = c1
  c2 = c2
  t1 = t1
  t2 = t2
  a1 = a1
  q1 = q1
  Clients = {c1, c2}
  Tenants = {t1, t2}
  Keys <- MCKeys
  Absent = Absent
  StatusesInPlay = {"active"}
  MaxSafeEpoch = 4
  MaxForeign = 2
  MaxTxns = 3
  MaxCrashes = 0
  Agents = {a1}
  Requests = {q1}
  MaxSecret = 2
SPECIFICATION BindingSpec
INVARIANTS
  RevocationReachesContexts
  AuditTrail
SYMMETRY Symmetry
\* All MaxTxns transactions made: nothing is left to do.
CHECK_DEADLOCK FALSE
