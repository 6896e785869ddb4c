CONSTANTS
  c1 = c1
  c2 = c2
  r1 = r1
  Clients = {c1, c2}
  Recoverers = {r1}
  MaxSafeInt = 3
  MaxTxns = 4
  MaxStops = 1
SPECIFICATION FairSpec
INVARIANTS
  NoLostUpdate
PROPERTIES
  ImplementsRegister
  JournalsDrain
CHECK_DEADLOCK FALSE
