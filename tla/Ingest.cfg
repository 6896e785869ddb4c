CONSTANTS
  i1 = i1
  i2 = i2
  x1 = x1
  x2 = x2
  bad = bad
  rar = rar
  nightly = nightly
  manual = manual
  Items = {i1, i2}
  Timeline = {i1}
  Contents = {x1, x2, bad, rar}
  Refused = {bad}
  Skipped = {rar}
  Nightly = {nightly}
  Manual = {manual}
  Nothing = Nothing
  AtFirst <- MCAtFirst
  MaxMishaps = 2
SPECIFICATION FairSpec
INVARIANTS
  AccountsAreBacked
  TimelineOnlyGrows
  ProvenanceKept
  SignedAtRest
PROPERTIES
  EveryItemLands
\* An empty source is planned by nobody.
CHECK_DEADLOCK FALSE
