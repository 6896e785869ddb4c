CONSTANTS
  c1 = c1
  c2 = c2
  q1 = q1
  r1 = r1
  x1 = x1
  x2 = x2
  bad = bad
  Clients = {c1, c2}
  Readers = {q1}
  Reports = {r1}
  MaxObjects = 3
  NPaths = 2
  Contents = {x1, x2, bad}
  Quarantined = {bad}
  ReportOf <- MCReportOf
  VersionOf <- MCVersionOf
  Trees <- MCTrees
  Runs = {"run1"}
  MaxBatches = 2
  MaxMishaps = 2
SPECIFICATION Spec
INVARIANTS
  PublishedStays
  ResolvedIsCurrent
  CrosswalkBacked
  ManifestAccounts
  BatchIsTheSnapshot
  CleanReportIsTrue
SYMMETRY Symmetry
