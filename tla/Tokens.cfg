CONSTANTS
  c1 = c1
  c2 = c2
  a1 = a1
  a2 = a2
  s1 = s1
  k1 = k1
  Commands = {c1, c2}
  AgentBindings = {a1, a2}
  Services = {}
  SharedKbs = {k1}
  Ceiling = 1
  MaxTokens = 3
  MaxExpired = 1
SPECIFICATION Spec
INVARIANTS
  OneLiveGeneration
  GenerationsDistinct
  SerialRevocationSticks
  SharedTokenIsDelivered
SYMMETRY Symmetry
\* All MaxTokens minted and revoked: nothing is left to do.
CHECK_DEADLOCK FALSE
