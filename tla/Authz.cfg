CONSTANTS
  p1 = p1
  p2 = p2
  s1 = s1
  ops = ops
  b1 = b1
  t1 = t1
  t2 = t2
  Persons = {p1, p2}
  Services = {s1}
  Ops = ops
  Banks = {b1}
  Editors = {p2}
  Tokens = {t1, t2}
  Legacy = {t1}
  KeyOf <- MCKeyOf
  AgentOf <- MCAgentOf
  ScopeOf <- MCScopeOf
  Nobody = Nobody
  MaxVersion = 4
SPECIFICATION Spec
INVARIANTS
  BankIsOwned
  MigrationIsFaithful
PROPERTIES
  NoBlindEdit
