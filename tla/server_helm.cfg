\* The same instance: do helm tools act as their caller?
SPECIFICATION Spec
SYMMETRY Symmetry
CONSTANTS
  a = a
  b = b
  t1 = t1
  t2 = t2
  t3 = t3
  d1 = d1
  d2 = d2
  None = None
  Context = {1, 2, 3, 4}
  Cluster = {a, b}
  Token = {t1, t2, t3}
  Domain = {d1, d2}
  Claims <- ServerClaims
  Handler = {h1, h2}
  Configs <- ServerConfigs
  Requests <- ServerRequests
INVARIANTS
  HelmActsAsCaller
CHECK_DEADLOCK FALSE
