\* Two calls at once through the gate, the cluster cache and the API, under every
\* way of starting the server.  A server that failed to start stops.
SPECIFICATION Spec
SYMMETRY Symmetry
CONSTANTS
  a = a
  b = b
  t1 = t1
  t2 = t2
  t3 = t3
  d1 = d1
  d2 = d2
  None = None
  Context = {1, 2, 3, 4}
  Cluster = {a, b}
  Token = {t1, t2, t3}
  Domain = {d1, d2}
  Claims <- ServerClaims
  Handler = {h1, h2}
  Configs <- ServerConfigs
  Requests <- ServerRequests
INVARIANTS
  ActsAsCaller
  ReachesNamedCluster
  NothingChangesWithoutOptIn
  OnlyAdmittedCallersReach
  CacheIsAnonymous
CHECK_DEADLOCK FALSE
