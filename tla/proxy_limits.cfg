\* The limits reached: room for one client and one session, two states.
SPECIFICATION FairSpec
CONSTANTS
  c1 = c1
  c2 = c2
  r1 = r1
  r2 = r2
  rs = rs
  v1 = v1
  v2 = v2
  None = None
  ClientId = {c1, c2}
  Redirect = {r1, r2, rs}
  LoopbackHttp = {r1, r2}
  Https = {rs}
  Verifier = {v1, v2}
  State = {s1, s2}
  Code = {g1}
  Login = {u1}
  Accepted = {u1}
  Handler = {h1, h2}
  AuthRequests <- LimitAuthRequests
  TokenRequests <- LimitTokenRequests
  MaxClients = 1
  MaxSessions = 1
  ClientTTL = 0
  SessionTTL = 0
  GrantTTL = 0
  Horizon = 1
  MaxRestarts = 0
INVARIANTS
  RegisteredRedirect
  CapacityBound
PROPERTIES
  RefusedOnlyWhenFull
  ExpiredAreSwept
