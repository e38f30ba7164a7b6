\* Two handlers at once over two logins, with expiry within two ticks and one
\* restart.
SPECIFICATION Spec
SYMMETRY Symmetry
CONSTANTS
  c1 = c1
  c2 = c2
  r1 = r1
  r2 = r2
  rs = rs
  v1 = v1
  v2 = v2
  None = None
  ClientId = {c1, c2}
  Redirect = {r1, rs}
  LoopbackHttp = {r1}
  Https = {rs}
  Verifier = {v1, v2}
  State = {s1, s2}
  Code = {g1, g2}
  Login = {u1, u2}
  Accepted = {u1, u2}
  Handler = {h1, h2}
  AuthRequests <- RaceAuthRequests
  TokenRequests <- RaceTokenRequests
  MaxClients = 1
  MaxSessions = 2
  ClientTTL = 1
  SessionTTL = 1
  GrantTTL = 0
  Horizon = 2
  MaxRestarts = 1
INVARIANTS
  CodeRedeemedOnce
  OneCodePerSession
  TokenReachesItsRequester
  RestartAbortsLogins
  CodesExpire
  IInv
PROPERTIES
  SessionsExpire
  ImplementsLoginFlow
