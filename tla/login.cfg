\* One client through discovery and login, with two mishaps on its way.
SPECIFICATION LoginSpec
CONSTANTS
  c1 = c1
  c2 = c2
  c3 = c3
  s1 = s1
  s2 = s2
  s3 = s3
  s4 = s4
  s5 = s5
  g1 = g1
  g2 = g2
  g3 = g3
  g4 = g4
  g5 = g5
  u1 = u1
  u2 = u2
  u3 = u3
  u4 = u4
  u5 = u5
  r1 = r1
  r2 = r2
  None = None
  Stale = Stale
  ClientId = {c1, c2, c3}
  Redirect = {r1, r2}
  LoopbackHttp = {r1, r2}
  Https = {}
  Verifier = {v1}
  State = {s1, s2, s3, s4, s5}
  Code = {g1, g2, g3, g4, g5}
  Login = {u1, u2, u3, u4, u5}
  Accepted = {u1, u2, u3, u4, u5}
  Handler = {h1, h2}
  AuthRequests <- PeerAuthRequests
  TokenRequests <- PeerTokenRequests
  MaxClients = 1
  MaxSessions = 1
  ClientTTL = 0
  SessionTTL = 0
  GrantTTL = 0
  Horizon = 1
  MaxRestarts = 1
  Modes = {"passthrough", "proxy"}
  Roads <- AllRoads
  Styles = {"origin", "inserted", "appended"}
  Issuer <- IssuerOrigin
  Port = {r1, r2}
  Secret = v1
  Mine = h1
  Theirs = h2
  Other = c3
  Rank <- Order
  MaxMishaps = 2
INVARIANTS
  DiscoveryLeadsHome
PROPERTIES
  GetsInAgain
  RestartTolerant
  NoSignInIsWasted
