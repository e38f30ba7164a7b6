----------------------------- MODULE ClientLogin ------------------------------
(***************************************************************************)
(* An MCP client on its way in: discovery                                  *)
(* (cmd/mimiops-mcp/server_oauth_discovery.go), the routes and the gate of *)
(* newOIDCHandler (server_oidc.go), and the login through the OAuth proxy  *)
(* composed with them.  The client is external; it does what an MCP client *)
(* does with the answers: it follows the URLs it is given, keeps its       *)
(* dynamic registration for good, and starts over when an attempt fails.   *)
(*                                                                         *)
(* Every step of the client that reaches the proxy is a step of OAuthProxy *)
(* conjoined with what the client makes of the answer.  Mishaps are what   *)
(* may go wrong around them: a restart, the provider failing, a user who   *)
(* declines, an answer that is lost, the one free place taken by somebody  *)
(* else, another loopback port, an expired token.                          *)
(***************************************************************************)
EXTENDS OAuthProxy, Sequences

CONSTANTS
  Modes,       \* how the server is configured: "passthrough", "proxy"
  Roads,       \* the ways a request reaches the server
  Styles,      \* the styles in which clients probe the well-known paths
  Issuer,      \* the origin of cfg.OIDCIssuer
  Port,        \* the loopback redirect URIs the client may open
  Secret,      \* the client's PKCE verifier
  Mine,        \* the goroutine that serves the client's requests
  Theirs,      \* one that serves somebody else
  Other,       \* the cached registration of somebody else
  Rank,        \* an order of the random tokens, and of the ports
  Stale,       \* a token that has expired
  MaxMishaps   \* bound: how many things go wrong

-----------------------------------------------------------------------------
(* Origins, and the URLs the server hands out.                             *)

\* How a request arrives: over TLS or not, its Host, and the members of the
\* X-Forwarded headers; base is the origin the client has in its settings.
Road == [tls : BOOLEAN, host : STRING, proto : Seq(STRING), forwarded : Seq(STRING),
         base : [scheme : STRING, host : STRING]]

URL(origin, path) == [origin |-> origin, path |-> path]

\* Mutant of firstHeaderValue: the proxy nearest to the server has the word.
lastHeaderValue(value, default) ==
  IF value = <<>> THEN default ELSE value[Len(value)]

\* firstHeaderValue, with what originURL falls back to.
firstHeaderValue(value, default) ==
  IF value = <<>> THEN default ELSE Head(value)

\* Each proxy on a road adds its values behind those that it found, and none of
\* them is made up: the first is what the client addressed, and where there is
\* none the client's own connection is the one that arrives.
ASSUME RoadsAssumption ==
  /\ Roads \subseteq Road
  /\ \A r \in Roads :
       /\ r.proto # <<>> => r.base.scheme = r.proto[1]
       /\ r.proto = <<>> => r.base.scheme = IF r.tls THEN "https" ELSE "http"
       /\ r.forwarded # <<>> => r.base.host = r.forwarded[1]
       /\ r.forwarded = <<>> => r.base.host = r.host

originURL(r) ==
  [scheme |-> firstHeaderValue(r.proto, IF r.tls THEN "https" ELSE "http"),
   host   |-> firstHeaderValue(r.forwarded, r.host)]

wellKnownProtectedResource   == <<".well-known", "oauth-protected-resource">>
wellKnownAuthorizationServer == <<".well-known", "oauth-authorization-server">>
mcp == <<"mcp">>

resourceURL(r) == URL(originURL(r), mcp)

\* What a 401 points the client at.
unauthorized(r) == URL(originURL(r), mcp \o wellKnownProtectedResource)

\* The authorization server that the protected resource metadata names.
authorizationServers(mode, r) ==
  IF mode = "proxy" THEN <<originURL(r)>> ELSE <<Issuer>>

\* handleAuthorizationServerMetadata.
AuthorizationServerMetadata(r) ==
  [authorization |-> URL(originURL(r), <<"authorize">>),
   token         |-> URL(originURL(r), <<"token">>),
   registration  |-> URL(originURL(r), <<"register">>)]

-----------------------------------------------------------------------------
(* The routes of newOIDCHandler: exact paths, and subtrees.                *)

Exact(mode) ==
  {<<mcp, "mcp">>,
   <<wellKnownProtectedResource, "resource">>,
   <<mcp \o wellKnownProtectedResource, "resource">>}
  \cup
  (IF mode # "proxy" THEN {} ELSE
    {<<<<"authorize">>, "authorize">>, <<<<"token">>, "token">>,
     <<<<"register">>, "register">>, <<<<"oauth", "callback">>, "callback">>,
     <<wellKnownAuthorizationServer, "server">>,
     <<mcp \o wellKnownAuthorizationServer, "server">>})

Subtrees(mode) ==
  {<<wellKnownProtectedResource, "resource">>}
  \cup (IF mode = "proxy" THEN {<<wellKnownAuthorizationServer, "server">>}
                          ELSE {})

Below(path, root) ==
  Len(path) > Len(root) /\ SubSeq(path, 1, Len(root)) = root

\* Whether the mux hands a request for this path to this handler.
Routes(mode, path, handler) ==
  \/ <<path, handler>> \in Exact(mode)
  \/ \E e \in Subtrees(mode) : e[2] = handler /\ Below(path, e[1])

\* Where clients look for a document of an endpoint like https://host/mcp.
Probe(style, wellKnown) ==
  CASE style = "origin"   -> wellKnown
    [] style = "inserted" -> wellKnown \o mcp
    [] style = "appended" -> mcp \o wellKnown

-----------------------------------------------------------------------------
VARIABLES
  mode,     \* the configuration of the server
  peer,     \* the client
  mishaps   \* how many things have gone wrong

proxy == <<now, clients, sessions, grants, call, login, restarts, history>>
loginVars == <<vars, mode, peer, mishaps>>

Registration == [port : Port, at : Nat, run : Nat]

\* What the client is doing.
PeerAt == {"out", "challenged", "located", "known", "refused", "asked", "signing",
           "signed", "returned", "declined", "coded", "redeeming", "in", "lost"}

\* Where it is, what it was told, and what it keeps.
Peer ==
  [at : PeerAt,
   road : Roads \cup {None},          \* by which it discovers
   cid : ClientId \cup {None},        \* its cached registration
   reg : Registration \cup {None},    \* history: when and for what
   port : Port,                       \* its redirect URI
   state : State \cup {None},         \* of the attempt under way
   code : Code \cup {None},
   token : Login \cup {None, Stale}]

\* Fresh tokens are interchangeable: the least of them is drawn.
Drawn(x, fresh) == \A y \in fresh : Rank[x] <= Rank[y]

least(fresh) == CHOOSE x \in fresh : Drawn(x, fresh)

\* What the client sends to /authorize and /token.
authorizeRequest(cid, port) ==
  [client |-> cid, redirect |-> port,
   challenge |-> pkceChallenge(Secret), method |-> "S256"]

tokenRequest(cid, port) ==
  [client |-> cid, redirect |-> port, verifier |-> Secret]

ASSUME PeerAssumption ==
  /\ Modes \subseteq {"passthrough", "proxy"}
  /\ Styles \subseteq {"origin", "inserted", "appended"}
  /\ Port \subseteq LoopbackHttp /\ Secret \in Verifier /\ Accepted \subseteq Login
  /\ Mine \in Handler /\ Theirs \in Handler /\ Mine # Theirs
  /\ Other \in ClientId
  /\ \E c \in ClientId \ {Other} : Drawn(c, ClientId \ {Other})
  /\ \E p \in Port : Drawn(p, Port)
  /\ \A c \in ClientId, p \in Port : /\ authorizeRequest(c, p) \in AuthRequests
                                     /\ tokenRequest(c, p) \in TokenRequests

\* What a client does not have is none of what it might have.
ASSUME NothingAssumption ==
  None \notin ClientId /\ None \notin Code /\ None \notin Registration

\* The client has a registration from an earlier run of the server, or none.
LoginInit ==
  /\ Init
  /\ mode \in Modes
  /\ \E c \in {least(ClientId \ {Other}), None}, p \in {least(Port)} :
       /\ issued = {c, Other} \ {None}
       /\ peer = [at |-> "out", road |-> None, cid |-> c,
                  reg |-> None, port |-> p, state |-> None, code |-> None,
                  token |-> None]
  /\ mishaps = 0

Free(m) == {k \in DOMAIN m : m[k] = None}

\* The attempt under way has failed; the client starts another.
StartOver == [peer EXCEPT !.at = "known", !.state = None, !.code = None]

NoMishap == UNCHANGED <<mode, mishaps>>

-----------------------------------------------------------------------------
(* Discovery.  The client goes where it is told as long as that is the     *)
(* server it knows.                                                        *)

Served(url, handler) ==
  url.origin = peer.road.base /\ Routes(mode, url.path, handler)

\* withOIDCAuth: without an accepted token the answer is a 401.
CallTool ==
  /\ peer.at = "out"
  /\ \/ /\ peer.token \in Accepted
        /\ peer' = [peer EXCEPT !.at = "in"]
     \/ /\ peer.token \notin Accepted
        /\ \E r \in Roads :
             peer' = [peer EXCEPT !.at = "challenged", !.road = r]
  /\ UNCHANGED proxy /\ NoMishap

\* The client reads the protected resource metadata where the 401 says, or
\* where it guesses.
FetchResource ==
  /\ peer.at = "challenged"
  /\ \E url \in {unauthorized(peer.road)} \cup
                  {URL(peer.road.base, Probe(style, wellKnownProtectedResource)) :
                     style \in Styles} :
       peer' = [peer EXCEPT !.at = IF Served(url, "resource")
                                     THEN "located" ELSE "lost"]
  /\ UNCHANGED proxy /\ NoMishap

\* The server named by the resource is this one: its endpoints are read.
FetchServer ==
  LET server == Head(authorizationServers(mode, peer.road))
      doc == AuthorizationServerMetadata(peer.road)
  IN  /\ peer.at = "located"
      /\ server # Issuer
      /\ \E style \in Styles :
           IF /\ Served(URL(server, Probe(style, wellKnownAuthorizationServer)),
                        "server")
              /\ Served(doc.authorization, "authorize")
              /\ Served(doc.token, "token")
              /\ Served(doc.registration, "register")
             THEN peer' = [peer EXCEPT !.at = "known", !.road = None]
             ELSE peer' = [peer EXCEPT !.at = "lost"]
      /\ UNCHANGED proxy /\ NoMishap

\* It is the issuer: the login there is none of the server's business.
IssuerLogin ==
  /\ peer.at = "located"
  /\ Head(authorizationServers(mode, peer.road)) = Issuer
  /\ \E u \in Accepted :
       /\ Drawn(u, Accepted)
       /\ peer' = [peer EXCEPT !.at = "out", !.token = u, !.road = None]
  /\ UNCHANGED proxy /\ NoMishap

-----------------------------------------------------------------------------
(* The login through the proxy.                                            *)

\* A registration is made once and cached; there may be no room for it.
Register ==
  /\ peer.at = "known" /\ peer.cid = None
  /\ handleRegister({peer.port})
  /\ \/ issued' = issued /\ UNCHANGED peer
     \/ \E c \in issued' \ issued :
          /\ Drawn(c, ClientId \ issued)
          /\ peer' = [peer EXCEPT !.cid = c,
                 !.reg = [port |-> peer.port, at |-> now, run |-> restarts]]
  /\ NoMishap

Ask ==
  /\ peer.at = "known" /\ peer.cid # None
  /\ AuthorizeLookup(Mine, authorizeRequest(peer.cid, peer.port))
  /\ IF call'[Mine].at = "authorize"
       THEN /\ Drawn(call'[Mine].state, FreshStates)
            /\ peer' = [peer EXCEPT !.at = "asked"]
       ELSE peer' = [peer EXCEPT !.at = "refused"]
  /\ NoMishap

AskAgain ==
  /\ peer.at = "refused"
  /\ peer' = StartOver
  /\ UNCHANGED proxy /\ NoMishap

\* /authorize sends the browser to the provider, or answers 503.
Asked ==
  /\ AuthorizeInsert(Mine)
  /\ peer' = IF began' = began THEN StartOver
             ELSE [peer EXCEPT !.at = "signing", !.state = call[Mine].state]
  /\ NoMishap

SignIn ==
  /\ peer.at = "signing"
  /\ \E u \in Login :
       /\ ProviderLogin(u, peer.state)
       /\ Drawn(u, {v \in Login : login[v].state = None})
  /\ peer' = [peer EXCEPT !.at = "signed"]
  /\ NoMishap

\* The provider sends the browser back; the session may be gone.
Return ==
  /\ peer.at = "signed"
  /\ \/ /\ sessions[peer.state] = None
        /\ peer' = StartOver
        /\ UNCHANGED proxy
     \/ /\ \E u \in Login : /\ login[u].state = peer.state
                            /\ CallbackTake(Mine, peer.state, u)
        /\ peer' = [peer EXCEPT !.at = "returned"]
  /\ NoMishap

\* /oauth/callback at work, and its answer.
Returned ==
  /\ \/ CallbackProceeds(Mine) /\ UNCHANGED peer
     \/ exchangeCode(Mine) /\ UNCHANGED peer
     \/ CallbackGivesUp(Mine) /\ peer' = StartOver
     \/ /\ CallbackGrants(Mine)
        /\ \E g \in Code :
             /\ minted'[g] # minted[g] /\ Drawn(g, Free(minted))
             /\ peer' = [peer EXCEPT !.at = "coded", !.code = g]
  /\ NoMishap

\* /token; the code may be gone.
Redeem ==
  /\ peer.at = "coded"
  /\ \/ /\ grants[peer.code] = None
        /\ peer' = StartOver
        /\ UNCHANGED proxy
     \/ /\ TokenTake(Mine, peer.code, tokenRequest(peer.cid, peer.port))
        /\ peer' = [peer EXCEPT !.at = "redeeming"]
  /\ NoMishap

Redeemed ==
  /\ TokenAnswer(Mine)
  /\ \/ delivered' = delivered /\ peer' = StartOver
     \/ \E d \in delivered' \ delivered :
          peer' = [peer EXCEPT !.at = "out", !.token = d.token,
                               !.state = None, !.code = None]
  /\ NoMishap

PeerStep ==
  \/ CallTool \/ FetchResource \/ FetchServer \/ IssuerLogin
  \/ Register \/ Ask \/ AskAgain \/ Asked \/ SignIn
  \/ Return \/ Returned \/ Redeem \/ Redeemed

-----------------------------------------------------------------------------
(* What may go wrong, and what else goes on.                               *)

Mishap ==
  /\ mishaps < MaxMishaps
  /\ mishaps' = mishaps + 1
  /\ UNCHANGED mode

\* Whatever is stored now expires before the clock of the model stops.
WillExpire(ttl) == now + ttl < Horizon

\* The connection of a request in flight breaks.
ServerRestarts ==
  /\ Restart /\ Mishap
  /\ peer' = IF peer.at \in {"asked", "returned", "declined", "redeeming"}
               THEN StartOver ELSE peer

ProviderFails ==
  /\ exchangeFails(Mine) \/ CallbackRejects(Mine)
  /\ Mishap
  /\ peer' = StartOver

\* The user declines, or closes the window and tries again.
UserDeclines ==
  /\ peer.at = "signing"
  /\ \/ /\ CallbackTake(Mine, peer.state, "error")
        /\ peer' = [peer EXCEPT !.at = "declined"]
     \/ /\ WillExpire(SessionTTL)
        /\ UNCHANGED proxy
        /\ peer' = StartOver
  /\ Mishap

AnswerIsLost ==
  /\ \/ AuthorizeInsert(Mine) /\ WillExpire(SessionTTL)
     \/ CallbackGrants(Mine) /\ \E g \in Code : /\ minted'[g] # minted[g]
                                                /\ Drawn(g, Free(minted))
     \/ TokenAnswer(Mine)
  /\ Mishap
  /\ peer' = StartOver

\* The client is restarted and listens on another port.
OtherPort ==
  /\ peer.at = "known" /\ WillExpire(ClientTTL)
  /\ \E p \in Port \ {peer.port} : peer' = [peer EXCEPT !.port = p]
  /\ UNCHANGED proxy /\ Mishap

TokenExpires ==
  /\ peer.at = "in"
  /\ peer' = [peer EXCEPT !.at = "out", !.token = Stale]
  /\ UNCHANGED proxy /\ Mishap

\* Somebody else takes a place in the registry, or among the sessions.
OthersRegister ==
  /\ WillExpire(ClientTTL)
  /\ handleRegister(Port)
  /\ \E c \in issued' \ issued : Drawn(c, ClientId \ issued)
  /\ Mishap /\ UNCHANGED peer

OthersAsk ==
  /\ AuthorizeLookup(Theirs, authorizeRequest(Other, least(Port)))
  /\ call'[Theirs].at = "authorize" /\ Drawn(call'[Theirs].state, FreshStates)
  /\ Mishap /\ UNCHANGED peer

OthersAsked ==
  /\ AuthorizeInsert(Theirs) /\ WillExpire(SessionTTL)
  /\ NoMishap /\ UNCHANGED peer

LoginNext ==
  \/ PeerStep
  \/ ServerRestarts \/ ProviderFails \/ UserDeclines \/ AnswerIsLost
  \/ OtherPort \/ TokenExpires
  \/ OthersRegister \/ OthersAsk \/ OthersAsked
  \/ (sweep \/ Tick) /\ NoMishap /\ UNCHANGED peer

\* The client goes on, the requests it makes are served (the one to the
\* provider has a timeout, http.Client at line 153), and time passes.
LoginSpec ==
  /\ LoginInit /\ [][LoginNext]_loginVars
  /\ WF_loginVars(PeerStep)
  /\ WF_loginVars(Tick /\ NoMishap /\ UNCHANGED peer)

-----------------------------------------------------------------------------
(* Properties.                                                             *)

LoginTypeOK == TypeOK /\ peer \in Peer /\ mode \in Modes /\ mishaps \in Nat

\* Whatever the road and the style of probing, discovery leads to endpoints
\* of the server the client started from (newOIDCHandler: "Clients probe the
\* well-known paths in several styles ... all of them are served").
DiscoveryLeadsHome == peer.at # "lost"

\* However a login goes wrong, the client is let in again in the end: nothing
\* that a failed attempt, a restart or somebody else leaves behind in the
\* three maps, and nothing the client remembers, keeps it out for good.
GetsInAgain == peer.at # "in" ~> peer.at = "in"

\* A client is turned away at /authorize only because this run of the server
\* registered it, less than proxyClientTTL ago, for another redirect URI: no
\* restart and no expiry of its registration turns it away ("Restart-tolerant
\* clients", docs/oidc.md 6.0.1).
RestartTolerant ==
  [][ peer.at # "refused" /\ peer'.at = "refused" =>
        /\ peer.reg # None
        /\ peer.reg.port # peer.port
        /\ peer.reg.run = restarts
        /\ now <= peer.reg.at + ClientTTL ]_loginVars

\* A user who has signed in does not have to do it again unless something
\* failed in that very step, the server restarted, or a time limit passed:
\* what others do to the maps meanwhile costs nobody a login.
NoSignInIsWasted ==
  [][ /\ peer.at \in {"signed", "returned", "coded", "redeeming"}
      /\ peer'.at = "known" /\ mishaps' = mishaps
      => \/ began[peer.state].run # restarts
         \/ now > began[peer.state].at + SessionTTL
         \/ peer.code # None /\ now > minted[peer.code].at + GrantTTL ]_loginVars

-----------------------------------------------------------------------------
(* The inductive invariant behind the safety properties, together with that *)
(* of the proxy: what the client remembers agrees with what the server does *)
(* for it.                                                                 *)

\* It only follows URLs on the way it came.
RoadInv ==
  /\ peer.at \in {"challenged", "located"} => peer.road \in Roads
  /\ DiscoveryLeadsHome

\* What the registry holds for the client is what it registered in this run.
RegistrationInv ==
  peer.cid # None =>
    /\ peer.cid \in issued
    /\ clients[peer.cid] # None =>
         /\ peer.reg # None
         /\ peer.reg.run = restarts
         /\ clients[peer.cid].redirectURIs = {peer.reg.port}
         /\ clients[peer.cid].expires = peer.reg.at + ClientTTL

\* The request that the client waits for is its own, and it waits for no other.
RequestInv ==
  /\ call[Mine].at = "authorize" =>
       /\ peer.at = "asked"
       /\ call[Mine].req = authorizeRequest(peer.cid, peer.port)
  /\ call[Mine].at \in {"callback", "exchanging", "exchanged"} =>
       /\ peer.at \in {"returned", "declined"}
       /\ call[Mine].state = peer.state
       /\ peer.at = "returned" /\ call[Mine].at = "callback" =>
            call[Mine].param \in Login
  /\ call[Mine].at = "redeem" =>
       /\ peer.at = "redeeming"
       /\ call[Mine].code = peer.code
       /\ call[Mine].req = tokenRequest(peer.cid, peer.port)

attempting == {"signing", "signed", "returned", "declined", "coded", "redeeming"}

\* The session of the attempt under way is one that the client asked for.  Until
\* it is used it is there, if neither a restart nor its expiry removed it, and so
\* is the code that it leads to.
AttemptInv ==
  /\ \A s \in State : began[s] # None => began[s].run <= restarts
  /\ peer.at \in attempting =>
       /\ peer.state \in State
       /\ began[peer.state] # None
       /\ began[peer.state].session =
            [client |-> peer.cid, redirect |-> peer.port,
             challenge |-> pkceChallenge(Secret), method |-> "S256",
             expires |-> began[peer.state].at + SessionTTL]
  /\ peer.at \in {"signing", "signed"} =>
       \/ sessions[peer.state] # None
       \/ began[peer.state].run # restarts
       \/ now > began[peer.state].at + SessionTTL
  /\ peer.at \in {"coded", "redeeming"} =>
       /\ peer.code \in Code
       /\ minted[peer.code] # None
       /\ StateOf(peer.code) = peer.state
  /\ peer.at = "coded" =>
       \/ grants[peer.code] # None
       \/ began[peer.state].run # restarts
       \/ now > minted[peer.code].at + GrantTTL

LoginIInv ==
  LoginTypeOK /\ RoadInv /\ RegistrationInv /\ RequestInv /\ AttemptInv

=============================================================================
