----------------------------- MODULE OAuthProxy -----------------------------
(***************************************************************************)
(* The OAuth 2.0 authorization-server proxy of                             *)
(* cmd/mimiops-mcp/server_oauth_proxy.go: the three in-memory maps under   *)
(* one mutex, the handlers /register, /authorize, /oauth/callback and      *)
(* /token as the steps they take between lock and unlock, the sweeper, and *)
(* a restart, which loses everything the maps hold.                        *)
(*                                                                         *)
(* A handler that releases the mutex and goes on is an in-flight call      *)
(* (call[h]); other handlers, the sweeper, the clock and a restart move    *)
(* between its steps.  Random tokens are fresh members of ClientId, State  *)
(* and Code.  The upstream provider is external: it binds each             *)
(* authorization code (a Login) to the PKCE challenge of the authorization *)
(* request it answers, and redeems it once.  The proxy's own PKCE verifier *)
(* towards the provider is drawn with the state and identified with it,    *)
(* and the token of a login is identified with the login.                  *)
(***************************************************************************)
EXTENDS Naturals, FiniteSets

CONSTANTS
  ClientId,       \* dynamically registered client ids
  Redirect,       \* redirect URIs that clients send
  LoopbackHttp,   \* the http URIs on a loopback host among them
  Https,          \* the https URIs among them
  Verifier,       \* the PKCE verifiers that clients hold
  State,          \* upstream states, with the PKCE verifier drawn beside each
  Code,           \* proxy authorization codes
  Login,          \* upstream authorization codes, and the token of each
  Accepted,       \* the logins whose token oidc.Verifier.Verify accepts
  Handler,        \* goroutines serving requests: bounds the calls in flight
  AuthRequests,   \* the /authorize requests that arrive
  TokenRequests,  \* the /token requests that arrive, without their code
  MaxClients,     \* maxProxyClients
  MaxSessions,    \* maxProxySessions
  ClientTTL,      \* proxyClientTTL, in clock ticks
  SessionTTL,     \* proxySessionTTL
  GrantTTL,       \* proxyGrantTTL
  Horizon,        \* bound: the last tick of the clock
  MaxRestarts,    \* bound: how often the server restarts
  None            \* a missing map entry or an empty parameter

-----------------------------------------------------------------------------
(* The values the maps hold.                                               *)

\* A PKCE challenge is the verifier itself or its SHA-256.
Challenge == [hashed : BOOLEAN, of : Verifier]

\* The challenge of an S256 client.
pkceChallenge(v) == [hashed |-> TRUE, of |-> v]

pkceMatches(challenge, v, method) ==
  IF method = "S256" THEN challenge = pkceChallenge(v)
                     ELSE challenge = [hashed |-> FALSE, of |-> v]

Method == {"S256", "plain"}

AuthRequest == [client : ClientId, redirect : Redirect,
                challenge : Challenge \cup {None},
                method : Method \cup {"", "unsupported"}]

\* What handleAuthorize lets past its validation of the PKCE parameters.
ValidRequest ==
  {req \in AuthRequest : req.challenge # None /\ req.method # "unsupported"}

TokenRequest == [client : ClientId, redirect : Redirect,
                 verifier : Verifier \cup {None}]

proxyClient == [redirectURIs : SUBSET Redirect, expires : Nat]

proxySession == [client : ClientId, redirect : Redirect,
                 challenge : Challenge, method : Method, expires : Nat]

proxyGrant == [token : Login, client : ClientId, redirect : Redirect,
               challenge : Challenge, method : Method, expires : Nat]

\* What /callback finds in the query: an upstream error, no code, or a code.
CallbackParam == Login \cup {"error", ""}

Idle == [at |-> "idle"]

\* A call in flight, by the point it has reached: a validated authorization
\* request before its second lock; a callback that holds the session it took;
\* one that is asking the provider; one that holds the provider's token; a
\* token request that holds the grant it took.
Call ==
  {Idle}
  \cup [at : {"authorize"}, state : State, req : ValidRequest]
  \cup [at : {"callback"}, state : State, session : proxySession,
        param : CallbackParam]
  \cup [at : {"exchanging", "exchanged"}, state : State,
        session : proxySession, token : Login]
  \cup [at : {"redeem"}, code : Code, grant : proxyGrant,
        req : TokenRequest]

\* What the provider remembers of a login, and the records of the history.
LoginRecord == [state : State \cup {None}, used : BOOLEAN]
BeganRecord == [session : proxySession, at : Nat, run : Nat]
MintedRecord == [grant : proxyGrant, at : Nat]
Delivery == [code : Code, token : Login, client : ClientId,
             redirect : Redirect, verifier : Verifier, at : Nat, run : Nat]

ASSUME ConstantsAssumption ==
  /\ LoopbackHttp \subseteq Redirect /\ Https \subseteq Redirect
  /\ AuthRequests \subseteq AuthRequest
  /\ TokenRequests \subseteq TokenRequest
  /\ MaxClients \in Nat \ {0} /\ MaxSessions \in Nat \ {0}
  /\ ClientTTL \in Nat /\ SessionTTL \in Nat /\ GrantTTL \in Nat
  /\ Horizon \in Nat /\ MaxRestarts \in Nat

\* The missing value is no record of a map and no parameter.
ASSUME NoneAssumption ==
  /\ None \notin proxyClient /\ None \notin proxySession
  /\ None \notin proxyGrant /\ None \notin Challenge
  /\ None \notin Verifier /\ None \notin State
  /\ None \notin BeganRecord /\ None \notin MintedRecord

-----------------------------------------------------------------------------
VARIABLES
  now,        \* time.Now()
  clients,    \* oauthProxy.clients
  sessions,   \* oauthProxy.sessions
  grants,     \* oauthProxy.grants
  call,       \* the handlers in flight
  login,      \* the provider: the state each login answers, and if redeemed
  restarts,   \* number of restarts so far
  \* history: never read by a step of the proxy except to draw fresh tokens
  issued,     \* client ids handed out, by earlier runs of the server too
  began,      \* the session inserted under each state, when, in which run
  minted,     \* the grant inserted under each code, and when
  redeemed,   \* how often each code was answered with a token
  delivered   \* what /token answered to whom

proxyVars == <<clients, sessions, grants>>
history   == <<issued, began, minted, redeemed, delivered>>
vars == <<now, clients, sessions, grants, call, login, restarts,
          issued, began, minted, redeemed, delivered>>

Init ==
  /\ now = 0
  /\ clients  = [c \in ClientId |-> None]
  /\ sessions = [s \in State |-> None]
  /\ grants   = [g \in Code |-> None]
  /\ call     = [h \in Handler |-> Idle]
  /\ login    = [u \in Login |-> [state |-> None, used |-> FALSE]]
  /\ restarts = 0
  /\ issued \in SUBSET ClientId
  /\ began    = [s \in State |-> None]
  /\ minted   = [g \in Code |-> None]
  /\ redeemed = [g \in Code |-> 0]
  /\ delivered = {}

-----------------------------------------------------------------------------
(* Helpers shared by the handlers.                                         *)

\* No code path assigns oauthProxy.allowedRedirectPrefixes; a prefix is the
\* set of URIs that start with it.
allowedRedirectPrefixes == {}

allowedRedirectURI(uri) ==
  \/ uri \in LoopbackHttp
  \/ uri \in Https /\ \E prefix \in allowedRedirectPrefixes : uri \in prefix

Present(m) == {k \in DOMAIN m : m[k] # None}
Count(m) == Cardinality(Present(m))

\* time.Now().After(expires): an entry is still good at its expiry instant.
Expired(entry) == now > entry.expires

\* cleanupLocked on one of the maps.
Swept(m) == [k \in DOMAIN m |-> IF m[k] # None /\ Expired(m[k])
                                THEN None ELSE m[k]]

\* Mutant of MakeRoom: make room by dropping what is pending.
MakeRoomByForce(m, full) == IF full THEN [k \in DOMAIN m |-> None] ELSE m

\* Mutant of MakeRoom: refuse a request without looking for expired entries.
MakeNoRoom(m, full) == m

\* A full map makes its handler run cleanupLocked, on all three maps.
MakeRoom(m, full) == IF full THEN Swept(m) ELSE m

Goto(h, c) == call' = [call EXCEPT ![h] = c]
-----------------------------------------------------------------------------
(* /register.                                                              *)

registerClient(uris) ==
  LET full == Count(clients) >= MaxClients
      kept == MakeRoom(clients, full)
  IN  /\ sessions' = MakeRoom(sessions, full)
      /\ grants' = MakeRoom(grants, full)
      /\ \/ /\ Count(kept) >= MaxClients
            /\ clients' = kept
            /\ UNCHANGED issued
         \/ /\ Count(kept) < MaxClients
            /\ \E c \in ClientId \ issued :
                 /\ clients' = [kept EXCEPT ![c] =
                       [redirectURIs |-> uris, expires |-> now + ClientTTL]]
                 /\ issued' = issued \cup {c}

handleRegister(uris) ==
  /\ uris # {}
  /\ \A uri \in uris : allowedRedirectURI(uri)
  /\ registerClient(uris)
  /\ UNCHANGED <<now, call, login, restarts, began, minted, redeemed, delivered>>

-----------------------------------------------------------------------------
(* /authorize: the client is looked up in one critical section and the     *)
(* session inserted in another; in between the call holds the request.     *)

\* Mutant of Registered: the sweeper is trusted to have been there.
RegisteredOnce(c) == clients[c] # None

Registered(c) == clients[c] # None /\ ~Expired(clients[c])

\* Mutant of Admits: a client has to be in the registry.
AdmitsRegistered(req) ==
  /\ Registered(req.client)
  /\ req.redirect \in clients[req.client].redirectURIs
  /\ req.challenge # None
  /\ req.method # "unsupported"

\* What the handler checks before its second lock.
Admits(req) ==
  /\ IF Registered(req.client)
       THEN req.redirect \in clients[req.client].redirectURIs
       ELSE allowedRedirectURI(req.redirect)
  /\ req.challenge # None
  /\ req.method # "unsupported"

\* Mutant of ForgetExpired: an expired registration stays for the sweeper.
ForgetNothing(c) == UNCHANGED clients

\* An expired registration is deleted on the way, whatever the answer.
ForgetExpired(c) ==
  clients' = IF clients[c] # None /\ Expired(clients[c])
               THEN [clients EXCEPT ![c] = None] ELSE clients

\* The state is drawn by randomToken before the second lock.
FreshStates ==
  {s \in State : /\ began[s] = None
                 /\ \A h \in Handler : call[h].at = "authorize"
                                        => call[h].state # s}

AuthorizeLookup(h, req) ==
  /\ call[h].at = "idle"
  /\ req.client \in issued
  /\ ForgetExpired(req.client)
  /\ \/ ~Admits(req) /\ UNCHANGED call
     \/ /\ Admits(req)
        /\ \E s \in FreshStates :
             Goto(h, [at |-> "authorize", state |-> s, req |-> req])
  /\ UNCHANGED <<now, sessions, grants, login, restarts, history>>

\* An absent code_challenge_method means plain.
SessionFor(req) ==
  [client |-> req.client, redirect |-> req.redirect,
   challenge |-> req.challenge,
   method |-> IF req.method = "" THEN "plain" ELSE req.method,
   expires |-> now + SessionTTL]

\* Mutant of SessionsHaveRoom: rely on a check made before the lock.
SessionsAlwaysHaveRoom(kept) == TRUE

SessionsHaveRoom(kept) == Count(kept) < MaxSessions

AuthorizeInsert(h) ==
  LET full == Count(sessions) >= MaxSessions
      kept == MakeRoom(sessions, full)
      s == call[h].state
      session == SessionFor(call[h].req)
  IN  /\ call[h].at = "authorize"
      /\ clients' = MakeRoom(clients, full)
      /\ grants' = MakeRoom(grants, full)
      /\ \/ /\ ~SessionsHaveRoom(kept)
            /\ sessions' = kept
            /\ UNCHANGED began
         \/ /\ SessionsHaveRoom(kept)
            /\ sessions' = [kept EXCEPT ![s] = session]
            /\ began' = [began EXCEPT ![s] =
                  [session |-> session, at |-> now, run |-> restarts]]
      /\ Goto(h, Idle)
      /\ UNCHANGED <<now, login, restarts, issued, minted, redeemed, delivered>>

-----------------------------------------------------------------------------
(* /oauth/callback: the session is taken out under the lock; the exchange  *)
(* with the provider and the verification of the token run without it.     *)

\* Mutant of CallbackTake: the session is read, and left to expire.
CallbackRead(h, s, param) ==
  /\ call[h].at = "idle"
  /\ sessions[s] # None
  /\ Goto(h, [at |-> "callback", state |-> s,
              session |-> sessions[s], param |-> param])
  /\ UNCHANGED <<now, clients, sessions, grants, login, restarts, history>>

\* An unknown state is answered with 400 and changes nothing.
CallbackTake(h, s, param) ==
  /\ call[h].at = "idle"
  /\ sessions[s] # None
  /\ sessions' = [sessions EXCEPT ![s] = None]
  /\ Goto(h, [at |-> "callback", state |-> s,
              session |-> sessions[s], param |-> param])
  /\ UNCHANGED <<now, clients, grants, login, restarts, history>>

\* Expired session, error forwarded to the client, or no code.
CallbackGivesUp(h) ==
  /\ call[h].at = "callback"
  /\ Expired(call[h].session) \/ call[h].param \notin Login
  /\ Goto(h, Idle)
  /\ UNCHANGED <<now, clients, sessions, grants, login, restarts, history>>

\* Mutant of CallbackProceeds: the expiry of the session is not looked at.
CallbackProceedsLate(h) ==
  /\ call[h].at = "callback"
  /\ call[h].param \in Login
  /\ Goto(h, [at |-> "exchanging", state |-> call[h].state,
              session |-> call[h].session, token |-> call[h].param])
  /\ UNCHANGED <<now, clients, sessions, grants, login, restarts, history>>

\* The request to the provider goes out; its answer takes as long as it takes.
CallbackProceeds(h) ==
  /\ call[h].at = "callback"
  /\ ~Expired(call[h].session)
  /\ call[h].param \in Login
  /\ Goto(h, [at |-> "exchanging", state |-> call[h].state,
              session |-> call[h].session, token |-> call[h].param])
  /\ UNCHANGED <<now, clients, sessions, grants, login, restarts, history>>

\* The provider answers the code to the holder of its PKCE verifier, once.
ProviderAccepts(u, s) == login[u].state = s /\ ~login[u].used

exchangeCode(h) ==
  /\ call[h].at = "exchanging"
  /\ ProviderAccepts(call[h].token, call[h].state)
  /\ login' = [login EXCEPT ![call[h].token].used = TRUE]
  /\ Goto(h, [at |-> "exchanged", state |-> call[h].state,
              session |-> call[h].session, token |-> call[h].token])
  /\ UNCHANGED <<now, clients, sessions, grants, restarts, history>>

\* The provider refuses the code, cannot be reached, or its answer is lost
\* (timeout, cancelled request) after the code has been redeemed.
exchangeFails(h) ==
  /\ call[h].at = "exchanging"
  /\ \/ UNCHANGED login
     \/ /\ ProviderAccepts(call[h].token, call[h].state)
        /\ login' = [login EXCEPT ![call[h].token].used = TRUE]
  /\ Goto(h, Idle)
  /\ UNCHANGED <<now, clients, sessions, grants, restarts, history>>

GrantFor(session, u) ==
  [token |-> u, client |-> session.client, redirect |-> session.redirect,
   challenge |-> session.challenge, method |-> session.method,
   expires |-> now + GrantTTL]

CallbackGrants(h) ==
  /\ call[h].at = "exchanged"
  /\ call[h].token \in Accepted
  /\ \E g \in Code :
       LET grant == GrantFor(call[h].session, call[h].token) IN
       /\ minted[g] = None
       /\ grants' = [grants EXCEPT ![g] = grant]
       /\ minted' = [minted EXCEPT ![g] = [grant |-> grant, at |-> now]]
  /\ Goto(h, Idle)
  /\ UNCHANGED <<now, clients, sessions, login, restarts,
                 issued, began, redeemed, delivered>>

\* Verify rejects the token, or fails to fetch the provider's keys.
CallbackRejects(h) ==
  /\ call[h].at = "exchanged"
  /\ Goto(h, Idle)
  /\ UNCHANGED <<now, clients, sessions, grants, login, restarts, history>>

-----------------------------------------------------------------------------
(* /token: the grant is burned under the lock before anything is checked.  *)

\* Mutant of TokenTake: the grant is burned only by its expiry.
TokenRead(h, g, req) ==
  /\ call[h].at = "idle"
  /\ grants[g] # None
  /\ Goto(h, [at |-> "redeem", code |-> g, grant |-> grants[g], req |-> req])
  /\ UNCHANGED <<now, clients, sessions, grants, login, restarts, history>>

TokenTake(h, g, req) ==
  /\ call[h].at = "idle"
  /\ grants[g] # None
  /\ grants' = [grants EXCEPT ![g] = None]
  /\ Goto(h, [at |-> "redeem", code |-> g, grant |-> grants[g], req |-> req])
  /\ UNCHANGED <<now, clients, sessions, login, restarts, history>>

\* Mutant of Redeems: the expiry of the grant is left to the sweeper.
RedeemsLate(grant, req) ==
  /\ grant.client = req.client
  /\ grant.redirect = req.redirect
  /\ req.verifier # None
  /\ pkceMatches(grant.challenge, req.verifier, grant.method)

\* Mutant of Redeems: possession of the verifier is taken for the identity.
RedeemsAnyClient(grant, req) ==
  /\ ~Expired(grant)
  /\ grant.redirect = req.redirect
  /\ req.verifier # None
  /\ pkceMatches(grant.challenge, req.verifier, grant.method)

Redeems(grant, req) ==
  /\ ~Expired(grant)
  /\ grant.client = req.client
  /\ grant.redirect = req.redirect
  /\ req.verifier # None
  /\ pkceMatches(grant.challenge, req.verifier, grant.method)

TokenAnswer(h) ==
  /\ call[h].at = "redeem"
  /\ LET g == call[h].code
         grant == call[h].grant
         req == call[h].req
     IN  \/ ~Redeems(grant, req) /\ UNCHANGED <<redeemed, delivered>>
         \/ /\ Redeems(grant, req)
            /\ redeemed' = [redeemed EXCEPT ![g] = @ + 1]
            /\ delivered' = delivered \cup
                 {[code |-> g, token |-> grant.token, client |-> req.client,
                   redirect |-> req.redirect, verifier |-> req.verifier,
                   at |-> now, run |-> restarts]}
  /\ Goto(h, Idle)
  /\ UNCHANGED <<now, clients, sessions, grants, login, restarts,
                 issued, began, minted>>

-----------------------------------------------------------------------------
(* The sweeper, the clock, a restart and the provider.                     *)

\* Mutant of sweep: grants are left to their redemption.
sweepWithoutGrants ==
  /\ clients' = Swept(clients)
  /\ sessions' = Swept(sessions)
  /\ UNCHANGED <<now, grants, call, login, restarts, history>>

sweep ==
  /\ clients' = Swept(clients)
  /\ sessions' = Swept(sessions)
  /\ grants' = Swept(grants)
  /\ UNCHANGED <<now, call, login, restarts, history>>

Tick ==
  /\ now < Horizon
  /\ now' = now + 1
  /\ UNCHANGED <<clients, sessions, grants, call, login, restarts, history>>

\* Mutant of Restart: pending sessions survive it.
RestartWithSessions ==
  /\ restarts < MaxRestarts
  /\ restarts' = restarts + 1
  /\ clients' = [c \in ClientId |-> None]
  /\ grants' = [g \in Code |-> None]
  /\ call' = [h \in Handler |-> Idle]
  /\ UNCHANGED <<now, sessions, login, history>>

\* The maps are in memory only and the calls in flight die with the process.
Restart ==
  /\ restarts < MaxRestarts
  /\ restarts' = restarts + 1
  /\ clients' = [c \in ClientId |-> None]
  /\ sessions' = [s \in State |-> None]
  /\ grants' = [g \in Code |-> None]
  /\ call' = [h \in Handler |-> Idle]
  /\ UNCHANGED <<now, login, history>>

\* A user logs in at the provider, following the redirect of /authorize.
ProviderLogin(u, s) ==
  /\ login[u].state = None
  /\ began[s] # None
  /\ login' = [login EXCEPT ![u].state = s]
  /\ UNCHANGED <<now, clients, sessions, grants, call, restarts, history>>

-----------------------------------------------------------------------------
\* What a handler does by itself once its request is in.
HandlerStep(h) ==
  \/ AuthorizeInsert(h)
  \/ CallbackGivesUp(h) \/ CallbackProceeds(h)
  \/ exchangeCode(h) \/ exchangeFails(h)
  \/ CallbackGrants(h) \/ CallbackRejects(h)
  \/ TokenAnswer(h)

Next ==
  \/ \E uris \in SUBSET Redirect : handleRegister(uris)
  \/ \E h \in Handler, req \in AuthRequests : AuthorizeLookup(h, req)
  \/ \E h \in Handler, s \in State, param \in CallbackParam :
       CallbackTake(h, s, param)
  \/ \E h \in Handler, g \in Code, req \in TokenRequests : TokenTake(h, g, req)
  \/ \E h \in Handler : HandlerStep(h)
  \/ sweep
  \/ Tick
  \/ Restart
  \/ \E u \in Login, s \in State : ProviderLogin(u, s)

Spec == Init /\ [][Next]_vars

\* The ticker of sweep() keeps firing.  Nothing else is owed by anybody: not
\* requests, logins, the clock or a restart, and not that a handler goes on.
FairSpec == Spec /\ WF_vars(sweep)

-----------------------------------------------------------------------------
(* Properties.                                                             *)

\* The maps, the calls and the history have the shape the code gives them.
TypeOK ==
  /\ now \in Nat /\ restarts \in Nat
  /\ clients \in [ClientId -> proxyClient \cup {None}]
  /\ sessions \in [State -> proxySession \cup {None}]
  /\ grants \in [Code -> proxyGrant \cup {None}]
  /\ call \in [Handler -> Call]
  /\ login \in [Login -> LoginRecord]
  /\ issued \subseteq ClientId
  /\ began \in [State -> BeganRecord \cup {None}]
  /\ minted \in [Code -> MintedRecord \cup {None}]
  /\ redeemed \in [Code -> Nat]
  /\ delivered \subseteq Delivery

\* A proxy authorization code yields a token at most once, however many
\* /token requests race for it (handleToken burns it before checking).
CodeRedeemedOnce == \A g \in Code : redeemed[g] <= 1

\* One passage through /authorize leads to at most one code, also when the
\* callback is delivered twice or the user logs in twice with one state
\* (handleCallback takes the session out before the exchange).
OneCodePerSession ==
  \A f, g \in Code :
    /\ minted[f] # None /\ minted[g] # None
    /\ login[minted[f].grant.token].state = login[minted[g].grant.token].state
    => f = g

\* The session a token goes back to: the one whose upstream request it answers.
OriginOf(token) == began[login[token].state]

\* Whoever receives a token at /token is the one who asked for it at
\* /authorize: same client, same redirect URI, the verifier of the challenge
\* sent then; and the token passed verification ("PKCE end-to-end").
TokenReachesItsRequester ==
  \A d \in delivered :
    /\ d.token \in Accepted
    /\ OriginOf(d.token) # None
    /\ LET session == OriginOf(d.token).session IN
         /\ session.client = d.client
         /\ session.redirect = d.redirect
         /\ pkceMatches(session.challenge, d.verifier, session.method)

\* A restart aborts the logins in flight: a token is delivered by the run of
\* the server that began its login ("sessions and grants are in-memory").
RestartAbortsLogins ==
  \A d \in delivered : OriginOf(d.token) # None
                       => OriginOf(d.token).run = d.run

\* A code is answered with a token only within proxyGrantTTL of its issue.
CodesExpire ==
  \A d \in delivered : /\ minted[d.code] # None
                       /\ d.at <= minted[d.code].at + GrantTTL

\* The provider is asked to redeem a login only within proxySessionTTL of the
\* insertion of its session by /authorize, however late the callback arrives
\* and however long its handler is held up.
SessionsExpire ==
  [][\A h \in Handler :
       call[h].at = "callback" /\ call'[h].at = "exchanging"
       => now <= began[call[h].state].at + SessionTTL]_vars

\* The URI a login in progress will be redirected to, with its client.
Targets ==
  {[client |-> sessions[s].client, redirect |-> sessions[s].redirect] :
     s \in Present(sessions)}
  \cup {[client |-> grants[g].client, redirect |-> grants[g].redirect] :
           g \in Present(grants)}

\* As long as a client is in the registry, no login of it goes to a URI it
\* did not register, although the registry is consulted in an earlier
\* critical section than the one that inserts the session, and expires.
RegisteredRedirect ==
  \A t \in Targets :
    clients[t.client] # None => t.redirect \in clients[t.client].redirectURIs

\* The registry and the pending sessions stay within their limits, also when
\* several handlers passed the lookup while there was still room.
CapacityBound ==
  /\ Count(clients) <= MaxClients
  /\ Count(sessions) <= MaxSessions

\* /authorize answers 503 only when maxProxySessions sessions are pending
\* and unexpired at that moment: expired ones never keep a user out.
RefusedOnlyWhenFull ==
  [][\A h \in Handler :
       /\ restarts' = restarts
       /\ call[h].at = "authorize" /\ call'[h].at = "idle"
       /\ began' = began
       => Cardinality({s \in Present(sessions) : ~Expired(sessions[s])})
            >= MaxSessions]_vars

\* What has expired leaves the maps by itself (the sweeper).
ExpiredAreSwept ==
  /\ \A c \in ClientId :
       clients[c] # None /\ Expired(clients[c]) ~> clients[c] = None
  /\ \A s \in State :
       sessions[s] # None /\ Expired(sessions[s]) ~> sessions[s] = None
  /\ \A g \in Code :
       grants[g] # None /\ Expired(grants[g]) ~> grants[g] = None

-----------------------------------------------------------------------------
(* The inductive invariant behind the safety properties: at any time a     *)
(* code is in exactly one place, a session is in exactly one place, and    *)
(* what is held in either place is what the history says was stored.       *)

Redeeming(h, g) == call[h].at = "redeem" /\ call[h].code = g
InCallback(h, s) ==
  call[h].at \in {"callback", "exchanging", "exchanged"} /\ call[h].state = s

\* A code is unused, in the map, held by one /token call, or spent.
CodesInv ==
  /\ \A g \in Code :
       /\ redeemed[g] <= 1
       /\ grants[g] # None => /\ minted[g] # None
                             /\ grants[g] = minted[g].grant
                             /\ redeemed[g] = 0
       /\ redeemed[g] = 1 => minted[g] # None
  /\ \A h \in Handler, g \in Code :
       Redeeming(h, g) => /\ minted[g] # None
                          /\ call[h].grant = minted[g].grant
                          /\ grants[g] = None
                          /\ redeemed[g] = 0
                          /\ \A k \in Handler : Redeeming(k, g) => k = h

\* A state is drawn by one /authorize, then in the map, then held by one
\* /oauth/callback, and none of that outlives the run of the server.
SessionsInv ==
  /\ \A s \in State :
       began[s] # None => began[s].session.expires = began[s].at + SessionTTL
  /\ \A s \in State :
       sessions[s] # None => /\ began[s] # None
                             /\ sessions[s] = began[s].session
                             /\ began[s].run = restarts
  /\ \A h \in Handler, s \in State :
       InCallback(h, s) => /\ began[s] # None
                           /\ call[h].session = began[s].session
                           /\ began[s].run = restarts
                           /\ sessions[s] = None
                           /\ \A k \in Handler : InCallback(k, s) => k = h
  /\ \A h \in Handler :
       call[h].at = "authorize" =>
         /\ began[call[h].state] = None
         /\ \A k \in Handler :
              call[k].at = "authorize" /\ call[k].state = call[h].state => k = h

\* The provider only knows states it was sent, and a callback that has a
\* token has the one that answers its own authorization request.
LoginsInv ==
  /\ \A u \in Login : login[u].state # None => began[login[u].state] # None
  /\ \A h \in Handler :
       call[h].at = "exchanged" => login[call[h].token].state = call[h].state

\* The state whose login a code came from.
StateOf(g) == login[minted[g].grant.token].state

\* A code stands for a finished session, and says what it said.
GrantInv(g) ==
  minted[g] # None =>
    /\ minted[g].grant.token \in Accepted
    /\ StateOf(g) # None
    /\ sessions[StateOf(g)] = None
    /\ \A h \in Handler : ~InCallback(h, StateOf(g))
    /\ minted[g].grant.client = began[StateOf(g)].session.client
    /\ minted[g].grant.redirect = began[StateOf(g)].session.redirect
    /\ minted[g].grant.challenge = began[StateOf(g)].session.challenge
    /\ minted[g].grant.method = began[StateOf(g)].session.method
    /\ minted[g].grant.expires = minted[g].at + GrantTTL
    /\ grants[g] # None \/ (\E h \in Handler : Redeeming(h, g))
         => began[StateOf(g)].run = restarts

GrantsInv == (\A g \in Code : GrantInv(g)) /\ OneCodePerSession

\* What was delivered is what its code stood for.
DeliveryInv(d) ==
  /\ minted[d.code] # None
  /\ d.token = minted[d.code].grant.token
  /\ d.client = minted[d.code].grant.client
  /\ d.redirect = minted[d.code].grant.redirect
  /\ pkceMatches(minted[d.code].grant.challenge, d.verifier,
                 minted[d.code].grant.method)
  /\ d.at <= minted[d.code].grant.expires
  /\ d.run = began[StateOf(d.code)].run
  /\ redeemed[d.code] = 1

DeliveriesInv == \A d \in delivered : DeliveryInv(d)

\* Inductive, and implies the safety properties of codes, sessions and
\* tokens above: every stored or held value agrees with what the history
\* says was stored, and each is in one place only.
IInv == TypeOK /\ CodesInv /\ SessionsInv /\ LoginsInv /\ GrantsInv /\ DeliveriesInv

-----------------------------------------------------------------------------
(* The proxy implements LoginFlow: the phase of the login behind a state.  *)

InProgress(s) ==
  \/ sessions[s] # None
  \/ \E h \in Handler : InCallback(h, s)

HasCode(s) ==
  \/ \E g \in Present(grants) : login[grants[g].token].state = s
  \/ \E h \in Handler : /\ call[h].at = "redeem"
                       /\ login[call[h].grant.token].state = s

HasToken(s) == \E d \in delivered : login[d.token].state = s

phaseOf(s) ==
  IF began[s] = None THEN "new"
  ELSE IF InProgress(s) THEN "open"
  ELSE IF HasCode(s) THEN "coded"
  ELSE IF HasToken(s) THEN "delivered" ELSE "closed"

phase == [s \in State |-> phaseOf(s)]

Flow == INSTANCE LoginFlow WITH Flow <- State, phase <- phase

\* Every behaviour of the proxy is one that LoginFlow allows.
ImplementsLoginFlow == Flow!Spec

=============================================================================
