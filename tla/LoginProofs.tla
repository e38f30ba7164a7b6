----------------------------- MODULE LoginProofs -----------------------------
(***************************************************************************)
(* Proofs about the login: first OAuthProxy, for every number of clients,  *)
(* states, codes, logins and handlers, every limit and every time to live; *)
(* then ClientLogin, for every number of roads, ports, tokens and mishaps. *)
(* There the client with whatever goes wrong around it is a behaviour of   *)
(* the proxy, so that everything proved of the proxy holds, and discovery, *)
(* registration and login go as the client may expect.                     *)
(***************************************************************************)
EXTENDS ClientLogin, FiniteSetTheorems, SequenceTheorems, TLAPS

-----------------------------------------------------------------------------
(* Typing.                                                                 *)

\* A sweep keeps the type of a map.
LEMMA SweptType ==
  ASSUME NEW K, NEW R, NEW m \in [K -> R \cup {None}]
  PROVE  Swept(m) \in [K -> R \cup {None}]
BY DEF Swept

\* Making room in a full map, and sweeping, keep the types of the three maps.
LEMMA MakeRoomType ==
  ASSUME TypeOK, NEW full
  PROVE  /\ MakeRoom(clients, full) \in [ClientId -> proxyClient \cup {None}]
         /\ MakeRoom(sessions, full) \in [State -> proxySession \cup {None}]
         /\ MakeRoom(grants, full) \in [Code -> proxyGrant \cup {None}]
         /\ Swept(clients) \in [ClientId -> proxyClient \cup {None}]
         /\ Swept(sessions) \in [State -> proxySession \cup {None}]
         /\ Swept(grants) \in [Code -> proxyGrant \cup {None}]
BY SweptType DEF MakeRoom, TypeOK

\* The session of an admitted request is well formed.
LEMMA SessionForType ==
  ASSUME now \in Nat, NEW req \in ValidRequest
  PROVE  SessionFor(req) \in proxySession
<1>1. now + SessionTTL \in Nat
  BY ConstantsAssumption
<1>2. /\ req.client \in ClientId /\ req.redirect \in Redirect
      /\ req.challenge \in Challenge
      /\ req.method \in {"S256", "plain", ""}
  BY DEF ValidRequest, AuthRequest, Method
<1>3. (IF req.method = "" THEN "plain" ELSE req.method) \in Method
  BY <1>2 DEF Method
<1> QED
  BY <1>1, <1>2, <1>3 DEF SessionFor, proxySession

\* The grant made from a session and a token is well formed.
LEMMA GrantForType ==
  ASSUME now \in Nat, NEW session \in proxySession, NEW u \in Login
  PROVE  GrantFor(session, u) \in proxyGrant
<1>1. now + GrantTTL \in Nat
  BY ConstantsAssumption
<1> QED
  BY <1>1 DEF GrantFor, proxyGrant, proxySession

\* What a call in flight holds, by the point it has reached.
LEMMA CallFields ==
  ASSUME NEW c \in Call
  PROVE  /\ c.at = "authorize" => c.state \in State /\ c.req \in ValidRequest
         /\ c.at = "callback" => /\ c.state \in State
                                 /\ c.session \in proxySession
                                 /\ c.param \in CallbackParam
         /\ c.at \in {"exchanging", "exchanged"} =>
              /\ c.state \in State
              /\ c.session \in proxySession
              /\ c.token \in Login
         /\ c.at = "redeem" => /\ c.code \in Code /\ c.grant \in proxyGrant
                               /\ c.req \in TokenRequest
BY DEF Call, Idle

\* Using up a login keeps the type of the provider's logins.
LEMMA UsedLoginType ==
  ASSUME login \in [Login -> LoginRecord], NEW u
  PROVE  [login EXCEPT ![u].used = TRUE] \in [Login -> LoginRecord]
<1>1. \A v \in Login : [login[v] EXCEPT !.used = TRUE] \in LoginRecord
  BY DEF LoginRecord
<1> QED
  BY <1>1

\* Every step keeps the types: one step per action.
LEMMA TypeOKStep == TypeOK /\ [Next]_vars => TypeOK'
<1> SUFFICES ASSUME TypeOK, [Next]_vars PROVE TypeOK'
  OBVIOUS
<1>0. Idle \in Call
  BY DEF Call
<1>1. ASSUME NEW uris \in SUBSET Redirect, handleRegister(uris)
      PROVE  TypeOK'
  <2>1. [redirectURIs |-> uris, expires |-> now + ClientTTL] \in proxyClient
    BY ConstantsAssumption DEF TypeOK, proxyClient
  <2>2. /\ clients' \in [ClientId -> proxyClient \cup {None}]
        /\ sessions' \in [State -> proxySession \cup {None}]
        /\ grants' \in [Code -> proxyGrant \cup {None}]
        /\ issued' \subseteq ClientId
    <3> DEFINE kept == MakeRoom(clients, Count(clients) >= MaxClients)
    <3>1. kept \in [ClientId -> proxyClient \cup {None}]
      BY MakeRoomType
    <3>2. /\ sessions' \in [State -> proxySession \cup {None}]
          /\ grants' \in [Code -> proxyGrant \cup {None}]
      BY <1>1, MakeRoomType DEF handleRegister, registerClient
    <3>3. CASE clients' = kept /\ UNCHANGED issued
      BY <3>1, <3>2, <3>3 DEF TypeOK
    <3>4. ASSUME NEW c \in ClientId \ issued,
                 clients' = [kept EXCEPT ![c] =
                    [redirectURIs |-> uris, expires |-> now + ClientTTL]],
                 issued' = issued \cup {c}
          PROVE  clients' \in [ClientId -> proxyClient \cup {None}]
                 /\ issued' \subseteq ClientId
      BY <2>1, <3>1, <3>4 DEF TypeOK
    <3> QED
      BY <1>1, <3>2, <3>3, <3>4 DEF handleRegister, registerClient
  <2> QED
    BY <1>1, <2>2 DEF handleRegister, TypeOK
<1>2. ASSUME NEW h \in Handler, NEW req \in AuthRequests, AuthorizeLookup(h, req)
      PROVE  TypeOK'
  <2>1. clients' \in [ClientId -> proxyClient \cup {None}]
    BY <1>2 DEF AuthorizeLookup, ForgetExpired, TypeOK
  <2>2. call' \in [Handler -> Call]
    <3>1. ASSUME Admits(req), NEW s \in State
          PROVE  [at |-> "authorize", state |-> s, req |-> req] \in Call
      BY <3>1, ConstantsAssumption DEF Admits, Call, ValidRequest
    <3> QED
      BY <1>2, <3>1 DEF AuthorizeLookup, FreshStates, Goto, TypeOK
  <2> QED
    BY <1>2, <2>1, <2>2 DEF AuthorizeLookup, history, TypeOK
<1>3. ASSUME NEW h \in Handler, NEW s \in State, NEW param \in CallbackParam,
             CallbackTake(h, s, param)
      PROVE  TypeOK'
  <2>1. [at |-> "callback", state |-> s, session |-> sessions[s],
         param |-> param] \in Call
    BY <1>3 DEF CallbackTake, Call, TypeOK
  <2> QED
    BY <1>3, <2>1 DEF CallbackTake, Goto, history, TypeOK
<1>4. ASSUME NEW h \in Handler, NEW g \in Code, NEW req \in TokenRequests,
             TokenTake(h, g, req)
      PROVE  TypeOK'
  <2>1. [at |-> "redeem", code |-> g, grant |-> grants[g], req |-> req] \in Call
    BY <1>4, ConstantsAssumption DEF TokenTake, Call, TypeOK
  <2> QED
    BY <1>4, <2>1 DEF TokenTake, Goto, history, TypeOK
<1>5. ASSUME NEW h \in Handler, AuthorizeInsert(h)
      PROVE  TypeOK'
  <2> DEFINE s == call[h].state
             session == SessionFor(call[h].req)
  <2>1. s \in State /\ session \in proxySession
    BY <1>5, CallFields, SessionForType DEF AuthorizeInsert, TypeOK
  <2>2. [session |-> session, at |-> now, run |-> restarts] \in BeganRecord
    BY <2>1 DEF BeganRecord, TypeOK
  <2>3. /\ clients' \in [ClientId -> proxyClient \cup {None}]
        /\ sessions' \in [State -> proxySession \cup {None}]
        /\ grants' \in [Code -> proxyGrant \cup {None}]
        /\ began' \in [State -> BeganRecord \cup {None}]
    <3> DEFINE kept == MakeRoom(sessions, Count(sessions) >= MaxSessions)
    <3>1. kept \in [State -> proxySession \cup {None}]
      BY MakeRoomType
    <3>2. /\ clients' \in [ClientId -> proxyClient \cup {None}]
          /\ grants' \in [Code -> proxyGrant \cup {None}]
      BY <1>5, MakeRoomType DEF AuthorizeInsert
    <3>3. \/ sessions' = kept /\ UNCHANGED began
          \/ /\ sessions' = [kept EXCEPT ![s] = session]
             /\ began' = [began EXCEPT ![s] =
                   [session |-> session, at |-> now, run |-> restarts]]
      BY <1>5 DEF AuthorizeInsert
    <3> HIDE DEF kept, s, session
    <3> QED
      BY <2>1, <2>2, <3>1, <3>2, <3>3 DEF TypeOK
  <2> QED
    BY <1>5, <1>0, <2>3 DEF AuthorizeInsert, Goto, TypeOK
<1>6. ASSUME NEW h \in Handler, CallbackGivesUp(h)
      PROVE  TypeOK'
  BY <1>6, <1>0 DEF CallbackGivesUp, Goto, history, TypeOK
<1>17. ASSUME NEW h \in Handler, CallbackProceeds(h)
      PROVE  TypeOK'
  <2>1. [at |-> "exchanging", state |-> call[h].state,
         session |-> call[h].session, token |-> call[h].param] \in Call
    BY <1>17, CallFields DEF CallbackProceeds, Call, TypeOK
  <2> QED
    BY <1>17, <2>1 DEF CallbackProceeds, Goto, history, TypeOK
<1>7. ASSUME NEW h \in Handler, exchangeCode(h)
      PROVE  TypeOK'
  <2>1. [at |-> "exchanged", state |-> call[h].state,
         session |-> call[h].session, token |-> call[h].token] \in Call
    BY <1>7, CallFields DEF exchangeCode, Call, TypeOK
  <2>2. login' \in [Login -> LoginRecord]
    BY <1>7, UsedLoginType DEF exchangeCode, TypeOK
  <2> QED
    BY <1>7, <2>1, <2>2 DEF exchangeCode, Goto, history, TypeOK
<1>8. ASSUME NEW h \in Handler, exchangeFails(h)
      PROVE  TypeOK'
  <2>1. login' \in [Login -> LoginRecord]
    <3>1. \/ login' = login
          \/ login' = [login EXCEPT ![call[h].token].used = TRUE]
      BY <1>8 DEF exchangeFails
    <3> QED
      BY <3>1, UsedLoginType DEF TypeOK
  <2> QED
    BY <1>8, <1>0, <2>1 DEF exchangeFails, Goto, history, TypeOK
<1>9. ASSUME NEW h \in Handler, CallbackGrants(h)
      PROVE  TypeOK'
  <2>1. GrantFor(call[h].session, call[h].token) \in proxyGrant
    BY <1>9, CallFields, GrantForType DEF CallbackGrants, TypeOK
  <2>2. [grant |-> GrantFor(call[h].session, call[h].token), at |-> now]
          \in MintedRecord
    BY <2>1 DEF MintedRecord, TypeOK
  <2> QED
    BY <1>9, <1>0, <2>1, <2>2 DEF CallbackGrants, Goto, TypeOK
<1>10. ASSUME NEW h \in Handler, CallbackRejects(h)
       PROVE  TypeOK'
  BY <1>10, <1>0 DEF CallbackRejects, Goto, history, TypeOK
<1>11. ASSUME NEW h \in Handler, TokenAnswer(h)
       PROVE  TypeOK'
  <2> DEFINE req == call[h].req
  <2>1. /\ call[h].code \in Code /\ call[h].grant \in proxyGrant
        /\ req \in TokenRequest
    BY <1>11, CallFields DEF TokenAnswer, TypeOK
  <2>2. Redeems(call[h].grant, req) =>
          [code |-> call[h].code, token |-> call[h].grant.token,
           client |-> req.client, redirect |-> req.redirect,
           verifier |-> req.verifier, at |-> now, run |-> restarts] \in Delivery
    BY <2>1 DEF Redeems, Delivery, proxyGrant, TokenRequest, TypeOK
  <2> QED
    BY <1>11, <1>0, <2>1, <2>2 DEF TokenAnswer, Goto, TypeOK
<1>12. CASE sweep
  BY <1>12, MakeRoomType DEF sweep, history, TypeOK
<1>13. CASE Tick
  BY <1>13 DEF Tick, history, TypeOK
<1>14. CASE Restart
  BY <1>14, <1>0 DEF Restart, history, TypeOK
<1>15. ASSUME NEW u \in Login, NEW s \in State, ProviderLogin(u, s)
       PROVE  TypeOK'
  <2>1. login' \in [Login -> LoginRecord]
    BY <1>15 DEF ProviderLogin, TypeOK, LoginRecord
  <2> QED
    BY <1>15, <2>1 DEF ProviderLogin, history, TypeOK
<1>16. CASE UNCHANGED vars
  BY <1>16 DEF vars, TypeOK
<1> QED
  BY <1>1, <1>2, <1>3, <1>4, <1>5, <1>6, <1>7, <1>8, <1>9, <1>10, <1>11,
     <1>12, <1>13, <1>14, <1>15, <1>16, <1>17 DEF Next, HandlerStep

\* The state of the proxy always has the declared shape.
THEOREM TypeCorrect == Spec => []TypeOK
<1>1. Init => TypeOK
  BY DEF Init, TypeOK, Call, LoginRecord
<1> QED
  BY <1>1, TypeOKStep, PTL DEF Spec

-----------------------------------------------------------------------------
(* Codes: in one place, and spent once.                                    *)

\* A sweep changes an entry to None or not at all.
LEMMA SweptEntry ==
  ASSUME NEW m, NEW k \in DOMAIN m, NEW full
  PROVE  /\ Swept(m)[k] \in {m[k], None}
         /\ MakeRoom(m, full)[k] \in {m[k], None}
BY DEF Swept, MakeRoom

\* A step that mints and redeems nothing, hands no grant to a handler and
\* puts none into the map preserves CodesInv.
LEMMA CodesFrame ==
  ASSUME CodesInv, UNCHANGED <<minted, redeemed>>,
         \A g \in Code : grants'[g] \in {grants[g], None},
         \A h \in Handler, g \in Code :
           Redeeming(h, g)' => Redeeming(h, g) /\ call'[h].grant = call[h].grant
  PROVE  CodesInv'
BY DEF CodesInv

\* CodesInv is inductive: three actions touch codes, the others are framed.
LEMMA CodesInvStep == TypeOK /\ CodesInv /\ [Next]_vars => CodesInv'
<1> SUFFICES ASSUME TypeOK, CodesInv, [Next]_vars PROVE CodesInv'
  OBVIOUS
<1>0. DOMAIN grants = Code /\ DOMAIN call = Handler
  BY DEF TypeOK
<1>1. ASSUME NEW uris \in SUBSET Redirect, handleRegister(uris)
      PROVE  CodesInv'
  BY <1>1, <1>0, SweptEntry, CodesFrame
     DEF handleRegister, registerClient, Redeeming
<1>2. ASSUME NEW h \in Handler, NEW req \in AuthRequests, AuthorizeLookup(h, req)
      PROVE  CodesInv'
  BY <1>2, <1>0, CodesFrame DEF AuthorizeLookup, Goto, history, Redeeming
<1>3. ASSUME NEW h \in Handler, NEW s \in State, NEW param \in CallbackParam,
             CallbackTake(h, s, param)
      PROVE  CodesInv'
  BY <1>3, <1>0, CodesFrame DEF CallbackTake, Goto, history, Redeeming
<1>4. ASSUME NEW h \in Handler, NEW g \in Code, NEW req \in TokenRequests,
             TokenTake(h, g, req)
      PROVE  CodesInv'
  <2>1. \A k \in Handler, f \in Code :
          Redeeming(k, f)' <=> (k = h /\ f = g) \/ (k # h /\ Redeeming(k, f))
    BY <1>4, <1>0 DEF TokenTake, Goto, Redeeming
  <2>2. \A f \in Code : ~Redeeming(h, f)
    BY <1>4 DEF TokenTake, Redeeming
  <2>3. \A k \in Handler : ~Redeeming(k, g)
    BY <1>4 DEF TokenTake, CodesInv
  <2>4. /\ call'[h].grant = grants[g]
        /\ \A k \in Handler : k # h => call'[k] = call[k]
        /\ \A f \in Code : grants'[f] = IF f = g THEN None ELSE grants[f]
        /\ UNCHANGED <<minted, redeemed>>
    BY <1>4, <1>0 DEF TokenTake, Goto, history
  <2>5. /\ minted[g] # None /\ grants[g] = minted[g].grant /\ redeemed[g] = 0
    BY <1>4 DEF TokenTake, CodesInv
  <2> QED
    BY <2>1, <2>2, <2>3, <2>4, <2>5 DEF CodesInv
<1>5. ASSUME NEW h \in Handler, AuthorizeInsert(h)
      PROVE  CodesInv'
  BY <1>5, <1>0, SweptEntry, CodesFrame DEF AuthorizeInsert, Goto, Idle, Redeeming
<1>6. ASSUME NEW h \in Handler, CallbackGivesUp(h)
      PROVE  CodesInv'
  BY <1>6, <1>0, CodesFrame DEF CallbackGivesUp, Goto, Idle, history, Redeeming
<1>17. ASSUME NEW h \in Handler, CallbackProceeds(h)
      PROVE  CodesInv'
  BY <1>17, <1>0, CodesFrame DEF CallbackProceeds, Goto, history, Redeeming
<1>7. ASSUME NEW h \in Handler, exchangeCode(h)
      PROVE  CodesInv'
  BY <1>7, <1>0, CodesFrame DEF exchangeCode, Goto, history, Redeeming
<1>8. ASSUME NEW h \in Handler, exchangeFails(h)
      PROVE  CodesInv'
  BY <1>8, <1>0, CodesFrame DEF exchangeFails, Goto, Idle, history, Redeeming
<1>9. ASSUME NEW h \in Handler, CallbackGrants(h)
      PROVE  CodesInv'
  <2> PICK g \in Code :
         LET grant == GrantFor(call[h].session, call[h].token) IN
         /\ minted[g] = None
         /\ grants' = [grants EXCEPT ![g] = grant]
         /\ minted' = [minted EXCEPT ![g] = [grant |-> grant, at |-> now]]
    BY <1>9 DEF CallbackGrants
  <2> DEFINE grant == GrantFor(call[h].session, call[h].token)
  <2>1. /\ grants' = [grants EXCEPT ![g] = grant]
        /\ minted' = [minted EXCEPT ![g] = [grant |-> grant, at |-> now]]
        /\ redeemed' = redeemed
        /\ call' = [call EXCEPT ![h] = Idle]
    BY <1>9 DEF CallbackGrants, Goto
  <2>2. \A k \in Handler, f \in Code :
          Redeeming(k, f)' <=> k # h /\ Redeeming(k, f)
    BY <2>1, <1>0 DEF Redeeming, Idle
  <2>0. redeemed[g] \in Nat /\ redeemed[g] <= 1 /\ redeemed[g] # 1
    BY DEF CodesInv, TypeOK
  <2>7. \A k \in Handler : ~Redeeming(k, g)
    BY DEF CodesInv
  <2>3. redeemed[g] = 0 /\ \A k \in Handler : ~Redeeming(k, g)
    BY <2>0, <2>7
  <2>4. grant \in proxyGrant
    BY <1>9, CallFields, GrantForType DEF CallbackGrants, TypeOK
  <2>5. /\ minted'[g] = [grant |-> grant, at |-> now] /\ grants'[g] = grant
        /\ \A f \in Code : f # g => minted'[f] = minted[f] /\ grants'[f] = grants[f]
        /\ \A k \in Handler : k # h => call'[k] = call[k]
    BY <2>1, <1>0 DEF TypeOK
  <2>6. minted'[g] # None
    BY <2>4, <2>5, NoneAssumption DEF MintedRecord, TypeOK
  <2> HIDE DEF grant
  <2> QED
    BY <2>1, <2>2, <2>3, <2>5, <2>6 DEF CodesInv
<1>10. ASSUME NEW h \in Handler, CallbackRejects(h)
       PROVE  CodesInv'
  BY <1>10, <1>0, CodesFrame DEF CallbackRejects, Goto, Idle, history, Redeeming
<1>11. ASSUME NEW h \in Handler, TokenAnswer(h)
       PROVE  CodesInv'
  <2> DEFINE g == call[h].code
  <2>1. g \in Code /\ Redeeming(h, g)
    BY <1>11, CallFields DEF TokenAnswer, TypeOK, Redeeming
  <2>2. \A k \in Handler, f \in Code :
          Redeeming(k, f)' <=> k # h /\ Redeeming(k, f)
    BY <1>11, <1>0 DEF TokenAnswer, Goto, Redeeming, Idle
  <2>3. \A k \in Handler : k # h => call'[k] = call[k] /\ ~Redeeming(k, g)
    BY <1>11, <1>0, <2>1 DEF TokenAnswer, Goto, CodesInv
  <2>4. UNCHANGED <<grants, minted>>
    BY <1>11 DEF TokenAnswer
  <2>5. /\ \A f \in Code : f # g => redeemed'[f] = redeemed[f]
        /\ redeemed'[g] \in {redeemed[g], redeemed[g] + 1}
    BY <1>11, <2>1 DEF TokenAnswer, TypeOK
  <2>6. minted[g] # None /\ grants[g] = None /\ redeemed[g] = 0
    BY <2>1 DEF CodesInv
  <2> HIDE DEF g
  <2> QED
    BY <2>1, <2>2, <2>3, <2>4, <2>5, <2>6 DEF CodesInv
<1>12. CASE sweep
  BY <1>12, <1>0, SweptEntry, CodesFrame DEF sweep, history, Redeeming
<1>13. CASE Tick
  BY <1>13, CodesFrame DEF Tick, history, Redeeming
<1>14. CASE Restart
  BY <1>14, <1>0, CodesFrame DEF Restart, history, Redeeming, Idle
<1>15. ASSUME NEW u \in Login, NEW s \in State, ProviderLogin(u, s)
       PROVE  CodesInv'
  BY <1>15, CodesFrame DEF ProviderLogin, history, Redeeming
<1>16. CASE UNCHANGED vars
  BY <1>16, CodesFrame DEF vars, Redeeming
<1> QED
  BY <1>1, <1>2, <1>3, <1>4, <1>5, <1>6, <1>7, <1>8, <1>9, <1>10, <1>11,
     <1>12, <1>13, <1>14, <1>15, <1>16, <1>17 DEF Next, HandlerStep

\* Nobody obtains a token with a code that was used before.
THEOREM CodesAreSingleUse == Spec => []CodeRedeemedOnce
<1>1. Init => CodesInv
  BY DEF Init, CodesInv, Redeeming, Idle
<1>2. CodesInv => CodeRedeemedOnce
  BY DEF CodesInv, CodeRedeemedOnce
<1> QED
  BY <1>1, <1>2, TypeCorrect, CodesInvStep, PTL DEF Spec

-----------------------------------------------------------------------------
(* Sessions: in one place, and of the current run of the server.           *)

\* A step that begins no session, hands none to a handler and puts none into
\* the map preserves SessionsInv.
LEMMA SessionsFrame ==
  ASSUME SessionsInv, UNCHANGED <<began, restarts>>,
         \A s \in State : sessions'[s] \in {sessions[s], None},
         \A h \in Handler, s \in State :
           InCallback(h, s)'
             => InCallback(h, s) /\ call'[h].session = call[h].session,
         \A h \in Handler :
           call'[h].at = "authorize" => call[h].at = "authorize"
                                        /\ call'[h].state = call[h].state
  PROVE  SessionsInv'
BY DEF SessionsInv

\* SessionsInv is inductive: four actions touch sessions.
LEMMA SessionsInvStep ==
  TypeOK /\ SessionsInv /\ [Next]_vars => SessionsInv'
<1> SUFFICES ASSUME TypeOK, SessionsInv, [Next]_vars
             PROVE  SessionsInv'
  OBVIOUS
<1>0. /\ DOMAIN grants = Code /\ DOMAIN call = Handler
      /\ DOMAIN sessions = State /\ DOMAIN began = State
      /\ DOMAIN login = Login /\ DOMAIN minted = Code
  BY DEF TypeOK
<1>1. ASSUME NEW uris \in SUBSET Redirect, handleRegister(uris)
      PROVE  SessionsInv'
  BY <1>1, <1>0, SweptEntry, SessionsFrame
     DEF handleRegister, registerClient, InCallback
<1>2. ASSUME NEW h \in Handler, NEW req \in AuthRequests,
             AuthorizeLookup(h, req)
      PROVE  SessionsInv'
  <2>1. UNCHANGED <<sessions, began, restarts>>
    BY <1>2 DEF AuthorizeLookup, history
  <2>2. CASE UNCHANGED call
    BY <2>1, <2>2, SessionsFrame DEF InCallback
  <2>3. ASSUME NEW s \in FreshStates,
               Goto(h, [at |-> "authorize", state |-> s, req |-> req])
        PROVE  SessionsInv'
    <3>1. /\ call'[h].at = "authorize" /\ call'[h].state = s
          /\ \A k \in Handler : k # h => call'[k] = call[k]
      BY <2>3, <1>0 DEF Goto
    <3>2. /\ began[s] = None
          /\ \A k \in Handler : call[k].at = "authorize" => call[k].state # s
      BY <2>3 DEF FreshStates
    <3>3. \A k \in Handler, t \in State : InCallback(k, t)' => k # h /\ InCallback(k, t)
      BY <3>1 DEF InCallback
    <3> QED
      BY <2>1, <3>1, <3>2, <3>3 DEF SessionsInv
  <2> QED
    BY <1>2, <2>2, <2>3 DEF AuthorizeLookup
<1>3. ASSUME NEW h \in Handler, NEW s \in State, NEW param \in CallbackParam,
             CallbackTake(h, s, param)
      PROVE  SessionsInv'
  <2>1. /\ call'[h].at = "callback" /\ call'[h].state = s
        /\ call'[h].session = sessions[s]
        /\ \A k \in Handler : k # h => call'[k] = call[k]
        /\ \A t \in State : sessions'[t] = IF t = s THEN None ELSE sessions[t]
        /\ UNCHANGED <<began, restarts>>
    BY <1>3, <1>0 DEF CallbackTake, Goto, history
  <2>2. /\ began[s] # None /\ sessions[s] = began[s].session
        /\ began[s].run = restarts
        /\ \A k \in Handler : ~InCallback(k, s)
    BY <1>3 DEF CallbackTake, SessionsInv
  <2>3. \A k \in Handler, t \in State :
          InCallback(k, t)' <=> (k = h /\ t = s) \/ (k # h /\ InCallback(k, t))
    BY <2>1 DEF InCallback
  <2> QED
    BY <2>1, <2>2, <2>3 DEF SessionsInv
<1>4. ASSUME NEW h \in Handler, NEW g \in Code, NEW req \in TokenRequests,
             TokenTake(h, g, req)
      PROVE  SessionsInv'
  BY <1>4, <1>0, SessionsFrame
     DEF TokenTake, Goto, history, InCallback
<1>5. ASSUME NEW h \in Handler, AuthorizeInsert(h)
      PROVE  SessionsInv'
  <2> DEFINE s == call[h].state
             session == SessionFor(call[h].req)
             record == [session |-> session, at |-> now, run |-> restarts]
             kept == MakeRoom(sessions, Count(sessions) >= MaxSessions)
  <2>1. s \in State /\ session \in proxySession
    BY <1>5, CallFields, SessionForType DEF AuthorizeInsert, TypeOK
  <2>2. /\ kept \in [State -> proxySession \cup {None}]
        /\ \A t \in State : kept[t] \in {sessions[t], None}
    BY <1>0, SweptEntry, MakeRoomType
  <2>3. /\ call'[h] = Idle
        /\ \A k \in Handler : k # h => call'[k] = call[k]
        /\ UNCHANGED restarts
    BY <1>5, <1>0 DEF AuthorizeInsert, Goto
  <2>4. CASE sessions' = kept /\ UNCHANGED began
    BY <2>2, <2>3, <2>4, SessionsFrame DEF InCallback, Idle
  <2>5. CASE /\ sessions' = [kept EXCEPT ![s] = session]
             /\ began' = [began EXCEPT ![s] = record]
    <3>0. session.expires = now + SessionTTL
      BY DEF SessionFor
    <3>. HIDE DEF session
    <3>1. /\ record # None /\ record.session = session /\ record.run = restarts
          /\ record.session.expires = record.at + SessionTTL
      BY <2>1, <3>0, NoneAssumption DEF BeganRecord, TypeOK
    <3>2. \A t \in State : /\ sessions'[t] = IF t = s THEN session ELSE kept[t]
                           /\ began'[t] = IF t = s THEN record ELSE began[t]
      BY <2>1, <2>2, <2>5, <1>0
    <3>3. /\ began[s] = None
          /\ \A k \in Handler : ~InCallback(k, s)
          /\ \A k \in Handler :
               k # h /\ call[k].at = "authorize" => call[k].state # s
      BY <1>5, <2>1 DEF AuthorizeInsert, SessionsInv
    <3>4. \A k \in Handler, t \in State : InCallback(k, t)' => k # h /\ InCallback(k, t)
      BY <2>3 DEF InCallback, Idle
    <3>5. \A k \in Handler : call'[k].at = "authorize" => k # h /\ call'[k] = call[k]
      BY <2>3 DEF Idle
    <3>. HIDE DEF s, record, kept
    <3>6. \A t \in State :
            sessions'[t] # None => /\ began'[t] # None
                                   /\ sessions'[t] = began'[t].session
                                   /\ began'[t].run = restarts'
      BY <2>2, <2>3, <3>1, <3>2 DEF SessionsInv
    <3>7. \A k \in Handler, t \in State :
            InCallback(k, t)' => /\ began'[t] # None
                                 /\ call'[k].session = began'[t].session
                                 /\ began'[t].run = restarts'
                                 /\ sessions'[t] = None
                                 /\ \A j \in Handler : InCallback(j, t)' => j = k
      BY <2>2, <2>3, <3>2, <3>3, <3>4 DEF SessionsInv
    <3>8. \A k \in Handler :
            call'[k].at = "authorize" =>
              /\ began'[call'[k].state] = None
              /\ \A j \in Handler :
                   call'[j].at = "authorize" /\ call'[j].state = call'[k].state
                     => j = k
      <4>1. \A k \in Handler : call[k].at = "authorize" => call[k].state \in State
        BY CallFields DEF TypeOK
      <4> QED
        BY <4>1, <3>2, <3>3, <3>5 DEF SessionsInv
    <3>9. \A t \in State :
            began'[t] # None
              => began'[t].session.expires = began'[t].at + SessionTTL
      BY <3>1, <3>2 DEF SessionsInv
    <3> QED
      BY <3>6, <3>7, <3>8, <3>9 DEF SessionsInv
  <2> QED
    BY <1>5, <2>4, <2>5 DEF AuthorizeInsert
<1>6. ASSUME NEW h \in Handler, CallbackGivesUp(h)
      PROVE  SessionsInv'
  BY <1>6, <1>0, SessionsFrame
     DEF CallbackGivesUp, Goto, Idle, history, InCallback
<1>17. ASSUME NEW h \in Handler, CallbackProceeds(h)
      PROVE  SessionsInv'
  BY <1>17, <1>0, SessionsFrame
     DEF CallbackProceeds, Goto, history, InCallback
<1>7. ASSUME NEW h \in Handler, exchangeCode(h)
      PROVE  SessionsInv'
  BY <1>7, <1>0, SessionsFrame
     DEF exchangeCode, Goto, history, InCallback
<1>8. ASSUME NEW h \in Handler, exchangeFails(h)
      PROVE  SessionsInv'
  BY <1>8, <1>0, SessionsFrame
     DEF exchangeFails, Goto, Idle, history, InCallback
<1>9. ASSUME NEW h \in Handler, CallbackGrants(h)
      PROVE  SessionsInv'
  BY <1>9, <1>0, SessionsFrame
     DEF CallbackGrants, Goto, Idle, InCallback
<1>10. ASSUME NEW h \in Handler, CallbackRejects(h)
      PROVE  SessionsInv'
  BY <1>10, <1>0, SessionsFrame
     DEF CallbackRejects, Goto, Idle, history, InCallback
<1>11. ASSUME NEW h \in Handler, TokenAnswer(h)
      PROVE  SessionsInv'
  BY <1>11, <1>0, SessionsFrame
     DEF TokenAnswer, Goto, Idle, InCallback
<1>12. CASE sweep
  BY <1>12, <1>0, SweptEntry, SessionsFrame
     DEF sweep, history, InCallback
<1>13. CASE Tick
  BY <1>13, <1>0, SessionsFrame
     DEF Tick, history, InCallback
<1>14. CASE Restart
  <2>1. /\ \A s \in State : sessions'[s] = None
        /\ \A h \in Handler : call'[h] = Idle
        /\ UNCHANGED began
    BY <1>14 DEF Restart, history
  <2> QED
    BY <2>1 DEF SessionsInv, InCallback, Idle
<1>15. ASSUME NEW u \in Login, NEW s \in State, ProviderLogin(u, s)
      PROVE  SessionsInv'
  BY <1>15, <1>0, SessionsFrame
     DEF ProviderLogin, history, InCallback
<1>16. CASE UNCHANGED vars
  BY <1>16, <1>0, SessionsFrame
     DEF vars, InCallback
<1> QED
  BY <1>1, <1>2, <1>3, <1>4, <1>5, <1>6, <1>7, <1>8, <1>9, <1>10, <1>11,
     <1>12, <1>13, <1>14, <1>15, <1>16, <1>17 DEF Next, HandlerStep

-----------------------------------------------------------------------------
(* Logins: the provider's binding of a login to a state.                   *)

\* No step that neither logs in nor exchanges disturbs LoginsInv.
LEMMA LoginsFrame ==
  ASSUME LoginsInv,
         \A u \in Login : login'[u].state = login[u].state,
         \A s \in State : began[s] # None => began'[s] # None,
         login \in [Login -> LoginRecord],
         \A h \in Handler :
           call'[h].at = "exchanged" => /\ call[h].at = "exchanged"
                                        /\ call[h].token \in Login
                                        /\ call'[h].token = call[h].token
                                        /\ call'[h].state = call[h].state
  PROVE  LoginsInv'
BY DEF LoginsInv, LoginRecord

\* A call that has a token has a login.
LEMMA ExchangedToken ==
  ASSUME TypeOK, NEW h \in Handler, call[h].at = "exchanged"
  PROVE  call[h].token \in Login /\ call[h].state \in State
BY CallFields DEF TypeOK

\* LoginsInv is inductive: /authorize, the exchange and a login touch it.
LEMMA LoginsInvStep ==
  TypeOK /\ LoginsInv /\ [Next]_vars => LoginsInv'
<1> SUFFICES ASSUME TypeOK, LoginsInv, [Next]_vars
             PROVE  LoginsInv'
  OBVIOUS
<1>0. /\ DOMAIN grants = Code /\ DOMAIN call = Handler
      /\ DOMAIN sessions = State /\ DOMAIN began = State
      /\ DOMAIN login = Login /\ DOMAIN minted = Code
  BY DEF TypeOK
<1>1. ASSUME NEW uris \in SUBSET Redirect, handleRegister(uris)
      PROVE  LoginsInv'
  BY <1>1, <1>0, SweptEntry, LoginsFrame, ExchangedToken
     DEF handleRegister, registerClient, TypeOK
<1>2. ASSUME NEW h \in Handler, NEW req \in AuthRequests,
             AuthorizeLookup(h, req)
      PROVE  LoginsInv'
  BY <1>2, <1>0, LoginsFrame, ExchangedToken
     DEF AuthorizeLookup, Goto, history, TypeOK
<1>3. ASSUME NEW h \in Handler, NEW s \in State, NEW param \in CallbackParam,
             CallbackTake(h, s, param)
      PROVE  LoginsInv'
  BY <1>3, <1>0, LoginsFrame, ExchangedToken
     DEF CallbackTake, Goto, history, TypeOK
<1>4. ASSUME NEW h \in Handler, NEW g \in Code, NEW req \in TokenRequests,
             TokenTake(h, g, req)
      PROVE  LoginsInv'
  BY <1>4, <1>0, LoginsFrame, ExchangedToken
     DEF TokenTake, Goto, history, TypeOK
<1>5. ASSUME NEW h \in Handler, AuthorizeInsert(h)
      PROVE  LoginsInv'
  <2> DEFINE s == call[h].state
             record == [session |-> SessionFor(call[h].req), at |-> now,
                        run |-> restarts]
  <2>1. s \in State /\ record \in BeganRecord
    BY <1>5, CallFields, SessionForType DEF AuthorizeInsert, TypeOK, BeganRecord
  <2>2. began' = began \/ began' = [began EXCEPT ![s] = record]
    BY <1>5 DEF AuthorizeInsert
  <2>3. \A t \in State : began[t] # None => began'[t] # None
    BY <2>1, <2>2, <1>0, NoneAssumption
  <2> QED
    BY <1>5, <1>0, <2>3, LoginsFrame, ExchangedToken
       DEF AuthorizeInsert, Goto, Idle, TypeOK
<1>6. ASSUME NEW h \in Handler, CallbackGivesUp(h)
      PROVE  LoginsInv'
  BY <1>6, <1>0, LoginsFrame, ExchangedToken
     DEF CallbackGivesUp, Goto, Idle, history, TypeOK
<1>17. ASSUME NEW h \in Handler, CallbackProceeds(h)
      PROVE  LoginsInv'
  BY <1>17, <1>0, LoginsFrame, ExchangedToken
     DEF CallbackProceeds, Goto, history, TypeOK
<1>7. ASSUME NEW h \in Handler, exchangeCode(h)
      PROVE  LoginsInv'
  <2> DEFINE u == call[h].token
  <2>1. /\ u \in Login /\ login[u].state = call[h].state
        /\ \A v \in Login : login'[v].state = login[v].state
    BY <1>7, CallFields DEF exchangeCode, ProviderAccepts, TypeOK, LoginRecord
  <2>2. /\ call'[h].token = u /\ call'[h].state = call[h].state
        /\ \A k \in Handler : k # h => call'[k] = call[k]
        /\ UNCHANGED began
    BY <1>7, <1>0 DEF exchangeCode, Goto, history
  <2>3. \A v \in Login : login'[v].state # None => began'[login'[v].state] # None
    BY <2>1, <2>2 DEF LoginsInv
  <2>4. ASSUME NEW k \in Handler, call'[k].at = "exchanged"
        PROVE  login'[call'[k].token].state = call'[k].state
    <3>1. CASE k = h
      BY <2>1, <2>2, <3>1
    <3>2. CASE k # h
      BY <2>1, <2>2, <2>4, <3>2, ExchangedToken DEF LoginsInv
    <3> QED
      BY <3>1, <3>2
  <2> QED
    BY <2>3, <2>4 DEF LoginsInv
<1>8. ASSUME NEW h \in Handler, exchangeFails(h)
      PROVE  LoginsInv'
  <2>1. \A v \in Login : login'[v].state = login[v].state
    BY <1>8 DEF exchangeFails, TypeOK, LoginRecord
  <2> QED
    BY <1>8, <1>0, <2>1, LoginsFrame, ExchangedToken
       DEF exchangeFails, Goto, Idle, history, TypeOK
<1>9. ASSUME NEW h \in Handler, CallbackGrants(h)
      PROVE  LoginsInv'
  BY <1>9, <1>0, LoginsFrame, ExchangedToken
     DEF CallbackGrants, Goto, Idle, TypeOK
<1>10. ASSUME NEW h \in Handler, CallbackRejects(h)
      PROVE  LoginsInv'
  BY <1>10, <1>0, LoginsFrame, ExchangedToken
     DEF CallbackRejects, Goto, Idle, history, TypeOK
<1>11. ASSUME NEW h \in Handler, TokenAnswer(h)
      PROVE  LoginsInv'
  BY <1>11, <1>0, LoginsFrame, ExchangedToken
     DEF TokenAnswer, Goto, Idle, TypeOK
<1>12. CASE sweep
  BY <1>12, <1>0, SweptEntry, LoginsFrame, ExchangedToken
     DEF sweep, history, TypeOK
<1>13. CASE Tick
  BY <1>13, <1>0, LoginsFrame, ExchangedToken
     DEF Tick, history, TypeOK
<1>14. CASE Restart
  BY <1>14, <1>0, LoginsFrame, ExchangedToken
     DEF Restart, Idle, history, TypeOK
<1>15. ASSUME NEW u \in Login, NEW s \in State, ProviderLogin(u, s)
      PROVE  LoginsInv'
  <2>1. /\ \A v \in Login : login'[v].state = IF v = u THEN s ELSE login[v].state
        /\ UNCHANGED <<began, call>>
        /\ began[s] # None /\ login[u].state = None
    BY <1>15 DEF ProviderLogin, history, TypeOK, LoginRecord
  <2>2. \A k \in Handler : call[k].at = "exchanged" => call[k].token # u
    BY <2>1, ExchangedToken, NoneAssumption DEF LoginsInv
  <2> QED
    BY <2>1, <2>2, ExchangedToken DEF LoginsInv
<1>16. CASE UNCHANGED vars
  BY <1>16, <1>0, LoginsFrame, ExchangedToken
     DEF vars, TypeOK
<1> QED
  BY <1>1, <1>2, <1>3, <1>4, <1>5, <1>6, <1>7, <1>8, <1>9, <1>10, <1>11,
     <1>12, <1>13, <1>14, <1>15, <1>16, <1>17 DEF Next, HandlerStep

-----------------------------------------------------------------------------
(* Grants: each code stands for one finished session.                      *)

\* The state behind a code is a state that was begun.
LEMMA StateOfCode ==
  ASSUME TypeOK, LoginsInv, NEW g \in Code, minted[g] # None, GrantInv(g)
  PROVE  /\ minted[g].grant.token \in Login
         /\ StateOf(g) \in State
         /\ began[StateOf(g)] # None
<1>1. minted[g].grant.token \in Login
  BY DEF TypeOK, MintedRecord, proxyGrant
<1> QED
  BY <1>1 DEF TypeOK, LoginRecord, LoginsInv, GrantInv, StateOf

\* A step that forgets no login, changes no begun session, revives no session
\* and brings back no code preserves GrantInv of a code it does not mint.
LEMMA GrantFrame ==
  ASSUME TypeOK, LoginsInv, NEW g \in Code,
         minted[g] # None, minted'[g] = minted[g], GrantInv(g),
         \A u \in Login : login[u].state # None => login'[u].state = login[u].state,
         \A s \in State : began[s] # None => began'[s] = began[s],
         \A s \in State : began[s] # None /\ sessions[s] = None
                            => sessions'[s] = None,
         \A h \in Handler, s \in State :
           InCallback(h, s)' => InCallback(h, s) \/ sessions[s] # None,
         grants'[g] # None \/ (\E h \in Handler : Redeeming(h, g)')
             => /\ grants[g] # None \/ (\E h \in Handler : Redeeming(h, g))
                /\ UNCHANGED restarts
  PROVE  GrantInv(g)' /\ StateOf(g)' = StateOf(g)
<1>0. PICK s \in State : s = StateOf(g)
  BY StateOfCode
<1>1. s # None /\ began[s] # None /\ minted[g].grant.token \in Login
  BY <1>0, StateOfCode DEF GrantInv
<1>2. StateOf(g)' = s
  BY <1>0, <1>1 DEF StateOf
<1>3. /\ sessions'[s] = None /\ began'[s] = began[s]
      /\ minted'[g] = minted[g]
  BY <1>0, <1>1 DEF GrantInv
<1>4. \A h \in Handler : ~InCallback(h, s)'
  BY <1>0, <1>1 DEF GrantInv
<1>5. \A h \in Handler : ~InCallback(h, StateOf(g))'
  BY <1>4, <1>2 DEF InCallback
<1>6. sessions'[StateOf(g)'] = None /\ StateOf(g)' # None
  BY <1>1, <1>2, <1>3
<1>7. /\ minted'[g].grant.token \in Accepted
      /\ minted'[g].grant.client = began'[StateOf(g)'].session.client
      /\ minted'[g].grant.redirect = began'[StateOf(g)'].session.redirect
      /\ minted'[g].grant.challenge = began'[StateOf(g)'].session.challenge
      /\ minted'[g].grant.method = began'[StateOf(g)'].session.method
      /\ minted'[g].grant.expires = minted'[g].at + GrantTTL
  BY <1>0, <1>2, <1>3 DEF GrantInv
<1>8. grants'[g] # None \/ (\E h \in Handler : Redeeming(h, g)')
        => began'[StateOf(g)'].run = restarts'
  BY <1>0, <1>2, <1>3 DEF GrantInv
<1>9. GrantInv(g)'
  BY <1>5, <1>6, <1>7, <1>8 DEF GrantInv
<1> QED
  BY <1>0, <1>2, <1>9

\* A step that mints no code and is as above for every code preserves
\* GrantsInv.
LEMMA GrantsFrame ==
  ASSUME TypeOK, LoginsInv, GrantsInv, UNCHANGED minted,
         \A u \in Login : login[u].state # None => login'[u].state = login[u].state,
         \A s \in State : began[s] # None => began'[s] = began[s],
         \A s \in State : began[s] # None /\ sessions[s] = None
                            => sessions'[s] = None,
         \A h \in Handler, s \in State :
           InCallback(h, s)' => InCallback(h, s) \/ sessions[s] # None,
         \A g \in Code :
           grants'[g] # None \/ (\E h \in Handler : Redeeming(h, g)')
             => /\ grants[g] # None \/ (\E h \in Handler : Redeeming(h, g))
                /\ UNCHANGED restarts
  PROVE  GrantsInv'
<1>1. ASSUME NEW g \in Code, minted[g] # None
      PROVE  GrantInv(g)' /\ StateOf(g)' = StateOf(g)
  BY <1>1, GrantFrame DEF GrantsInv
<1>2. OneCodePerSession'
  BY <1>1 DEF GrantsInv, OneCodePerSession, StateOf
<1>3. \A g \in Code : GrantInv(g)'
  BY <1>1 DEF GrantInv
<1> QED
  BY <1>2, <1>3 DEF GrantsInv

\* GrantsInv is inductive: only the end of a callback mints a code.
LEMMA GrantsInvStep ==
  TypeOK /\ SessionsInv /\ LoginsInv /\ GrantsInv /\ [Next]_vars => GrantsInv'
<1> SUFFICES ASSUME TypeOK, SessionsInv, LoginsInv, GrantsInv, [Next]_vars
             PROVE  GrantsInv'
  OBVIOUS
<1>0. /\ DOMAIN grants = Code /\ DOMAIN call = Handler
      /\ DOMAIN sessions = State /\ DOMAIN began = State
      /\ DOMAIN login = Login /\ DOMAIN minted = Code
  BY DEF TypeOK
<1>1. ASSUME NEW uris \in SUBSET Redirect, handleRegister(uris)
      PROVE  GrantsInv'
  BY <1>1, <1>0, SweptEntry, GrantsFrame
     DEF handleRegister, registerClient, InCallback, Redeeming
<1>2. ASSUME NEW h \in Handler, NEW req \in AuthRequests,
             AuthorizeLookup(h, req)
      PROVE  GrantsInv'
  BY <1>2, <1>0, GrantsFrame
     DEF AuthorizeLookup, Goto, history, InCallback, Redeeming
<1>3. ASSUME NEW h \in Handler, NEW s \in State, NEW param \in CallbackParam,
             CallbackTake(h, s, param)
      PROVE  GrantsInv'
  BY <1>3, <1>0, GrantsFrame
     DEF CallbackTake, Goto, history, InCallback, Redeeming
<1>4. ASSUME NEW h \in Handler, NEW g \in Code, NEW req \in TokenRequests,
             TokenTake(h, g, req)
      PROVE  GrantsInv'
  BY <1>4, <1>0, GrantsFrame
     DEF TokenTake, Goto, history, InCallback, Redeeming
<1>5. ASSUME NEW h \in Handler, AuthorizeInsert(h)
      PROVE  GrantsInv'
  <2> DEFINE s == call[h].state
  <2>1. s \in State /\ began[s] = None
    BY <1>5, CallFields DEF AuthorizeInsert, SessionsInv, TypeOK
  <2>2. \A t \in State : t # s => /\ began'[t] = began[t]
                                  /\ sessions'[t] \in {sessions[t], None}
    BY <1>5, <1>0, <2>1, SweptEntry, MakeRoomType DEF AuthorizeInsert
  <2>3. /\ \A k \in Handler, t \in State : InCallback(k, t)' => InCallback(k, t)
        /\ \A k \in Handler, f \in Code : Redeeming(k, f)' => Redeeming(k, f)
        /\ \A f \in Code : grants'[f] \in {grants[f], None}
        /\ UNCHANGED <<minted, login, restarts>>
    BY <1>5, <1>0, SweptEntry
       DEF AuthorizeInsert, Goto, Idle, InCallback, Redeeming
  <2> HIDE DEF s
  <2> QED
    BY <2>1, <2>2, <2>3, GrantsFrame
<1>6. ASSUME NEW h \in Handler, CallbackGivesUp(h)
      PROVE  GrantsInv'
  BY <1>6, <1>0, GrantsFrame
     DEF CallbackGivesUp, Goto, Idle, history, InCallback, Redeeming
<1>17. ASSUME NEW h \in Handler, CallbackProceeds(h)
      PROVE  GrantsInv'
  BY <1>17, <1>0, GrantsFrame
     DEF CallbackProceeds, Goto, history, InCallback, Redeeming
<1>7. ASSUME NEW h \in Handler, exchangeCode(h)
      PROVE  GrantsInv'
  <2>1. \A v \in Login : login'[v].state = login[v].state
    BY <1>7 DEF exchangeCode, TypeOK, LoginRecord
  <2> QED
    BY <1>7, <1>0, <2>1, GrantsFrame
       DEF exchangeCode, Goto, history, InCallback, Redeeming
<1>8. ASSUME NEW h \in Handler, exchangeFails(h)
      PROVE  GrantsInv'
  <2>1. \A v \in Login : login'[v].state = login[v].state
    BY <1>8 DEF exchangeFails, TypeOK, LoginRecord
  <2> QED
    BY <1>8, <1>0, <2>1, GrantsFrame
       DEF exchangeFails, Goto, Idle, history, InCallback, Redeeming
<1>9. ASSUME NEW h \in Handler, CallbackGrants(h)
      PROVE  GrantsInv'
  <2> DEFINE u == call[h].token
             grant == GrantFor(call[h].session, u)
  <2>. PICK s \in State : s = call[h].state
    BY <1>9, ExchangedToken DEF CallbackGrants
  <2>0. PICK g \in Code :
          /\ minted[g] = None
          /\ grants' = [grants EXCEPT ![g] = grant]
          /\ minted' = [minted EXCEPT ![g] = [grant |-> grant, at |-> now]]
    BY <1>9 DEF CallbackGrants
  <2>1. /\ u \in Login /\ u \in Accepted /\ InCallback(h, s)
        /\ login[u].state = s
        /\ UNCHANGED <<login, began, sessions, restarts>>
    BY <1>9, ExchangedToken DEF CallbackGrants, InCallback, LoginsInv
  <2>2. /\ call'[h] = Idle
        /\ \A k \in Handler : k # h => call'[k] = call[k]
    BY <1>9, <1>0 DEF CallbackGrants, Goto
  <2>3. /\ began[s] # None /\ call[h].session = began[s].session
        /\ began[s].run = restarts /\ sessions[s] = None
        /\ \A k \in Handler : InCallback(k, s) => k = h
    BY <2>1 DEF SessionsInv
  <2>4. /\ \A k \in Handler, t \in State :
             InCallback(k, t)' => k # h /\ InCallback(k, t)
        /\ \A k \in Handler, f \in Code : Redeeming(k, f)' => Redeeming(k, f)
    BY <2>2 DEF InCallback, Redeeming, Idle
  <2>5. /\ minted'[g] = [grant |-> grant, at |-> now]
        /\ \A f \in Code : f # g => minted'[f] = minted[f] /\ grants'[f] = grants[f]
    BY <2>0, <1>0
  <2>6. \A f \in Code : minted[f] # None => StateOf(f) # s
    BY <2>1 DEF GrantsInv, GrantInv
  <2>7. /\ grant.token = u /\ grant.client = began[s].session.client
        /\ grant.redirect = began[s].session.redirect
        /\ grant.challenge = began[s].session.challenge
        /\ grant.method = began[s].session.method
        /\ grant.expires = now + GrantTTL
    BY <2>3 DEF GrantFor
  <2>8. s # None
    BY <2>1, NoneAssumption
  <2> HIDE DEF u, grant
  <2>9. StateOf(g)' = s
    BY <2>1, <2>5, <2>7 DEF StateOf
  <2>10. GrantInv(g)'
    <3>1. \A k \in Handler : ~InCallback(k, s)'
      BY <2>1, <2>3, <2>4
    <3>2. \A k \in Handler : ~InCallback(k, StateOf(g))'
      BY <3>1, <2>9 DEF InCallback
    <3>3. /\ minted'[g].grant = grant /\ minted'[g].at = now
          /\ sessions'[StateOf(g)'] = None /\ StateOf(g)' # None
          /\ began'[StateOf(g)'] = began[s] /\ restarts' = restarts
      BY <2>1, <2>3, <2>5, <2>8, <2>9
    <3>4. /\ minted'[g].grant.token \in Accepted
          /\ minted'[g].grant.client = began'[StateOf(g)'].session.client
          /\ minted'[g].grant.redirect = began'[StateOf(g)'].session.redirect
          /\ minted'[g].grant.challenge = began'[StateOf(g)'].session.challenge
          /\ minted'[g].grant.method = began'[StateOf(g)'].session.method
          /\ minted'[g].grant.expires = minted'[g].at + GrantTTL
          /\ began'[StateOf(g)'].run = restarts'
      BY <2>1, <2>3, <2>7, <3>3
    <3> QED
      BY <3>2, <3>3, <3>4 DEF GrantInv
  <2>11. ASSUME NEW f \in Code, f # g, minted[f] # None
         PROVE  GrantInv(f)' /\ StateOf(f)' = StateOf(f)
    <3>1. minted'[f] = minted[f] /\ grants'[f] = grants[f] /\ GrantInv(f)
      BY <2>5, <2>11 DEF GrantsInv
    <3> QED
      BY <3>1, <2>1, <2>4, <2>11, GrantFrame
  <2>12. \A f \in Code : GrantInv(f)'
    <3>1. ASSUME NEW f \in Code, f # g, minted[f] = None
          PROVE  GrantInv(f)'
      BY <3>1, <2>5 DEF GrantInv
    <3> QED
      BY <3>1, <2>10, <2>11
  <2>13. OneCodePerSession'
    <3>1. \A f \in Code : minted'[f] # None /\ f # g
                            => minted[f] # None /\ StateOf(f)' = StateOf(f)
      BY <2>5, <2>11
    <3>2. \A e, f \in Code :
            minted'[e] # None /\ minted'[f] # None /\ StateOf(e)' = StateOf(f)'
              => e = f
      BY <3>1, <2>6, <2>9 DEF GrantsInv, OneCodePerSession, StateOf
    <3> QED
      BY <3>2 DEF OneCodePerSession, StateOf
  <2> QED
    BY <2>12, <2>13 DEF GrantsInv
<1>10. ASSUME NEW h \in Handler, CallbackRejects(h)
      PROVE  GrantsInv'
  BY <1>10, <1>0, GrantsFrame
     DEF CallbackRejects, Goto, Idle, history, InCallback, Redeeming
<1>11. ASSUME NEW h \in Handler, TokenAnswer(h)
      PROVE  GrantsInv'
  BY <1>11, <1>0, GrantsFrame
     DEF TokenAnswer, Goto, Idle, InCallback, Redeeming
<1>12. CASE sweep
  BY <1>12, <1>0, SweptEntry, GrantsFrame
     DEF sweep, history, InCallback, Redeeming
<1>13. CASE Tick
  BY <1>13, <1>0, GrantsFrame
     DEF Tick, history, InCallback, Redeeming
<1>14. CASE Restart
  BY <1>14, <1>0, GrantsFrame
     DEF Restart, Idle, history, InCallback, Redeeming
<1>15. ASSUME NEW u \in Login, NEW s \in State, ProviderLogin(u, s)
      PROVE  GrantsInv'
  <2>1. \A v \in Login : login[v].state # None => login'[v].state = login[v].state
    BY <1>15 DEF ProviderLogin, TypeOK, LoginRecord
  <2> QED
    BY <1>15, <2>1, GrantsFrame DEF ProviderLogin, history, InCallback, Redeeming
<1>16. CASE UNCHANGED vars
  BY <1>16, <1>0, GrantsFrame
     DEF vars, InCallback, Redeeming
<1> QED
  BY <1>1, <1>2, <1>3, <1>4, <1>5, <1>6, <1>7, <1>8, <1>9, <1>10, <1>11,
     <1>12, <1>13, <1>14, <1>15, <1>16, <1>17 DEF Next, HandlerStep

-----------------------------------------------------------------------------
(* Deliveries: what /token answers.                                        *)

\* No step rewrites what the history and the provider remember.
LEMMA HistoryKept ==
  ASSUME TypeOK, CodesInv, SessionsInv, LoginsInv, [Next]_vars
  PROVE  /\ \A g \in Code : redeemed[g] = 1 => redeemed'[g] = 1
         /\ \A g \in Code : minted[g] # None => minted'[g] = minted[g]
         /\ \A u \in Login : login[u].state # None
                               => login'[u].state = login[u].state
         /\ \A s \in State : began[s] # None => began'[s] = began[s]
<1>0. /\ DOMAIN began = State /\ DOMAIN login = Login /\ DOMAIN minted = Code
  BY DEF TypeOK
<1>1. \A g \in Code : minted[g] # None => minted'[g] = minted[g]
  <2>1. ASSUME NEW h \in Handler, CallbackGrants(h)
        PROVE  \A g \in Code : minted[g] # None => minted'[g] = minted[g]
    <3>1. PICK g \in Code :
            /\ minted[g] = None
            /\ \E record : minted' = [minted EXCEPT ![g] = record]
      BY <2>1 DEF CallbackGrants
    <3> QED
      BY <3>1, <1>0
  <2> QED
    BY <2>1 DEF Next, HandlerStep, vars, history, handleRegister, AuthorizeLookup,
         AuthorizeInsert, CallbackTake, CallbackGivesUp, CallbackProceeds,
         exchangeCode, exchangeFails,
         CallbackRejects, TokenTake, TokenAnswer, sweep, Tick, Restart, ProviderLogin
<1>2. \A u \in Login : login[u].state # None => login'[u].state = login[u].state
  <2>1. ASSUME NEW u \in Login, NEW s \in State, ProviderLogin(u, s)
        PROVE  \A v \in Login : login[v].state # None => login'[v].state = login[v].state
    BY <2>1, <1>0 DEF ProviderLogin, TypeOK, LoginRecord
  <2>2. ASSUME NEW h \in Handler, exchangeCode(h) \/ exchangeFails(h)
        PROVE  \A v \in Login : login[v].state # None => login'[v].state = login[v].state
    BY <2>2, <1>0 DEF exchangeCode, exchangeFails, TypeOK, LoginRecord
  <2> QED
    BY <2>1, <2>2 DEF Next, HandlerStep, vars, history, handleRegister, AuthorizeLookup,
         AuthorizeInsert, CallbackTake, CallbackGivesUp, CallbackProceeds, CallbackGrants,
         CallbackRejects, TokenTake, TokenAnswer, sweep, Tick, Restart
<1>3. \A s \in State : began[s] # None => began'[s] = began[s]
  <2>1. ASSUME NEW h \in Handler, AuthorizeInsert(h)
        PROVE  \A s \in State : began[s] # None => began'[s] = began[s]
    <3>1. began[call[h].state] = None
      BY <2>1 DEF AuthorizeInsert, SessionsInv
    <3>2. began' = began \/ \E record :
                              began' = [began EXCEPT ![call[h].state] = record]
      BY <2>1 DEF AuthorizeInsert
    <3> QED
      BY <3>1, <3>2, <1>0
  <2> QED
    BY <2>1 DEF Next, HandlerStep, vars, history, handleRegister, AuthorizeLookup,
         CallbackTake, CallbackGivesUp, CallbackProceeds, exchangeCode,
         exchangeFails, CallbackGrants,
         CallbackRejects, TokenTake, TokenAnswer, sweep, Tick, Restart, ProviderLogin
<1>4. \A g \in Code : redeemed[g] = 1 => redeemed'[g] = 1
  <2>1. ASSUME NEW h \in Handler, TokenAnswer(h)
        PROVE  \A g \in Code : redeemed[g] = 1 => redeemed'[g] = 1
    <3>1. call[h].code \in Code /\ Redeeming(h, call[h].code)
      BY <2>1, CallFields DEF TokenAnswer, Redeeming, TypeOK
    <3>2. redeemed[call[h].code] = 0
      BY <3>1 DEF CodesInv
    <3>3. \/ redeemed' = redeemed
          \/ redeemed' = [redeemed EXCEPT ![call[h].code] = @ + 1]
      BY <2>1 DEF TokenAnswer
    <3> QED
      BY <3>2, <3>3 DEF TypeOK
  <2> QED
    BY <2>1 DEF Next, HandlerStep, vars, history, handleRegister, AuthorizeLookup,
         AuthorizeInsert, CallbackTake, CallbackGivesUp, CallbackProceeds,
         exchangeCode, exchangeFails, CallbackGrants,
         CallbackRejects, TokenTake, sweep, Tick, Restart, ProviderLogin
<1> QED
  BY <1>1, <1>2, <1>3, <1>4

\* Old deliveries stay right.
LEMMA OldDeliveries ==
  ASSUME TypeOK, CodesInv, SessionsInv, LoginsInv, GrantsInv, DeliveriesInv, [Next]_vars,
         NEW d \in delivered
  PROVE  DeliveryInv(d)'
<1>1. /\ d.code \in Code /\ minted[d.code] # None /\ DeliveryInv(d)
  BY DEF TypeOK, Delivery, DeliveriesInv, DeliveryInv
<1>2. /\ minted[d.code].grant.token \in Login
      /\ StateOf(d.code) \in State
      /\ began[StateOf(d.code)] # None
  BY <1>1, StateOfCode DEF GrantsInv
<1>3. minted'[d.code] = minted[d.code]
  BY <1>1, HistoryKept
<1>4. StateOf(d.code)' = StateOf(d.code)
  BY <1>1, <1>2, <1>3, HistoryKept, NoneAssumption DEF StateOf
<1>5. began'[StateOf(d.code)] = began[StateOf(d.code)]
  BY <1>2, HistoryKept
<1>6. d.run = began'[StateOf(d.code)'].run
  BY <1>1, <1>4, <1>5 DEF DeliveryInv
<1>7. redeemed'[d.code] = 1
  BY <1>1, HistoryKept DEF DeliveryInv
<1> QED
  BY <1>1, <1>3, <1>6, <1>7 DEF DeliveryInv

\* DeliveriesInv is inductive: a redemption answers from the grant it took.
LEMMA DeliveriesInvStep ==
  TypeOK /\ CodesInv /\ SessionsInv /\ LoginsInv /\ GrantsInv /\ DeliveriesInv
    /\ [Next]_vars => DeliveriesInv'
<1> SUFFICES ASSUME TypeOK, CodesInv, SessionsInv, LoginsInv, GrantsInv,
                    DeliveriesInv, [Next]_vars
             PROVE  DeliveriesInv'
  OBVIOUS
<1>1. ASSUME NEW h \in Handler, TokenAnswer(h), NEW d \in delivered',
             d \notin delivered
      PROVE  DeliveryInv(d)'
  <2>. PICK g \in Code : g = call[h].code
    BY <1>1, CallFields DEF TokenAnswer, TypeOK
  <2>1. /\ Redeems(call[h].grant, call[h].req)
        /\ d = [code |-> g, token |-> call[h].grant.token,
                client |-> call[h].req.client, redirect |-> call[h].req.redirect,
                verifier |-> call[h].req.verifier, at |-> now, run |-> restarts]
        /\ UNCHANGED <<minted, login, began>>
    BY <1>1 DEF TokenAnswer
  <2>2. Redeeming(h, g)
    BY <1>1 DEF TokenAnswer, Redeeming
  <2>3. minted[g] # None /\ call[h].grant = minted[g].grant
    BY <2>2 DEF CodesInv
  <2>4. began[StateOf(g)].run = restarts
    BY <2>2, <2>3 DEF GrantsInv, GrantInv
  <2>5. now <= minted[g].grant.expires
    <3>1. now \in Nat /\ minted[g].grant.expires \in Nat
      BY <2>3 DEF TypeOK, MintedRecord, proxyGrant
    <3>2. ~Expired(minted[g].grant)
      BY <2>1, <2>3 DEF Redeems
    <3> QED
      BY <3>1, <3>2 DEF Expired
  <2>6. StateOf(g)' = StateOf(g)
    BY <2>1 DEF StateOf
  <2>7. d.run = began'[StateOf(g)'].run /\ d.code = g
    BY <2>1, <2>4, <2>6
  <2>8. d.at <= minted'[g].grant.expires
    BY <2>1, <2>5
  <2>9. /\ d.token = minted'[g].grant.token
        /\ d.client = minted'[g].grant.client
        /\ d.redirect = minted'[g].grant.redirect
        /\ pkceMatches(minted'[g].grant.challenge, d.verifier,
                       minted'[g].grant.method)
    BY <2>1, <2>3 DEF Redeems
  <2>10. redeemed'[g] = 1
    <3>1. redeemed[g] = 0
      BY <2>2 DEF CodesInv
    <3>2. redeemed' = [redeemed EXCEPT ![g] = @ + 1]
      BY <1>1 DEF TokenAnswer
    <3> QED
      BY <3>1, <3>2 DEF TypeOK
  <2> QED
    BY <2>1, <2>3, <2>7, <2>8, <2>9, <2>10
       DEF DeliveryInv, pkceMatches, pkceChallenge
<1>2. delivered' = delivered \/ \E h \in Handler : TokenAnswer(h)
  BY DEF Next, HandlerStep, vars, history, handleRegister, AuthorizeLookup,
       AuthorizeInsert, CallbackTake, CallbackGivesUp, CallbackProceeds,
         exchangeCode, exchangeFails,
       CallbackGrants, CallbackRejects, TokenTake, sweep, Tick, Restart,
       ProviderLogin
<1>3. \A d \in delivered' : DeliveryInv(d)'
  BY <1>1, <1>2, OldDeliveries
<1> QED
  BY <1>3 DEF DeliveriesInv

-----------------------------------------------------------------------------
(* The theorems.                                                           *)

\* The initial state satisfies the inductive invariant.
LEMMA IInvInit == Init => IInv
<1> SUFFICES ASSUME Init PROVE IInv
  OBVIOUS
<1>1. TypeOK
  BY DEF Init, TypeOK, Call, LoginRecord
<1>2. CodesInv
  BY DEF Init, CodesInv, Redeeming, Idle
<1>3. SessionsInv
  BY DEF Init, SessionsInv, InCallback, Idle
<1>4. LoginsInv
  BY DEF Init, LoginsInv, Idle
<1>5. GrantsInv
  BY DEF Init, GrantsInv, GrantInv, OneCodePerSession
<1>6. DeliveriesInv
  BY DEF Init, DeliveriesInv
<1> QED
  BY <1>1, <1>2, <1>3, <1>4, <1>5, <1>6 DEF IInv

LEMMA IInvStep == IInv /\ [Next]_vars => IInv'
BY TypeOKStep, CodesInvStep, SessionsInvStep, LoginsInvStep, GrantsInvStep,
   DeliveriesInvStep DEF IInv

\* Every code, session and login is where, and says what, the history says.
THEOREM InductiveInvariant == Spec => []IInv
BY IInvInit, IInvStep, PTL DEF Spec

\* A passage through /authorize leads to at most one code, whatever callbacks
\* are delivered twice and whatever users log in twice.
THEOREM OneCode == Spec => []OneCodePerSession
<1>1. IInv => OneCodePerSession
  BY DEF IInv, GrantsInv
<1> QED
  BY <1>1, InductiveInvariant, PTL

\* A token goes to the client, the redirect URI and the PKCE verifier of the
\* authorization request that the login answered.
THEOREM TokenBinding == Spec => []TokenReachesItsRequester
<1>1. ASSUME IInv, NEW d \in delivered
      PROVE  /\ d.token \in Accepted
             /\ OriginOf(d.token) # None
             /\ OriginOf(d.token).session.client = d.client
             /\ OriginOf(d.token).session.redirect = d.redirect
             /\ pkceMatches(OriginOf(d.token).session.challenge, d.verifier,
                            OriginOf(d.token).session.method)
  <2>1. /\ d.code \in Code /\ DeliveryInv(d) /\ minted[d.code] # None
        /\ GrantInv(d.code)
    BY <1>1 DEF IInv, TypeOK, Delivery, DeliveriesInv, DeliveryInv, GrantsInv
  <2>2. began[StateOf(d.code)] # None
    BY <1>1, <2>1, StateOfCode DEF IInv
  <2>3. OriginOf(d.token) = began[StateOf(d.code)]
    BY <2>1 DEF OriginOf, StateOf, DeliveryInv
  <2> QED
    BY <2>1, <2>2, <2>3 DEF DeliveryInv, GrantInv
<1>2. IInv => TokenReachesItsRequester
  BY <1>1 DEF TokenReachesItsRequester
<1> QED
  BY <1>2, InductiveInvariant, PTL

\* No token is delivered across a restart of the server.
THEOREM RestartSafety == Spec => []RestartAbortsLogins
<1>1. ASSUME IInv, NEW d \in delivered
      PROVE  OriginOf(d.token).run = d.run
  BY <1>1 DEF IInv, DeliveriesInv, DeliveryInv, OriginOf, StateOf
<1>2. IInv => RestartAbortsLogins
  BY <1>1 DEF RestartAbortsLogins
<1> QED
  BY <1>2, InductiveInvariant, PTL

\* A code yields a token only within proxyGrantTTL of its issue.
THEOREM CodeLifetime == Spec => []CodesExpire
<1>1. ASSUME IInv, NEW d \in delivered
      PROVE  /\ minted[d.code] # None
             /\ d.at <= minted[d.code].at + GrantTTL
  <2>1. d.code \in Code /\ minted[d.code] # None /\ GrantInv(d.code)
        /\ d.at <= minted[d.code].grant.expires
    BY <1>1 DEF IInv, TypeOK, Delivery, DeliveriesInv, DeliveryInv, GrantsInv
  <2> QED
    BY <2>1 DEF GrantInv
<1>2. IInv => CodesExpire
  BY <1>1 DEF CodesExpire
<1> QED
  BY <1>2, InductiveInvariant, PTL

\* The provider is asked only within proxySessionTTL of the /authorize.
THEOREM SessionLifetime == Spec => SessionsExpire
<1>1. ASSUME IInv, [Next]_vars, NEW h \in Handler,
             call[h].at = "callback", call'[h].at = "exchanging"
      PROVE  now <= began[call[h].state].at + SessionTTL
  <2>. PICK s \in State : s = call[h].state
    BY <1>1, CallFields DEF IInv, TypeOK
  <2>1. CallbackProceeds(h)
    <3>1. DOMAIN call = Handler
      BY <1>1 DEF IInv, TypeOK
    <3>2. call' # call
      BY <1>1
    <3>3. ASSUME NEW k \in Handler, NEW c, Goto(k, c)
          PROVE  k = h /\ c.at = "exchanging"
      BY <1>1, <3>1, <3>3 DEF Goto
    <3>4. ASSUME NEW k \in Handler, NEW req \in AuthRequests, AuthorizeLookup(k, req)
          PROVE  FALSE
      BY <1>1, <3>2, <3>3, <3>4 DEF AuthorizeLookup
    <3>5. ASSUME NEW k \in Handler, NEW u \in State, NEW param \in CallbackParam,
                 CallbackTake(k, u, param)
          PROVE  FALSE
      BY <3>3, <3>5 DEF CallbackTake
    <3>6. ASSUME NEW k \in Handler, NEW g \in Code, NEW req \in TokenRequests,
                 TokenTake(k, g, req)
          PROVE  FALSE
      BY <3>3, <3>6 DEF TokenTake
    <3>7. ASSUME NEW k \in Handler, HandlerStep(k)
          PROVE  CallbackProceeds(h)
      <4>1. ~Goto(k, Idle)
        BY <3>3 DEF Idle
      <4>2. ~exchangeCode(k)
        BY <3>3 DEF exchangeCode
      <4>3. CallbackProceeds(k) => k = h
        BY <3>3 DEF CallbackProceeds
      <4> QED
        BY <3>7, <4>1, <4>2, <4>3 DEF HandlerStep, AuthorizeInsert,
           CallbackGivesUp, exchangeFails, CallbackGrants, CallbackRejects,
           TokenAnswer
    <3>8. CASE Restart
      BY <1>1, <3>8 DEF Restart, Idle
    <3> QED
      BY <1>1, <3>2, <3>4, <3>5, <3>6, <3>7, <3>8
         DEF Next, vars, handleRegister, sweep, Tick, ProviderLogin
  <2>2. /\ call[h].session = began[s].session
        /\ began[s].session.expires = began[s].at + SessionTTL
    BY <1>1 DEF IInv, SessionsInv, InCallback
  <2>3. began[s].at + SessionTTL \in Nat /\ now \in Nat
    BY <1>1, <2>2, ConstantsAssumption, CallFields DEF IInv, TypeOK, proxySession
  <2> QED
    BY <2>1, <2>2, <2>3 DEF CallbackProceeds, Expired
<1>2. IInv /\ [Next]_vars
        => [\A h \in Handler :
              call[h].at = "callback" /\ call'[h].at = "exchanging"
              => now <= began[call[h].state].at + SessionTTL]_vars
  BY <1>1
<1> QED
  BY <1>2, InductiveInvariant, PTL DEF Spec, SessionsExpire

-----------------------------------------------------------------------------
(* The proxy implements LoginFlow.                                         *)

\* What a step may do to the phase of a login that it does not advance.
Framed(s) ==
  \/ phaseOf(s)' = phaseOf(s)
  \/ phaseOf(s) \in {"open", "coded"} /\ phaseOf(s)' = "closed"

\* What it may do to the one that it advances.
Advances(s) ==
  <<phaseOf(s), phaseOf(s)'>> \in
    {<<"new", "open">>, <<"open", "coded">>, <<"coded", "delivered">>}

\* A grant in the map or in the hands of a /token call, and a delivered token,
\* are those of a code, and the provider knows their login.
LEMMA CodeOfGrant ==
  ASSUME IInv
  PROVE  /\ \A g \in Code : grants[g] # None =>
              /\ minted[g] # None /\ redeemed[g] = 0
              /\ grants[g].token \in Login
              /\ login[grants[g].token].state = StateOf(g)
              /\ StateOf(g) \in State
         /\ \A h \in Handler : call[h].at = "redeem" =>
              /\ call[h].code \in Code
              /\ minted[call[h].code] # None /\ redeemed[call[h].code] = 0
              /\ call[h].grant.token \in Login
              /\ login[call[h].grant.token].state = StateOf(call[h].code)
              /\ StateOf(call[h].code) \in State
         /\ \A d \in delivered :
              /\ d.code \in Code
              /\ minted[d.code] # None /\ redeemed[d.code] = 1
              /\ d.token \in Login
              /\ login[d.token].state = StateOf(d.code)
              /\ StateOf(d.code) \in State
<1>0. TypeOK /\ CodesInv /\ LoginsInv /\ GrantsInv /\ DeliveriesInv
  BY DEF IInv
<1>1. \A g \in Code : minted[g] # None =>
         minted[g].grant.token \in Login /\ StateOf(g) \in State
  BY <1>0, StateOfCode DEF GrantsInv
<1>2. ASSUME NEW g \in Code, grants[g] # None
      PROVE  minted[g] # None /\ redeemed[g] = 0 /\ grants[g] = minted[g].grant
  BY <1>0, <1>2 DEF CodesInv
<1>3. ASSUME NEW h \in Handler, call[h].at = "redeem"
      PROVE  /\ call[h].code \in Code
             /\ minted[call[h].code] # None /\ redeemed[call[h].code] = 0
             /\ call[h].grant = minted[call[h].code].grant
  <2>1. call[h].code \in Code
    BY <1>0, <1>3, CallFields DEF TypeOK
  <2>2. Redeeming(h, call[h].code)
    BY <1>3 DEF Redeeming
  <2> QED
    BY <1>0, <2>1, <2>2 DEF CodesInv
<1>4. ASSUME NEW d \in delivered
      PROVE  /\ d.code \in Code
             /\ minted[d.code] # None /\ redeemed[d.code] = 1
             /\ d.token = minted[d.code].grant.token
  BY <1>0 DEF TypeOK, Delivery, DeliveriesInv, DeliveryInv
<1> QED
  BY <1>1, <1>2, <1>3, <1>4 DEF StateOf

\* What the phase of a login is made of excludes each other.
LEMMA PhaseFacts ==
  ASSUME IInv, NEW s \in State
  PROVE  /\ InProgress(s) => began[s] # None /\ ~HasCode(s) /\ ~HasToken(s)
         /\ HasCode(s) => began[s] # None /\ ~HasToken(s)
         /\ HasToken(s) => began[s] # None
<1>0. TypeOK /\ CodesInv /\ SessionsInv /\ LoginsInv /\ GrantsInv
  BY DEF IInv
<1>1. HasCode(s) => \E g \in Code : /\ minted[g] # None /\ StateOf(g) = s
                                    /\ redeemed[g] = 0
  BY <1>0, CodeOfGrant DEF HasCode, Present, TypeOK
<1>2. HasToken(s) => \E g \in Code : /\ minted[g] # None /\ StateOf(g) = s
                                     /\ redeemed[g] = 1
  BY CodeOfGrant DEF HasToken
<1>3. InProgress(s) => began[s] # None
  BY <1>0 DEF InProgress, SessionsInv
<1>4. ASSUME NEW g \in Code, minted[g] # None, StateOf(g) = s
      PROVE  ~InProgress(s) /\ began[s] # None
  BY <1>0, <1>4, StateOfCode DEF GrantsInv, GrantInv, InProgress
<1>5. \A f, g \in Code :
         minted[f] # None /\ StateOf(f) = s /\ minted[g] # None /\ StateOf(g) = s
         => f = g
  BY <1>0 DEF GrantsInv, OneCodePerSession, StateOf
<1> QED
  BY <1>1, <1>2, <1>3, <1>4, <1>5

\* A step that gives a login nothing it did not have leaves or closes it.
LEMMA PhaseFrame ==
  ASSUME IInv, NEW s \in State,
         began'[s] = None <=> began[s] = None,
         InProgress(s)' => InProgress(s),
         HasCode(s)' => HasCode(s),
         HasToken(s)' <=> HasToken(s)
  PROVE  Framed(s)
BY PhaseFacts DEF Framed, phaseOf

\* So does one that only takes grants out of the map, or leaves them alone.
LEMMA CodeFrame ==
  ASSUME IInv, NEW s \in State,
         \A u \in Login : login[u].state # None => login'[u].state = login[u].state,
         delivered' = delivered,
         grants' \in [Code -> proxyGrant \cup {None}],
         \A g \in Code : grants'[g] \in {grants[g], None},
         \A h \in Handler : call'[h].at = "redeem" =>
           \/ call[h].at = "redeem" /\ call'[h].grant = call[h].grant
           \/ \E g \in Code : grants[g] # None /\ call'[h].grant = grants[g]
  PROVE  /\ HasCode(s)' => HasCode(s)
         /\ HasToken(s)' <=> HasToken(s)
<1>0. DOMAIN grants = Code /\ DOMAIN grants' = Code
  BY DEF IInv, TypeOK
<1>1. ASSUME NEW g \in Code, grants[g] # None
      PROVE  login'[grants[g].token].state = login[grants[g].token].state
  BY <1>1, CodeOfGrant, NoneAssumption
<1>2. ASSUME NEW h \in Handler, call[h].at = "redeem"
      PROVE  login'[call[h].grant.token].state = login[call[h].grant.token].state
  BY <1>2, CodeOfGrant, NoneAssumption
<1>3. ASSUME NEW d \in delivered
      PROVE  login'[d.token].state = login[d.token].state
  BY <1>3, CodeOfGrant, NoneAssumption
<1>4. ASSUME NEW g \in Code, grants'[g] # None, login'[grants'[g].token].state = s
      PROVE  HasCode(s)
  BY <1>0, <1>1, <1>4 DEF HasCode, Present
<1>5. ASSUME NEW h \in Handler, call'[h].at = "redeem",
             login'[call'[h].grant.token].state = s
      PROVE  HasCode(s)
  BY <1>0, <1>1, <1>2, <1>5 DEF HasCode, Present
<1>6. HasCode(s)' => HasCode(s)
  BY <1>0, <1>4, <1>5 DEF HasCode, Present
<1> QED
  BY <1>3, <1>6 DEF HasToken

\* A step that begins and delivers nothing advances no login.
LEMMA FlowFrame ==
  ASSUME IInv, NEW s \in State,
         began'[s] = None <=> began[s] = None,
         \A u \in Login : login[u].state # None => login'[u].state = login[u].state,
         delivered' = delivered,
         sessions'[s] \in {sessions[s], None},
         \A h \in Handler : InCallback(h, s)' => InProgress(s),
         grants' \in [Code -> proxyGrant \cup {None}],
         \A g \in Code : grants'[g] \in {grants[g], None},
         \A h \in Handler : call'[h].at = "redeem" =>
           \/ call[h].at = "redeem" /\ call'[h].grant = call[h].grant
           \/ \E g \in Code : grants[g] # None /\ call'[h].grant = grants[g]
  PROVE  Framed(s)
<1>1. InProgress(s)' => InProgress(s)
  BY DEF InProgress, InCallback
<1> QED
  BY <1>1, CodeFrame, PhaseFrame

\* /authorize opens the login of its state, if there is room.
LEMMA AuthorizeInsertFlow ==
  ASSUME IInv, TypeOK', NEW h \in Handler, AuthorizeInsert(h)
  PROVE  \E t : \A s \in State : Framed(s) \/ (s = t /\ Advances(s))
<1>. PICK t : t = call[h].state
  OBVIOUS
<1>0. /\ TypeOK /\ SessionsInv /\ t \in State
      /\ call[h].req \in ValidRequest /\ now \in Nat
  BY CallFields DEF IInv, TypeOK, AuthorizeInsert
<1>1. ASSUME NEW s \in State,
             began'[s] = None <=> began[s] = None,
             sessions'[s] \in {sessions[s], None}
      PROVE  Framed(s)
  <2>1. \A k \in Handler : call'[k] \in {call[k], Idle}
    BY <1>0 DEF AuthorizeInsert, Goto, TypeOK
  <2>2. /\ \A k \in Handler : InCallback(k, s)' => InProgress(s)
        /\ \A k \in Handler : call'[k].at = "redeem" =>
             call[k].at = "redeem" /\ call'[k].grant = call[k].grant
    BY <2>1 DEF InCallback, InProgress, Idle
  <2>3. /\ grants' \in [Code -> proxyGrant \cup {None}]
        /\ \A g \in Code : grants'[g] \in {grants[g], None}
        /\ delivered' = delivered /\ login' = login
    BY <1>0, SweptEntry DEF AuthorizeInsert, TypeOK
  <2> QED
    BY <1>1, <2>2, <2>3, FlowFrame
<1>2. \A s \in State : s # t =>
        began'[s] = began[s] /\ sessions'[s] \in {sessions[s], None}
  BY <1>0, SweptEntry DEF AuthorizeInsert, TypeOK, MakeRoom, Swept
<1>3. CASE UNCHANGED began
  <2>1. \A s \in State : sessions'[s] \in {sessions[s], None}
    <3>1. began[t] = None
      BY <1>0 DEF AuthorizeInsert, SessionsInv
    <3>2. began' # [began EXCEPT ![t] =
             [session |-> SessionFor(call[h].req), at |-> now, run |-> restarts]]
      <4>1. [session |-> SessionFor(call[h].req), at |-> now, run |-> restarts] # None
        BY <1>0, SessionForType, NoneAssumption DEF BeganRecord, TypeOK
      <4> QED
        BY <1>0, <1>3, <3>1, <4>1 DEF TypeOK
    <3> QED
      BY <1>0, <3>2, SweptEntry DEF AuthorizeInsert, TypeOK
  <2> QED
    BY <1>1, <1>3, <2>1
<1>4. CASE ~UNCHANGED began
  <2> DEFINE session == SessionFor(call[h].req)
             record == [session |-> session, at |-> now, run |-> restarts]
  <2>1. began[t] = None
    BY <1>0 DEF AuthorizeInsert, SessionsInv
  <2>2. /\ began' = [began EXCEPT ![t] = record]
        /\ \E kept \in [State -> proxySession \cup {None}] :
             sessions' = [kept EXCEPT ![t] = session]
    BY <1>0, <1>4, MakeRoomType DEF AuthorizeInsert
  <2>3. session \in proxySession /\ session # None
    BY <1>0, SessionForType, NoneAssumption
  <2>4. record # None
    BY <2>3, <1>0, NoneAssumption DEF BeganRecord, TypeOK
  <2> HIDE DEF session, record
  <2>5. began'[t] # None /\ sessions'[t] # None
    BY <1>0, <2>2, <2>3, <2>4 DEF TypeOK
  <2>6. Advances(t)
    BY <2>1, <2>5 DEF Advances, phaseOf, InProgress
  <2> QED
    BY <1>1, <1>2, <2>6
<1> QED
  BY <1>3, <1>4

\* A callback that stores a grant turns its login into a code.
LEMMA CallbackGrantsFlow ==
  ASSUME IInv, NEW h \in Handler, CallbackGrants(h)
  PROVE  \E t : \A s \in State : Framed(s) \/ (s = t /\ Advances(s))
<1>. PICK t : t = call[h].state
  OBVIOUS
<1> DEFINE grant == GrantFor(call[h].session, call[h].token)
<1>0. /\ TypeOK /\ CodesInv /\ SessionsInv /\ LoginsInv /\ t \in State
      /\ call[h].session \in proxySession /\ call[h].token \in Login /\ now \in Nat
  BY CallFields DEF IInv, TypeOK, CallbackGrants
<1>1. /\ UNCHANGED <<sessions, login, began, delivered>>
      /\ \A k \in Handler : k # h => call'[k] = call[k]
      /\ call'[h] = Idle
  BY <1>0 DEF CallbackGrants, Goto, TypeOK
<1>2. PICK g \in Code : minted[g] = None /\ grants' = [grants EXCEPT ![g] = grant]
  BY DEF CallbackGrants
<1>3. login[grant.token].state = t /\ grant.token = call[h].token
  BY <1>0 DEF CallbackGrants, LoginsInv, GrantFor
<1>4. grant \in proxyGrant /\ grant # None
  BY <1>0, GrantForType, NoneAssumption
<1>5. InCallback(h, t)
  BY DEF CallbackGrants, InCallback
<1>6. /\ began[t] # None /\ sessions[t] = None
      /\ \A k \in Handler : InCallback(k, t) => k = h
  BY <1>0, <1>5 DEF SessionsInv
<1> HIDE DEF grant
<1>7. /\ grants' \in [Code -> proxyGrant \cup {None}] /\ grants'[g] = grant
      /\ \A f \in Code : f # g => grants'[f] = grants[f]
      /\ DOMAIN grants = Code
  BY <1>0, <1>2, <1>4 DEF TypeOK
<1>8. Advances(t)
  <2>1. phaseOf(t) = "open"
    BY <1>5, <1>6 DEF phaseOf, InProgress
  <2>2. ~InProgress(t)'
    BY <1>1, <1>6 DEF InProgress, InCallback, Idle
  <2>3. HasCode(t)'
    BY <1>1, <1>3, <1>4, <1>7 DEF HasCode, Present
  <2>4. phaseOf(t)' = "coded"
    BY <1>1, <1>6, <2>2, <2>3 DEF phaseOf
  <2> QED
    BY <2>1, <2>4 DEF Advances
<1>9. ASSUME NEW s \in State, s # t
      PROVE  Framed(s)
  <2>1. InProgress(s)' => InProgress(s)
    BY <1>1 DEF InProgress, InCallback, Idle
  <2>2. HasCode(s)' => HasCode(s)
    <3>1. DOMAIN grants' = Code /\ login' = login
      BY <1>1, <1>7
    <3>2. ASSUME NEW f \in Code, grants'[f] # None, login[grants'[f].token].state = s
          PROVE  grants[f] # None /\ login[grants[f].token].state = s
      BY <1>3, <1>7, <1>9, <3>2
    <3>3. \A k \in Handler : call'[k].at = "redeem" => call'[k] = call[k]
      BY <1>1 DEF Idle
    <3> QED
      BY <1>7, <3>1, <3>2, <3>3 DEF HasCode, Present
  <2>3. HasToken(s)' <=> HasToken(s)
    BY <1>1 DEF HasToken
  <2> QED
    BY <1>1, <2>1, <2>2, <2>3, PhaseFrame
<1> QED
  BY <1>8, <1>9

\* /token delivers the token of its code, or closes its login.
LEMMA TokenAnswerFlow ==
  ASSUME IInv, NEW h \in Handler, TokenAnswer(h)
  PROVE  \E t : \A s \in State : Framed(s) \/ (s = t /\ Advances(s))
<1>0. /\ TypeOK /\ CodesInv /\ GrantsInv /\ LoginsInv
  BY DEF IInv
<1>. PICK g : g = call[h].code
  OBVIOUS
<1>. PICK t : t = StateOf(g)
  OBVIOUS
<1>1. /\ g \in Code /\ minted[g] # None /\ t \in State
      /\ login[call[h].grant.token].state = t
  BY CodeOfGrant DEF TokenAnswer
<1>2. /\ UNCHANGED <<sessions, grants, login, began>>
      /\ \A k \in Handler : k # h => call'[k] = call[k]
      /\ call'[h] = Idle /\ DOMAIN grants = Code
  BY <1>0 DEF TokenAnswer, Goto, TypeOK
<1>3. ASSUME NEW s \in State
      PROVE  /\ InProgress(s)' => InProgress(s)
             /\ HasCode(s)' => HasCode(s)
  BY <1>2 DEF InProgress, InCallback, HasCode, Present, Idle
<1>4. CASE UNCHANGED delivered
  <2>1. \A s \in State : HasToken(s)' <=> HasToken(s)
    BY <1>2, <1>4 DEF HasToken
  <2> QED
    BY <1>2, <1>3, <2>1, PhaseFrame
<1>5. ASSUME NEW d, delivered' = delivered \cup {d}, d.token = call[h].grant.token
      PROVE  \A s \in State : Framed(s) \/ (s = t /\ Advances(s))
  <2>1. ASSUME NEW s \in State, s # t
        PROVE  Framed(s)
    <3>1. HasToken(s)' <=> HasToken(s)
      BY <1>1, <1>2, <1>5, <2>1 DEF HasToken
    <3> QED
      BY <1>2, <1>3, <3>1, PhaseFrame
  <2>2. HasCode(t) /\ HasToken(t)'
    BY <1>1, <1>2, <1>5 DEF HasCode, HasToken, TokenAnswer
  <2>3. phaseOf(t) = "coded"
    BY <1>1, <2>2, PhaseFacts DEF phaseOf
  <2>4. began[t] # None /\ ~InProgress(t)
    BY <1>1, <2>2, PhaseFacts
  <2>5. ~HasCode(t)'
    <3>1. grants[g] = None /\ \A k \in Handler : Redeeming(k, g) => k = h
      BY <1>0, <1>1 DEF CodesInv, TokenAnswer, Redeeming
    <3>2. \A f \in Code : minted[f] # None /\ StateOf(f) = t => f = g
      BY <1>0, <1>1 DEF GrantsInv, OneCodePerSession, StateOf
    <3>3. ASSUME NEW f \in Code, grants[f] # None, login[grants[f].token].state = t
          PROVE  FALSE
      BY <3>1, <3>2, <3>3, CodeOfGrant
    <3>4. ASSUME NEW k \in Handler, k # h, call[k].at = "redeem",
                 login[call[k].grant.token].state = t
          PROVE  FALSE
      BY <3>1, <3>2, <3>4, CodeOfGrant DEF Redeeming
    <3> QED
      BY <1>2, <3>3, <3>4 DEF HasCode, Present, Idle
  <2>6. phaseOf(t)' = "delivered"
    BY <1>2, <1>3, <1>1, <2>2, <2>4, <2>5 DEF phaseOf
  <2> QED
    BY <2>1, <2>3, <2>6 DEF Advances
<1>6. \/ UNCHANGED delivered
      \/ \E d : delivered' = delivered \cup {d} /\ d.token = call[h].grant.token
  <2>1. CASE Redeems(call[h].grant, call[h].req)
    <3> DEFINE d == [code |-> call[h].code, token |-> call[h].grant.token,
                     client |-> call[h].req.client, redirect |-> call[h].req.redirect,
                     verifier |-> call[h].req.verifier, at |-> now, run |-> restarts]
    <3>1. delivered' = delivered \cup {d} /\ d.token = call[h].grant.token
      BY <2>1 DEF TokenAnswer
    <3> QED
      BY <3>1
  <2>2. CASE ~Redeems(call[h].grant, call[h].req)
    BY <2>2 DEF TokenAnswer
  <2> QED
    BY <2>1, <2>2
<1> QED
  BY <1>4, <1>5, <1>6

\* One step advances at most one login.
LEMMA FlowStep ==
  ASSUME IInv, TypeOK', [Next]_vars
  PROVE  \E t : \A s \in State : Framed(s) \/ (s = t /\ Advances(s))
<1>0. /\ TypeOK /\ CodesInv /\ SessionsInv /\ LoginsInv
      /\ DOMAIN call = Handler /\ DOMAIN sessions = State /\ DOMAIN grants = Code
      /\ grants' \in [Code -> proxyGrant \cup {None}]
  BY DEF IInv, TypeOK
<1>. SUFFICES ASSUME NEW s \in State,
                     \A h \in Handler : /\ ~AuthorizeInsert(h)
                                        /\ ~CallbackGrants(h) /\ ~TokenAnswer(h)
              PROVE  Framed(s)
  BY AuthorizeInsertFlow, CallbackGrantsFlow, TokenAnswerFlow
<1>. /\ \A u \in Login : login[u].state # None => login'[u].state = login[u].state
  BY <1>0, HistoryKept
<1>1. ASSUME NEW uris \in SUBSET Redirect, handleRegister(uris)
      PROVE  Framed(s)
  <2>1. /\ sessions'[s] \in {sessions[s], None}
        /\ \A g \in Code : grants'[g] \in {grants[g], None}
        /\ UNCHANGED <<began, delivered, call>>
    BY <1>0, <1>1, SweptEntry DEF handleRegister, registerClient
  <2> QED
    BY <1>0, <2>1, FlowFrame DEF InCallback, InProgress
<1>2. ASSUME NEW h \in Handler, NEW req \in AuthRequests, AuthorizeLookup(h, req)
      PROVE  Framed(s)
  <2>1. /\ \A k \in Handler : call'[k] = call[k] \/ call'[k].at = "authorize"
        /\ UNCHANGED <<sessions, grants, began, delivered>>
    BY <1>0, <1>2 DEF AuthorizeLookup, Goto, history
  <2> QED
    BY <1>0, <2>1, FlowFrame DEF InCallback, InProgress
<1>3. ASSUME NEW h \in Handler, NEW t \in State, NEW param \in CallbackParam,
             CallbackTake(h, t, param)
      PROVE  Framed(s)
  <2>1. /\ \A k \in Handler :
             \/ call'[k] = call[k]
             \/ call'[k].at = "callback" /\ call'[k].state = t
        /\ sessions[t] # None
        /\ sessions'[s] \in {sessions[s], None}
        /\ UNCHANGED <<grants, began, delivered>>
    BY <1>0, <1>3 DEF CallbackTake, Goto, history
  <2> QED
    BY <1>0, <2>1, FlowFrame DEF InCallback, InProgress
<1>4. ASSUME NEW h \in Handler, NEW g \in Code, NEW req \in TokenRequests,
             TokenTake(h, g, req)
      PROVE  Framed(s)
  <2>1. /\ \A k \in Handler :
             \/ call'[k] = call[k]
             \/ call'[k].at = "redeem" /\ call'[k].grant = grants[g]
        /\ grants[g] # None
        /\ \A f \in Code : grants'[f] \in {grants[f], None}
        /\ UNCHANGED <<sessions, began, delivered>>
    BY <1>0, <1>4 DEF TokenTake, Goto, history
  <2> QED
    BY <1>0, <2>1, FlowFrame DEF InCallback, InProgress
<1>5. ASSUME NEW h \in Handler,
             CallbackGivesUp(h) \/ exchangeFails(h) \/ CallbackRejects(h)
      PROVE  Framed(s)
  <2>1. /\ \A k \in Handler : call'[k] \in {call[k], Idle}
        /\ UNCHANGED <<sessions, grants, began, delivered>>
    BY <1>0, <1>5 DEF CallbackGivesUp, exchangeFails, CallbackRejects, Goto, history
  <2> QED
    BY <1>0, <2>1, FlowFrame DEF InCallback, InProgress, Idle
<1>6. ASSUME NEW h \in Handler, CallbackProceeds(h) \/ exchangeCode(h)
      PROVE  Framed(s)
  <2>1. /\ \A k \in Handler : k # h => call'[k] = call[k]
        /\ call[h].at \in {"callback", "exchanging"}
        /\ call'[h].at \in {"exchanging", "exchanged"}
        /\ call'[h].state = call[h].state
        /\ UNCHANGED <<sessions, grants, began, delivered>>
    BY <1>0, <1>6 DEF CallbackProceeds, exchangeCode, Goto, history
  <2> QED
    BY <1>0, <2>1, FlowFrame DEF InCallback, InProgress
<1>7. CASE sweep
  <2>1. /\ sessions'[s] \in {sessions[s], None}
        /\ \A g \in Code : grants'[g] \in {grants[g], None}
        /\ UNCHANGED <<began, delivered, call>>
    BY <1>0, <1>7, SweptEntry DEF sweep, history
  <2> QED
    BY <1>0, <2>1, FlowFrame DEF InCallback, InProgress
<1>8. CASE Restart
  <2>1. /\ sessions'[s] = None
        /\ \A g \in Code : grants'[g] = None
        /\ \A k \in Handler : call'[k] = Idle
        /\ UNCHANGED <<began, delivered>>
    BY <1>0, <1>8 DEF Restart, history
  <2> QED
    BY <1>0, <2>1, FlowFrame DEF InCallback, Idle
<1>9. CASE Tick \/ UNCHANGED vars \/ \E u \in Login, t \in State : ProviderLogin(u, t)
  <2>1. UNCHANGED <<sessions, grants, call, began, delivered>>
    BY <1>9 DEF Tick, vars, ProviderLogin, history
  <2> QED
    BY <1>0, <2>1, FlowFrame DEF InCallback, InProgress
<1> QED
  BY <1>1, <1>2, <1>3, <1>4, <1>5, <1>6, <1>7, <1>8, <1>9 DEF Next, HandlerStep

\* The proxy implements LoginFlow: whatever handlers, sweeper and restarts do,
\* a login that passed /authorize moves as LoginFlow allows, from its session to
\* one code to one token.
THEOREM LoginRefinement == Spec => ImplementsLoginFlow
<1>1. Init => Flow!Init
  BY DEF Init, Flow!Init, phase, phaseOf
<1>2. IInv /\ TypeOK' /\ [Next]_vars => [Flow!Next]_phase
  <2> SUFFICES ASSUME IInv, TypeOK', [Next]_vars PROVE Flow!Next
    OBVIOUS
  <2>. PICK t : \A s \in State : Framed(s) \/ (s = t /\ Advances(s))
    BY FlowStep
  <2>1. /\ \A s \in State : phaseOf(s) \in Flow!Phase /\ phaseOf(s)' \in Flow!Phase
        /\ \A s \in State : phase[s] = phaseOf(s) /\ phase'[s] = phaseOf(s)'
        /\ phase' = [s \in State |-> phaseOf(s)']
    BY DEF phase, phaseOf, Flow!Phase
  <2>2. phase' \in [State -> Flow!Phase]
    BY <2>1
  <2>3. \A s \in State : phaseOf(s)' # phaseOf(s) =>
          /\ <<phaseOf(s), phaseOf(s)'>> \in Flow!Edge
          /\ s = t \/ phaseOf(s)' = "closed"
    BY DEF Framed, Advances, Flow!Edge
  <2> QED
    BY <2>1, <2>2, <2>3 DEF Flow!Next, Flow!Moves
<1>3. IInv => TypeOK
  BY DEF IInv
<1> QED
  BY <1>1, <1>2, <1>3, InductiveInvariant, PTL
     DEF Spec, ImplementsLoginFlow, Flow!Spec

-----------------------------------------------------------------------------
(* Limits.                                                                 *)

\* What makes CapacityBound inductive: only finite sets can be counted.
LimitsInv ==
  /\ IsFiniteSet(Present(clients)) /\ IsFiniteSet(Present(sessions))
  /\ CapacityBound

\* Making room leaves some of the entries, and from a full map those that have
\* not expired.
LEMMA RoomMade ==
  ASSUME NEW m, NEW full, IsFiniteSet(Present(m))
  PROVE  /\ IsFiniteSet(Present(MakeRoom(m, full)))
         /\ Count(MakeRoom(m, full)) <= Count(m)
         /\ Count(MakeRoom(m, full)) \in Nat /\ Count(m) \in Nat
         /\ Present(Swept(m)) = {k \in Present(m) : ~Expired(m[k])}
         /\ IsFiniteSet(Present(Swept(m))) /\ Count(Swept(m)) <= Count(m)
<1>1. Present(MakeRoom(m, full)) \in SUBSET Present(m)
  BY DEF Present, MakeRoom, Swept
<1>2. Present(Swept(m)) = {k \in Present(m) : ~Expired(m[k])}
  BY DEF Present, Swept
<1>3. Present(Swept(m)) \in SUBSET Present(m)
  BY <1>2
<1> QED
  BY <1>1, <1>2, <1>3, FS_Subset, FS_CardinalityType DEF Count

\* An insertion adds at most one entry.
LEMMA InsertionCount ==
  ASSUME NEW m, NEW k, NEW v, IsFiniteSet(Present(m))
  PROVE  /\ IsFiniteSet(Present([m EXCEPT ![k] = v]))
         /\ Count([m EXCEPT ![k] = v]) <= Count(m) + 1
<1> DEFINE more == Present(m) \cup {k}
<1>1. Present([m EXCEPT ![k] = v]) \in SUBSET more
  BY DEF Present
<1>2. IsFiniteSet(more) /\ Cardinality(more) <= Count(m) + 1
  <2>1. Cardinality(Present(m)) \in Nat
    BY FS_CardinalityType
  <2>2. /\ IsFiniteSet(more)
        /\ \/ Cardinality(more) = Cardinality(Present(m))
           \/ Cardinality(more) = Cardinality(Present(m)) + 1
    BY FS_AddElement
  <2> HIDE DEF more
  <2> QED
    BY <2>1, <2>2 DEF Count
<1>3. Cardinality(more) \in Nat /\ Count(m) \in Nat
  BY <1>2, FS_CardinalityType DEF Count
<1> HIDE DEF more
<1>4. /\ IsFiniteSet(Present([m EXCEPT ![k] = v]))
      /\ Count([m EXCEPT ![k] = v]) <= Cardinality(more)
      /\ Count([m EXCEPT ![k] = v]) \in Nat
  BY <1>1, <1>2, FS_Subset, FS_CardinalityType DEF Count
<1> QED
  BY <1>2, <1>3, <1>4

\* An entry that leaves the map, or stays as it is, does not count.
LEMMA RemovalCount ==
  ASSUME NEW m, NEW n, IsFiniteSet(Present(m)),
         DOMAIN n = DOMAIN m, \A k \in DOMAIN m : n[k] \in {m[k], None}
  PROVE  IsFiniteSet(Present(n)) /\ Count(n) <= Count(m)
<1>1. Present(n) \in SUBSET Present(m)
  BY DEF Present
<1> QED
  BY <1>1, FS_Subset, FS_CardinalityType DEF Count

\* LimitsInv is inductive: an insertion happens only where there is room, in
\* the critical section that counted.
LEMMA LimitsInvStep == TypeOK /\ LimitsInv /\ [Next]_vars => LimitsInv'
<1> SUFFICES ASSUME TypeOK, LimitsInv, [Next]_vars PROVE LimitsInv'
  OBVIOUS
<1>0. /\ DOMAIN clients = ClientId /\ DOMAIN sessions = State
      /\ MaxClients \in Nat /\ MaxSessions \in Nat
      /\ Count(clients) \in Nat /\ Count(sessions) \in Nat
      /\ Count(clients) <= MaxClients /\ Count(sessions) <= MaxSessions
      /\ IsFiniteSet(Present(clients)) /\ IsFiniteSet(Present(sessions))
  BY ConstantsAssumption, FS_CardinalityType DEF TypeOK, LimitsInv, CapacityBound, Count
<1>1. ASSUME DOMAIN clients' = ClientId, DOMAIN sessions' = State,
             \A c \in ClientId : clients'[c] \in {clients[c], None},
             \A s \in State : sessions'[s] \in {sessions[s], None}
      PROVE  LimitsInv'
  <2>1. /\ IsFiniteSet(Present(clients')) /\ Count(clients') <= Count(clients)
        /\ IsFiniteSet(Present(sessions')) /\ Count(sessions') <= Count(sessions)
    BY <1>0, <1>1, RemovalCount
  <2>2. Count(clients') \in Nat /\ Count(sessions') \in Nat
    BY <2>1, FS_CardinalityType DEF Count
  <2>3. Count(clients') <= MaxClients /\ Count(sessions') <= MaxSessions
    BY <1>0, <2>1, <2>2
  <2> QED
    BY <2>1, <2>3 DEF LimitsInv, CapacityBound, Count, Present
<1>2. ASSUME NEW uris \in SUBSET Redirect, handleRegister(uris)
      PROVE  LimitsInv'
  <2> DEFINE full == Count(clients) >= MaxClients
             kept == MakeRoom(clients, full)
  <2>1. /\ sessions' = MakeRoom(sessions, full)
        /\ \/ clients' = kept
           \/ /\ Count(kept) < MaxClients
              /\ \E c, v : clients' = [kept EXCEPT ![c] = v]
    BY <1>2 DEF handleRegister, registerClient
  <2>2. /\ IsFiniteSet(Present(kept)) /\ Count(kept) \in Nat
        /\ Count(kept) <= MaxClients
    <3>1. IsFiniteSet(Present(kept)) /\ Count(kept) \in Nat
          /\ Count(kept) <= Count(clients)
      BY <1>0, RoomMade
    <3> HIDE DEF kept
    <3> QED
      BY <1>0, <3>1
  <2>3. IsFiniteSet(Present(sessions')) /\ Count(sessions') <= MaxSessions
    <3>1. IsFiniteSet(Present(sessions')) /\ Count(sessions') \in Nat
          /\ Count(sessions') <= Count(sessions)
      BY <1>0, <2>1, RoomMade
    <3> QED
      BY <1>0, <3>1
  <2> HIDE DEF kept
  <2>4. IsFiniteSet(Present(clients')) /\ Count(clients') <= MaxClients
    <3>1. ASSUME Count(kept) < MaxClients, NEW c, NEW v,
                 clients' = [kept EXCEPT ![c] = v]
          PROVE  IsFiniteSet(Present(clients')) /\ Count(clients') <= MaxClients
      <4>1. IsFiniteSet(Present(clients')) /\ Count(clients') <= Count(kept) + 1
        BY <2>2, <3>1, InsertionCount
      <4>2. Count(clients') \in Nat
        BY <4>1, FS_CardinalityType DEF Count
      <4> QED
        BY <1>0, <2>2, <3>1, <4>1, <4>2
    <3> QED
      BY <2>1, <2>2, <3>1
  <2> QED
    BY <2>3, <2>4 DEF LimitsInv, CapacityBound, Count, Present
<1>3. ASSUME NEW h \in Handler, AuthorizeInsert(h)
      PROVE  LimitsInv'
  <2> DEFINE full == Count(sessions) >= MaxSessions
             kept == MakeRoom(sessions, full)
  <2>1. /\ clients' = MakeRoom(clients, full)
        /\ \/ sessions' = kept
           \/ /\ Count(kept) < MaxSessions
              /\ \E s, v : sessions' = [kept EXCEPT ![s] = v]
    BY <1>3 DEF AuthorizeInsert, SessionsHaveRoom
  <2>2. /\ IsFiniteSet(Present(kept)) /\ Count(kept) \in Nat
        /\ Count(kept) <= MaxSessions
    <3>1. IsFiniteSet(Present(kept)) /\ Count(kept) \in Nat
          /\ Count(kept) <= Count(sessions)
      BY <1>0, RoomMade
    <3> HIDE DEF kept
    <3> QED
      BY <1>0, <3>1
  <2>3. IsFiniteSet(Present(clients')) /\ Count(clients') <= MaxClients
    <3>1. IsFiniteSet(Present(clients')) /\ Count(clients') \in Nat
          /\ Count(clients') <= Count(clients)
      BY <1>0, <2>1, RoomMade
    <3> QED
      BY <1>0, <3>1
  <2> HIDE DEF kept
  <2>4. IsFiniteSet(Present(sessions')) /\ Count(sessions') <= MaxSessions
    <3>1. ASSUME Count(kept) < MaxSessions, NEW s, NEW v,
                 sessions' = [kept EXCEPT ![s] = v]
          PROVE  IsFiniteSet(Present(sessions')) /\ Count(sessions') <= MaxSessions
      <4>1. IsFiniteSet(Present(sessions')) /\ Count(sessions') <= Count(kept) + 1
        BY <2>2, <3>1, InsertionCount
      <4>2. Count(sessions') \in Nat
        BY <4>1, FS_CardinalityType DEF Count
      <4> QED
        BY <1>0, <2>2, <3>1, <4>1, <4>2
    <3> QED
      BY <2>1, <2>2, <3>1
  <2> QED
    BY <2>3, <2>4 DEF LimitsInv, CapacityBound, Count, Present
<1>4. ASSUME NEW h \in Handler, NEW req \in AuthRequests, AuthorizeLookup(h, req)
      PROVE  LimitsInv'
  BY <1>0, <1>1, <1>4 DEF AuthorizeLookup, ForgetExpired
<1>5. ASSUME NEW h \in Handler, NEW s \in State, NEW param \in CallbackParam,
             CallbackTake(h, s, param)
      PROVE  LimitsInv'
  BY <1>0, <1>1, <1>5 DEF CallbackTake
<1>6. CASE sweep
  BY <1>0, <1>1, <1>6, SweptEntry DEF sweep, Swept
<1>7. CASE Restart
  BY <1>0, <1>1, <1>7 DEF Restart
<1>8. CASE UNCHANGED <<clients, sessions>>
  BY <1>0, <1>1, <1>8
<1> QED
  BY <1>2, <1>3, <1>4, <1>5, <1>6, <1>7, <1>8
  DEF Next, HandlerStep, vars, TokenTake, CallbackGivesUp, CallbackProceeds,
      exchangeCode, exchangeFails, CallbackGrants, CallbackRejects, TokenAnswer,
      Tick, ProviderLogin

\* The limits hold.
LEMMA LimitsInvariant == Spec => []LimitsInv
<1>1. Init => LimitsInv
  <2> SUFFICES ASSUME Init PROVE LimitsInv
    OBVIOUS
  <2>1. Present(clients) = {} /\ Present(sessions) = {}
    BY DEF Init, Present
  <2> QED
    BY <2>1, FS_EmptySet, ConstantsAssumption DEF LimitsInv, CapacityBound, Count
<1> QED
  BY <1>1, LimitsInvStep, TypeCorrect, PTL DEF Spec

\* The registry and the pending sessions never exceed their limits, however
\* many handlers saw room in them before.
THEOREM Capacity == Spec => []CapacityBound
<1>1. LimitsInv => CapacityBound
  BY DEF LimitsInv
<1> QED
  BY <1>1, LimitsInvariant, PTL

\* Only AuthorizeInsert ends a call that holds an admitted request, but for a
\* restart.
LEMMA AuthorizeEnds ==
  ASSUME TypeOK, [Next]_vars, restarts' = restarts, NEW h \in Handler,
         call[h].at = "authorize", call'[h].at = "idle"
  PROVE  AuthorizeInsert(h)
<1>1. DOMAIN call = Handler /\ restarts \in Nat /\ call' # call
  BY DEF TypeOK
<1>2. ASSUME NEW k \in Handler, NEW c, Goto(k, c)
      PROVE  k = h
  BY <1>1, <1>2 DEF Goto
<1>3. ASSUME NEW k \in Handler, NEW req \in AuthRequests, AuthorizeLookup(k, req)
      PROVE  FALSE
  BY <1>1, <1>2, <1>3 DEF AuthorizeLookup
<1>4. ASSUME NEW k \in Handler, NEW s \in State, NEW param \in CallbackParam,
             CallbackTake(k, s, param)
      PROVE  FALSE
  BY <1>2, <1>4 DEF CallbackTake
<1>5. ASSUME NEW k \in Handler, NEW g \in Code, NEW req \in TokenRequests,
             TokenTake(k, g, req)
      PROVE  FALSE
  BY <1>2, <1>5 DEF TokenTake
<1>6. ASSUME NEW k \in Handler, HandlerStep(k)
      PROVE  AuthorizeInsert(h)
  BY <1>2, <1>6 DEF HandlerStep, AuthorizeInsert, CallbackGivesUp, CallbackProceeds,
     exchangeCode, exchangeFails, CallbackGrants, CallbackRejects, TokenAnswer
<1>7. ~Restart
  BY <1>1 DEF Restart
<1> QED
  BY <1>1, <1>3, <1>4, <1>5, <1>6, <1>7
  DEF Next, vars, handleRegister, sweep, Tick, ProviderLogin

\* /authorize answers 503 only when as many live sessions are pending as the
\* limit allows.
THEOREM Refusals == Spec => RefusedOnlyWhenFull
<1>1. ASSUME IInv, LimitsInv, [Next]_vars, restarts' = restarts, NEW h \in Handler,
             call[h].at = "authorize", call'[h].at = "idle", began' = began
      PROVE  Cardinality({s \in Present(sessions) : ~Expired(sessions[s])})
               >= MaxSessions
  <2> DEFINE full == Count(sessions) >= MaxSessions
             kept == MakeRoom(sessions, full)
  <2>0. /\ TypeOK /\ SessionsInv /\ now \in Nat /\ MaxSessions \in Nat
        /\ call[h].state \in State /\ call[h].req \in ValidRequest
    BY <1>1, CallFields, ConstantsAssumption DEF IInv, TypeOK
  <2>1. AuthorizeInsert(h)
    BY <1>1, <2>0, AuthorizeEnds
  <2>2. ~(Count(kept) < MaxSessions)
    <3>1. began[call[h].state] = None
      BY <1>1, <2>0 DEF SessionsInv
    <3>2. [session |-> SessionFor(call[h].req), at |-> now, run |-> restarts] # None
      BY <2>0, SessionForType, NoneAssumption DEF BeganRecord, TypeOK
    <3>3. began' # [began EXCEPT ![call[h].state] =
             [session |-> SessionFor(call[h].req), at |-> now, run |-> restarts]]
      BY <1>1, <2>0, <3>1, <3>2 DEF TypeOK
    <3> QED
      BY <2>1, <3>3 DEF AuthorizeInsert, SessionsHaveRoom
  <2>3. /\ Count(kept) <= Count(sessions) /\ Count(kept) \in Nat
        /\ Count(sessions) \in Nat
        /\ Present(Swept(sessions)) = {s \in Present(sessions) : ~Expired(sessions[s])}
    BY <1>1, RoomMade DEF LimitsInv
  <2>4. full
    <3> HIDE DEF kept
    <3> QED
      BY <2>0, <2>2, <2>3
  <2>5. kept = Swept(sessions)
    BY <2>4 DEF MakeRoom
  <2> HIDE DEF kept
  <2>6. Count(kept) >= MaxSessions
    BY <2>0, <2>2, <2>3
  <2> QED
    BY <2>3, <2>5, <2>6 DEF Count
<1>2. IInv /\ LimitsInv /\ [Next]_vars
        => [\A h \in Handler :
              /\ restarts' = restarts
              /\ call[h].at = "authorize" /\ call'[h].at = "idle"
              /\ began' = began
              => Cardinality({s \in Present(sessions) : ~Expired(sessions[s])})
                   >= MaxSessions]_vars
  BY <1>1
<1> QED
  BY <1>2, InductiveInvariant, LimitsInvariant, PTL DEF Spec, RefusedOnlyWhenFull

-----------------------------------------------------------------------------
(* Redirect URIs.                                                          *)

\* A redirect URI that the registry does not speak against, now or later: the
\* id has been given out, and will not be again.
BoundTo(client, redirect) ==
  /\ client \in issued
  /\ clients[client] # None => redirect \in clients[client].redirectURIs

\* What makes RegisteredRedirect inductive: it holds from the admission on.
RedirectInv ==
  /\ \A h \in Handler :
       /\ call[h].at = "authorize" => BoundTo(call[h].req.client, call[h].req.redirect)
       /\ call[h].at \in {"callback", "exchanging", "exchanged"}
            => BoundTo(call[h].session.client, call[h].session.redirect)
  /\ \A s \in State :
       sessions[s] # None => BoundTo(sessions[s].client, sessions[s].redirect)
  /\ \A g \in Code :
       grants[g] # None => BoundTo(grants[g].client, grants[g].redirect)

\* Registrations are only added under new ids, and never changed.
LEMMA OldRegistrations ==
  ASSUME TypeOK, [Next]_vars
  PROVE  /\ \A c \in issued : clients'[c] \in {clients[c], None}
         /\ issued \subseteq issued'
<1>0. DOMAIN clients = ClientId /\ issued \subseteq ClientId
  BY DEF TypeOK
<1>2. \A c \in ClientId : /\ Swept(clients)[c] \in {clients[c], None}
                         /\ \A full : MakeRoom(clients, full)[c] \in {clients[c], None}
  BY <1>0, SweptEntry
<1>3. ASSUME NEW uris \in SUBSET Redirect, handleRegister(uris)
      PROVE  /\ \A c \in issued : clients'[c] \in {clients[c], None}
             /\ issued \subseteq issued'
  <2> DEFINE kept == MakeRoom(clients, Count(clients) >= MaxClients)
  <2>1. \A c \in ClientId : kept[c] \in {clients[c], None}
    BY <1>2
  <2>2. DOMAIN kept = ClientId
    BY <1>0 DEF MakeRoom, Swept
  <2>3. \/ clients' = kept /\ issued' = issued
        \/ \E c \in ClientId \ issued : /\ \E v : clients' = [kept EXCEPT ![c] = v]
                                        /\ issued' = issued \cup {c}
    BY <1>3 DEF handleRegister, registerClient
  <2> HIDE DEF kept
  <2> QED
    BY <1>0, <2>1, <2>2, <2>3
<1>4. ASSUME NEW h \in Handler, NEW req \in AuthRequests, AuthorizeLookup(h, req)
      PROVE  /\ \A c \in issued : clients'[c] \in {clients[c], None}
             /\ issued \subseteq issued'
  BY <1>0, <1>4 DEF AuthorizeLookup, ForgetExpired, history
<1>5. ASSUME NEW h \in Handler, AuthorizeInsert(h)
      PROVE  /\ \A c \in issued : clients'[c] \in {clients[c], None}
             /\ issued \subseteq issued'
  BY <1>0, <1>2, <1>5 DEF AuthorizeInsert
<1>6. CASE sweep
  BY <1>0, <1>2, <1>6 DEF sweep, history
<1>7. CASE Restart
  BY <1>0, <1>7 DEF Restart, history
<1>8. CASE UNCHANGED <<clients, issued>>
  BY <1>8
<1> QED
  BY <1>3, <1>4, <1>5, <1>6, <1>7, <1>8
  DEF Next, HandlerStep, vars, history, CallbackTake, TokenTake, CallbackGivesUp,
      CallbackProceeds, exchangeCode, exchangeFails, CallbackGrants,
      CallbackRejects, TokenAnswer, Tick, ProviderLogin

LEMMA RegistryKept ==
  ASSUME TypeOK, [Next]_vars
  PROVE  \A client \in ClientId, redirect \in Redirect :
           BoundTo(client, redirect) => BoundTo(client, redirect)'
BY OldRegistrations DEF BoundTo

\* What is in the maps or held by a call has its types.
LEMMA TargetTypes ==
  ASSUME TypeOK
  PROVE  /\ \A h \in Handler :
              /\ call[h].at = "authorize" =>
                   call[h].req.client \in ClientId /\ call[h].req.redirect \in Redirect
              /\ call[h].at \in {"callback", "exchanging", "exchanged"} =>
                   /\ call[h].session.client \in ClientId
                   /\ call[h].session.redirect \in Redirect
         /\ \A s \in State : sessions[s] # None =>
              sessions[s].client \in ClientId /\ sessions[s].redirect \in Redirect
         /\ \A g \in Code : grants[g] # None =>
              grants[g].client \in ClientId /\ grants[g].redirect \in Redirect
BY CallFields DEF TypeOK, ValidRequest, AuthRequest, proxySession, proxyGrant

\* A step keeps RedirectInv if whatever it puts into a map or a call was
\* somewhere in progress before, or has been admitted.
LEMMA RedirectFrame ==
  ASSUME TypeOK, RedirectInv, [Next]_vars,
         \A h \in Handler : call'[h].at = "authorize" =>
           \/ call[h].at = "authorize" /\ call'[h].req = call[h].req
           \/ BoundTo(call[h].req.client, call[h].req.redirect)',
         \A h \in Handler : call'[h].at \in {"callback", "exchanging", "exchanged"} =>
           \/ /\ call[h].at \in {"callback", "exchanging", "exchanged"}
              /\ call'[h].session = call[h].session
           \/ \E s \in State : sessions[s] # None /\ call'[h].session = sessions[s],
         \A s \in State : sessions'[s] # None =>
           \/ sessions'[s] = sessions[s]
           \/ \E h \in Handler : /\ call[h].at = "authorize"
                                 /\ sessions'[s].client = call[h].req.client
                                 /\ sessions'[s].redirect = call[h].req.redirect,
         \A g \in Code : grants'[g] # None =>
           \/ grants'[g] = grants[g]
           \/ \E h \in Handler : /\ call[h].at = "exchanged"
                                 /\ grants'[g].client = call[h].session.client
                                 /\ grants'[g].redirect = call[h].session.redirect
  PROVE  RedirectInv'
<1>0. \A client \in ClientId, redirect \in Redirect :
        BoundTo(client, redirect) => BoundTo(client, redirect)'
  BY RegistryKept
<1>1. ASSUME NEW h \in Handler, call'[h].at = "authorize"
      PROVE  BoundTo(call[h].req.client, call[h].req.redirect)'
  <2>1. CASE call[h].at = "authorize" /\ call'[h].req = call[h].req
    <3>1. BoundTo(call[h].req.client, call[h].req.redirect)
      BY <2>1 DEF RedirectInv
    <3>2. call[h].req.client \in ClientId /\ call[h].req.redirect \in Redirect
      BY <2>1, TargetTypes
    <3> QED
      BY <1>0, <2>1, <3>1, <3>2 DEF BoundTo
  <2> QED
    BY <1>1, <2>1
<1>2. ASSUME NEW h \in Handler, call'[h].at \in {"callback", "exchanging", "exchanged"}
      PROVE  BoundTo(call[h].session.client, call[h].session.redirect)'
  <2>1. PICK session : /\ call'[h].session = session
                       /\ session.client \in ClientId /\ session.redirect \in Redirect
                       /\ BoundTo(session.client, session.redirect)
    BY <1>2, TargetTypes DEF RedirectInv
  <2> QED
    BY <1>0, <2>1 DEF BoundTo
<1>3. ASSUME NEW s \in State, sessions'[s] # None
      PROVE  BoundTo(sessions[s].client, sessions[s].redirect)'
  <2>1. PICK client \in ClientId, redirect \in Redirect :
             /\ sessions'[s].client = client /\ sessions'[s].redirect = redirect
             /\ BoundTo(client, redirect)
    BY <1>3, TargetTypes DEF RedirectInv
  <2> QED
    BY <1>0, <2>1 DEF BoundTo
<1>4. ASSUME NEW g \in Code, grants'[g] # None
      PROVE  BoundTo(grants[g].client, grants[g].redirect)'
  <2>1. PICK client \in ClientId, redirect \in Redirect :
             /\ grants'[g].client = client /\ grants'[g].redirect = redirect
             /\ BoundTo(client, redirect)
    BY <1>4, TargetTypes DEF RedirectInv
  <2> QED
    BY <1>0, <2>1 DEF BoundTo
<1> QED
  BY <1>1, <1>2, <1>3, <1>4 DEF RedirectInv

\* RedirectInv is inductive.
LEMMA RedirectInvStep == TypeOK /\ RedirectInv /\ [Next]_vars => RedirectInv'
<1> SUFFICES ASSUME TypeOK, RedirectInv, [Next]_vars PROVE RedirectInv'
  OBVIOUS
<1>0. /\ DOMAIN call = Handler /\ DOMAIN sessions = State /\ DOMAIN grants = Code
      /\ DOMAIN clients = ClientId
  BY DEF TypeOK
<1>1. ASSUME NEW uris \in SUBSET Redirect, handleRegister(uris)
      PROVE  RedirectInv'
  <2>1. /\ \A s \in State : sessions'[s] \in {sessions[s], None}
        /\ \A g \in Code : grants'[g] \in {grants[g], None}
        /\ call' = call
    BY <1>0, <1>1, SweptEntry DEF handleRegister, registerClient
  <2> QED
    BY <2>1, RedirectFrame
<1>2. ASSUME NEW h \in Handler, NEW req \in AuthRequests, AuthorizeLookup(h, req)
      PROVE  RedirectInv'
  <2>0. /\ UNCHANGED <<sessions, grants, issued>>
        /\ req.client \in issued /\ req.client \in ClientId
        /\ ForgetExpired(req.client)
    BY <1>2 DEF AuthorizeLookup, history, TypeOK
  <2>1. \A k \in Handler :
          \/ call'[k] = call[k]
          \/ k = h /\ call'[k].at = "authorize" /\ call'[k].req = req /\ Admits(req)
    <3>1. CASE UNCHANGED call
      BY <3>1
    <3>2. ASSUME Admits(req), NEW s,
                 Goto(h, [at |-> "authorize", state |-> s, req |-> req])
          PROVE  \A k \in Handler :
                   \/ call'[k] = call[k]
                   \/ k = h /\ call'[k].at = "authorize" /\ call'[k].req = req
      BY <1>0, <3>2 DEF Goto
    <3> QED
      BY <1>2, <3>1, <3>2 DEF AuthorizeLookup
  <2>2. ASSUME Admits(req)
        PROVE  clients'[req.client] # None
                 => req.redirect \in clients'[req.client].redirectURIs
    BY <1>0, <2>0, <2>2 DEF Admits, ForgetExpired, Registered
  <2>3. ASSUME NEW k \in Handler, call'[k].at = "authorize"
        PROVE  \/ call[k].at = "authorize" /\ call'[k].req = call[k].req
               \/ BoundTo(call[k].req.client, call[k].req.redirect)'
    BY <2>0, <2>1, <2>2, <2>3 DEF BoundTo
  <2> QED
    BY <2>0, <2>1, <2>3, RedirectFrame
<1>3. ASSUME NEW h \in Handler, NEW s \in State, NEW param \in CallbackParam,
             CallbackTake(h, s, param)
      PROVE  RedirectInv'
  <2>1. /\ \A k \in Handler :
             \/ call'[k] = call[k]
             \/ call'[k].at = "callback" /\ call'[k].session = sessions[s]
        /\ sessions[s] # None
        /\ \A t \in State : sessions'[t] \in {sessions[t], None}
        /\ grants' = grants
    BY <1>0, <1>3 DEF CallbackTake, Goto
  <2> QED
    BY <2>1, RedirectFrame
<1>4. ASSUME NEW h \in Handler, NEW g \in Code, NEW req \in TokenRequests,
             TokenTake(h, g, req)
      PROVE  RedirectInv'
  <2>1. /\ \A k \in Handler : call'[k] = call[k] \/ call'[k].at = "redeem"
        /\ sessions' = sessions
        /\ \A f \in Code : grants'[f] \in {grants[f], None}
    BY <1>0, <1>4 DEF TokenTake, Goto
  <2> QED
    BY <2>1, RedirectFrame
<1>5. ASSUME NEW h \in Handler, AuthorizeInsert(h)
      PROVE  RedirectInv'
  <2> DEFINE kept == MakeRoom(sessions, Count(sessions) >= MaxSessions)
  <2>1. /\ \A k \in Handler : call'[k] \in {call[k], Idle}
        /\ call[h].at = "authorize"
        /\ \A g \in Code : grants'[g] \in {grants[g], None}
        /\ \/ sessions' = kept
           \/ sessions' = [kept EXCEPT ![call[h].state] = SessionFor(call[h].req)]
    BY <1>0, <1>5, SweptEntry DEF AuthorizeInsert, Goto
  <2>2. /\ \A s \in State : kept[s] \in {sessions[s], None}
        /\ DOMAIN kept = State
    BY <1>0, SweptEntry DEF MakeRoom, Swept
  <2>3. /\ SessionFor(call[h].req).client = call[h].req.client
        /\ SessionFor(call[h].req).redirect = call[h].req.redirect
    BY DEF SessionFor
  <2> HIDE DEF kept
  <2>4. \A s \in State : \/ sessions'[s] \in {sessions[s], None}
                         \/ /\ sessions'[s].client = call[h].req.client
                            /\ sessions'[s].redirect = call[h].req.redirect
    BY <2>1, <2>2, <2>3
  <2> QED
    BY <2>1, <2>4, RedirectFrame DEF Idle
<1>6. ASSUME NEW h \in Handler, CallbackGrants(h)
      PROVE  RedirectInv'
  <2>1. /\ \A k \in Handler : call'[k] \in {call[k], Idle}
        /\ call[h].at = "exchanged"
        /\ sessions' = sessions
    BY <1>0, <1>6 DEF CallbackGrants, Goto
  <2>2. \A g \in Code : \/ grants'[g] = grants[g]
                        \/ grants'[g] = GrantFor(call[h].session, call[h].token)
    BY <1>0, <1>6 DEF CallbackGrants
  <2>3. \A g \in Code : \/ grants'[g] = grants[g]
                        \/ /\ grants'[g].client = call[h].session.client
                           /\ grants'[g].redirect = call[h].session.redirect
    BY <2>2 DEF GrantFor
  <2> QED
    BY <2>1, <2>3, RedirectFrame DEF Idle
<1>7. ASSUME NEW h \in Handler,
             \/ CallbackGivesUp(h) \/ CallbackProceeds(h) \/ exchangeCode(h)
             \/ exchangeFails(h) \/ CallbackRejects(h) \/ TokenAnswer(h)
      PROVE  RedirectInv'
  <2>1. UNCHANGED <<sessions, grants>>
    BY <1>7 DEF CallbackGivesUp, CallbackProceeds, exchangeCode, exchangeFails,
                CallbackRejects, TokenAnswer
  <2>2. \A k \in Handler :
          \/ call'[k] \in {call[k], Idle}
          \/ /\ call[k].at \in {"callback", "exchanging"}
             /\ call'[k].at \in {"exchanging", "exchanged"}
             /\ call'[k].session = call[k].session
    BY <1>0, <1>7 DEF CallbackGivesUp, CallbackProceeds, exchangeCode, exchangeFails,
                CallbackRejects, TokenAnswer, Goto
  <2> QED
    BY <2>1, <2>2, RedirectFrame DEF Idle
<1>8. CASE sweep
  <2>1. /\ \A s \in State : sessions'[s] \in {sessions[s], None}
        /\ \A g \in Code : grants'[g] \in {grants[g], None}
        /\ call' = call
    BY <1>0, <1>8, SweptEntry DEF sweep
  <2> QED
    BY <2>1, RedirectFrame
<1>9. CASE Restart
  BY <1>9, RedirectFrame DEF Restart, Idle
<1>10. CASE UNCHANGED <<sessions, grants, call>>
  BY <1>10, RedirectFrame
<1> QED
  BY <1>1, <1>2, <1>3, <1>4, <1>5, <1>6, <1>7, <1>8, <1>9, <1>10
  DEF Next, HandlerStep, vars, Tick, ProviderLogin

\* A login of a registered client only ever goes to a URI it registered.
THEOREM RedirectBinding == Spec => []RegisteredRedirect
<1>1. Init => RedirectInv
  BY DEF Init, RedirectInv, Idle
<1>2. TypeOK /\ RedirectInv => RegisteredRedirect
  BY DEF RedirectInv, RegisteredRedirect, BoundTo, Targets, Present, TypeOK
<1> QED
  BY <1>1, <1>2, RedirectInvStep, TypeCorrect, PTL DEF Spec

-----------------------------------------------------------------------------
(* What a client has.                                                      *)

\* The least port and the least free id are some.
LEMMA LeastPort == least(Port) \in Port
BY PeerAssumption DEF least

LEMMA LeastClient == least(ClientId \ {Other}) \in ClientId \ {Other}
BY PeerAssumption DEF least

\* The client's ports are redirect URIs that the proxy accepts of anybody.
LEMMA PortsAllowed == Port \subseteq Redirect /\ \A p \in Port : allowedRedirectURI(p)
BY PeerAssumption, ConstantsAssumption DEF allowedRedirectURI

\* The parts of a client's state.
LEMMA PeerFields ==
  ASSUME peer \in Peer
  PROVE  /\ peer.port \in Port /\ peer.port \in Redirect
         /\ peer.cid \in ClientId \cup {None}
         /\ peer.reg \in Registration \cup {None}
         /\ peer.state \in State \cup {None}
         /\ peer.code \in Code \cup {None}
         /\ peer.road \in Roads \cup {None}
         /\ peer.token \in Login \cup {None, Stale}
BY PortsAllowed DEF Peer

-----------------------------------------------------------------------------
(* The client's steps are the proxy's.                                     *)

\* A request of a client is one that the proxy is modelled with.
LEMMA RequestStep ==
  ASSUME NEW h \in Handler, NEW c \in ClientId, NEW p \in Port
  PROVE  /\ AuthorizeLookup(h, authorizeRequest(c, p)) => Next
         /\ \A g \in Code : TokenTake(h, g, tokenRequest(c, p)) => Next
BY PeerAssumption DEF Next

\* While an attempt is under way, its state and code are some.
LEMMA AttemptFields ==
  ASSUME LoginIInv
  PROVE  /\ peer.at \in attempting => peer.state \in State /\ peer.cid \in ClientId
         /\ peer.at \in {"coded", "redeeming"} => peer.code \in Code
<1>1. /\ TypeOK /\ peer \in Peer /\ AttemptInv
  BY DEF LoginIInv, LoginTypeOK
<1>2. ASSUME peer.at \in attempting
      PROVE  peer.state \in State /\ peer.cid \in ClientId
  <2>1. peer.state \in State /\ began[peer.state] # None
    BY <1>1, <1>2 DEF AttemptInv
  <2>2. began[peer.state] \in BeganRecord
    BY <1>1, <2>1 DEF TypeOK
  <2>3. began[peer.state].session.client \in ClientId
    BY <2>2 DEF BeganRecord, proxySession
  <2>4. began[peer.state].session.client = peer.cid
    BY <1>1, <1>2 DEF AttemptInv
  <2> QED
    BY <2>1, <2>3, <2>4
<1> QED
  BY <1>1, <1>2 DEF AttemptInv

\* Every step of the client and around it is a step of the proxy, or none of its
\* business.
LEMMA ProxyStep ==
  ASSUME LoginIInv, [LoginNext]_loginVars
  PROVE  [Next]_vars
<1>1. /\ peer \in Peer /\ Mine \in Handler /\ Theirs \in Handler /\ Other \in ClientId
      /\ peer.port \in Port /\ peer.port \in Redirect /\ least(Port) \in Port
      /\ peer.cid # None => peer.cid \in ClientId
  BY PeerFields, LeastPort, PeerAssumption DEF LoginIInv, LoginTypeOK
<1>2. ASSUME UNCHANGED proxy PROVE UNCHANGED vars
  BY <1>2 DEF proxy, vars, history
<1>3. ASSUME NEW h \in Handler, HandlerStep(h) PROVE Next
  BY <1>3 DEF Next
<1>4. ASSUME NEW uris \in SUBSET Redirect, handleRegister(uris) PROVE Next
  BY <1>4 DEF Next
<1>5. ASSUME NEW s \in State, NEW param \in CallbackParam, CallbackTake(Mine, s, param)
      PROVE  Next
  BY <1>1, <1>5 DEF Next
<1>6. sweep \/ Tick \/ Restart => Next
  BY DEF Next
<1>7. CASE CallTool \/ FetchResource \/ FetchServer \/ IssuerLogin \/ AskAgain
           \/ OtherPort \/ TokenExpires
  BY <1>2, <1>7 DEF CallTool, FetchResource, FetchServer, IssuerLogin, AskAgain,
                    OtherPort, TokenExpires
<1>8. CASE Register \/ OthersRegister
  <2>1. Port \in SUBSET Redirect /\ {peer.port} \in SUBSET Redirect
    BY <1>1, PortsAllowed
  <2> QED
    BY <1>4, <1>8, <2>1 DEF Register, OthersRegister
<1>9. CASE Ask \/ OthersAsk
  BY <1>1, <1>9, RequestStep DEF Ask, OthersAsk
<1>10. CASE Asked \/ Returned \/ Redeemed \/ ProviderFails \/ AnswerIsLost \/ OthersAsked
  BY <1>1, <1>3, <1>10 DEF Asked, Returned, Redeemed, ProviderFails, AnswerIsLost,
                           OthersAsked, HandlerStep
<1>11. CASE SignIn
  <2>1. peer.state \in State
    BY <1>11, AttemptFields DEF SignIn, attempting
  <2> QED
    BY <1>11, <2>1 DEF SignIn, Next
<1>12. CASE Return \/ UserDeclines
  <2>1. peer.state \in State
    BY <1>12, AttemptFields DEF Return, UserDeclines, attempting
  <2>2. "error" \in CallbackParam /\ \A u \in Login : u \in CallbackParam
    BY DEF CallbackParam
  <2> QED
    BY <1>2, <1>5, <1>12, <2>1, <2>2 DEF Return, UserDeclines
<1>13. CASE Redeem
  <2>1. peer.code \in Code /\ peer.cid \in ClientId
    BY <1>13, AttemptFields DEF Redeem, attempting
  <2> QED
    BY <1>1, <1>2, <1>13, <2>1, RequestStep DEF Redeem
<1>14. CASE ServerRestarts \/ ((sweep \/ Tick) /\ NoMishap /\ UNCHANGED peer)
  BY <1>6, <1>14 DEF ServerRestarts
<1>15. CASE UNCHANGED loginVars
  BY <1>15 DEF loginVars
<1> QED
  BY <1>7, <1>8, <1>9, <1>10, <1>11, <1>12, <1>13, <1>14, <1>15 DEF LoginNext, PeerStep

-----------------------------------------------------------------------------
(* Discovery.                                                              *)

\* The origin that the server computes is the one that the client knows.
LEMMA OriginIsBase ==
  ASSUME NEW r \in Roads
  PROVE  originURL(r) = r.base
<1>1. r \in Road
  BY RoadsAssumption
<1>2. /\ r.base \in [scheme : STRING, host : STRING]
      /\ r.proto \in Seq(STRING) /\ r.forwarded \in Seq(STRING)
  BY <1>1 DEF Road
<1>3. r.base.scheme = firstHeaderValue(r.proto, IF r.tls THEN "https" ELSE "http")
  BY <1>2, RoadsAssumption DEF firstHeaderValue
<1>4. r.base.host = firstHeaderValue(r.forwarded, r.host)
  BY <1>2, RoadsAssumption DEF firstHeaderValue
<1> QED
  BY <1>2, <1>3, <1>4 DEF originURL

\* Paths of one and two segments.
LEMMA ShortPath ==
  ASSUME NEW S, NEW a \in S, NEW b \in S
  PROVE  <<a>> \in Seq(S) /\ <<a>> # <<>> /\ <<a, b>> \in Seq(S)
OBVIOUS

\* A path continues the one it begins with.
LEMMA BelowItself ==
  ASSUME NEW S, NEW path \in Seq(S), NEW rest \in Seq(S), rest # <<>>
  PROVE  Below(path \o rest, path)
<1>1. Len(path \o rest) > Len(path)
  BY ConcatProperties, EmptySeq
<1>2. SubSeq(path \o rest, 1, Len(path)) = path
  OBVIOUS
<1> QED
  BY <1>1, <1>2 DEF Below

\* Every URL that the documents and the challenge name is routed to its handler, and
\* so is every path at which a client may look for a document.
LEMMA AllRouted ==
  ASSUME NEW m
  PROVE  /\ Routes(m, mcp \o wellKnownProtectedResource, "resource")
         /\ \A style \in Styles :
              Routes(m, Probe(style, wellKnownProtectedResource), "resource")
         /\ m = "proxy" =>
              /\ \A style \in Styles :
                   Routes(m, Probe(style, wellKnownAuthorizationServer), "server")
              /\ Routes(m, <<"authorize">>, "authorize")
              /\ Routes(m, <<"token">>, "token")
              /\ Routes(m, <<"register">>, "register")
<1>1. PICK words : "mcp" \in words /\ ".well-known" \in words
                   /\ "oauth-protected-resource" \in words
                   /\ "oauth-authorization-server" \in words
  <2>1. \E words : words = {"mcp", ".well-known", "oauth-protected-resource",
                            "oauth-authorization-server"}
    OBVIOUS
  <2> QED
    BY <2>1
<1>2. /\ Below(wellKnownProtectedResource \o mcp, wellKnownProtectedResource)
      /\ Below(wellKnownAuthorizationServer \o mcp, wellKnownAuthorizationServer)
  <2>1. /\ mcp \in Seq(words) /\ mcp # <<>>
        /\ wellKnownProtectedResource \in Seq(words)
        /\ wellKnownAuthorizationServer \in Seq(words)
    BY <1>1, ShortPath
       DEF mcp, wellKnownProtectedResource, wellKnownAuthorizationServer
  <2> QED
    BY <2>1, BelowItself
<1>3. ASSUME NEW style \in Styles
      PROVE  Routes(m, Probe(style, wellKnownProtectedResource), "resource")
  <2> DEFINE root == <<wellKnownProtectedResource, "resource">>
  <2>1. root \in Exact(m) /\ root \in Subtrees(m)
    BY DEF Exact, Subtrees
  <2>2. root[1] = wellKnownProtectedResource /\ root[2] = "resource"
    OBVIOUS
  <2>3. <<mcp \o wellKnownProtectedResource, "resource">> \in Exact(m)
    BY DEF Exact
  <2> HIDE DEF root
  <2>4. CASE style = "origin"
    BY <2>1, <2>4 DEF Probe, Routes, root
  <2>5. CASE style = "inserted"
    BY <1>2, <2>1, <2>2, <2>5 DEF Probe, Routes
  <2>6. CASE style = "appended"
    BY <2>3, <2>6 DEF Probe, Routes
  <2> QED
    BY <2>4, <2>5, <2>6, PeerAssumption
<1>4. ASSUME NEW style \in Styles, m = "proxy"
      PROVE  Routes(m, Probe(style, wellKnownAuthorizationServer), "server")
  <2> DEFINE root == <<wellKnownAuthorizationServer, "server">>
  <2>1. root \in Exact(m) /\ root \in Subtrees(m)
    BY <1>4 DEF Exact, Subtrees
  <2>2. root[1] = wellKnownAuthorizationServer /\ root[2] = "server"
    OBVIOUS
  <2>3. <<mcp \o wellKnownAuthorizationServer, "server">> \in Exact(m)
    BY <1>4 DEF Exact
  <2> HIDE DEF root
  <2>4. CASE style = "origin"
    BY <2>1, <2>4 DEF Probe, Routes, root
  <2>5. CASE style = "inserted"
    BY <1>2, <2>1, <2>2, <2>5 DEF Probe, Routes
  <2>6. CASE style = "appended"
    BY <2>3, <2>6 DEF Probe, Routes
  <2> QED
    BY <2>4, <2>5, <2>6, PeerAssumption
<1>5. Routes(m, mcp \o wellKnownProtectedResource, "resource")
  BY DEF Routes, Exact
<1>6. m = "proxy" => /\ Routes(m, <<"authorize">>, "authorize")
                     /\ Routes(m, <<"token">>, "token")
                     /\ Routes(m, <<"register">>, "register")
  BY DEF Routes, Exact
<1> QED
  BY <1>3, <1>4, <1>5, <1>6

\* The client stays on its road, and every document that it asks for is served there.
LEMMA RoadInvStep ==
  ASSUME LoginIInv, [LoginNext]_loginVars
  PROVE  RoadInv'
<1>0. /\ peer \in Peer /\ RoadInv /\ mode \in Modes
  BY DEF LoginIInv, LoginTypeOK
<1>1. ASSUME peer'.at \notin {"challenged", "located", "lost"} PROVE RoadInv'
  BY <1>1 DEF RoadInv, DiscoveryLeadsHome
<1>2. CASE CallTool
  BY <1>0, <1>2 DEF CallTool, RoadInv, DiscoveryLeadsHome, Peer
<1>3. CASE FetchResource
  <2>1. PICK url \in {unauthorized(peer.road)} \cup
                     {URL(peer.road.base, Probe(style, wellKnownProtectedResource)) :
                        style \in Styles} :
          peer' = [peer EXCEPT !.at = IF Served(url, "resource")
                                        THEN "located" ELSE "lost"]
    BY <1>3 DEF FetchResource
  <2>2. peer.at = "challenged" /\ peer.road \in Roads
    BY <1>0, <1>3 DEF FetchResource, RoadInv
  <2>3. originURL(peer.road) = peer.road.base
    BY <2>2, OriginIsBase
  <2>4. Served(unauthorized(peer.road), "resource")
    BY <2>3, AllRouted DEF Served, unauthorized, URL
  <2>5. \A style \in Styles :
          Served(URL(peer.road.base, Probe(style, wellKnownProtectedResource)), "resource")
    BY AllRouted DEF Served, URL
  <2>6. Served(url, "resource")
    BY <2>4, <2>5
  <2>7. peer' = [peer EXCEPT !.at = "located"]
    BY <2>1, <2>6
  <2> QED
    BY <1>0, <2>2, <2>7 DEF RoadInv, DiscoveryLeadsHome, Peer
<1>4. CASE FetchServer
  <2> DEFINE doc == AuthorizationServerMetadata(peer.road)
  <2>1. peer.at = "located" /\ peer.road \in Roads
    BY <1>0, <1>4 DEF FetchServer, RoadInv
  <2>2. mode = "proxy" /\ Head(authorizationServers(mode, peer.road)) = peer.road.base
    BY <1>0, <1>4, <2>1, OriginIsBase DEF FetchServer, authorizationServers
  <2>3. /\ Served(doc.authorization, "authorize")
        /\ Served(doc.token, "token")
        /\ Served(doc.registration, "register")
    BY <2>1, <2>2, OriginIsBase, AllRouted DEF Served, URL, AuthorizationServerMetadata
  <2>4. \A style \in Styles :
          Served(URL(peer.road.base, Probe(style, wellKnownAuthorizationServer)), "server")
    BY <2>2, AllRouted DEF Served, URL
  <2> HIDE DEF doc
  <2>5. peer' = [peer EXCEPT !.at = "known", !.road = None]
    BY <1>4, <2>2, <2>3, <2>4 DEF FetchServer, doc
  <2>6. peer'.at = "known"
    BY <1>0, <2>5 DEF Peer
  <2> QED
    BY <1>1, <2>6
<1>5. CASE UNCHANGED peer
  BY <1>0, <1>5 DEF RoadInv, DiscoveryLeadsHome
<1>6. CASE IssuerLogin \/ Register \/ Ask \/ AskAgain \/ Asked \/ SignIn \/ Return
           \/ Returned \/ Redeem \/ Redeemed
  <2>1. peer' = peer \/ peer'.at \in {"out", "known", "asked", "refused", "signing",
                                      "signed", "returned", "coded", "redeeming"}
    <3>1. CASE IssuerLogin \/ Register \/ Ask \/ AskAgain \/ Asked
      BY <1>0, <3>1 DEF IssuerLogin, Register, Ask, AskAgain, Asked, StartOver, Peer
    <3>2. CASE SignIn \/ Return \/ Returned
      BY <1>0, <3>2 DEF SignIn, Return, Returned, StartOver, Peer
    <3>3. CASE Redeem \/ Redeemed
      BY <1>0, <3>3 DEF Redeem, Redeemed, StartOver, Peer
    <3> QED
      BY <1>6, <3>1, <3>2, <3>3
  <2> QED
    BY <1>1, <1>5, <2>1
<1>7. CASE ServerRestarts \/ ProviderFails \/ UserDeclines \/ AnswerIsLost
           \/ OtherPort \/ TokenExpires
  <2>1. peer' = peer \/ peer'.at \in {"out", "known", "declined"}
    BY <1>0, <1>7 DEF ServerRestarts, ProviderFails, UserDeclines, AnswerIsLost,
       OtherPort, TokenExpires, StartOver, Peer
  <2> QED
    BY <1>1, <1>5, <2>1
<1> QED
  BY <1>2, <1>3, <1>4, <1>5, <1>6, <1>7
  DEF LoginNext, PeerStep, OthersRegister, OthersAsk, OthersAsked, loginVars

-----------------------------------------------------------------------------
(* What the client is, and its registration.                               *)

\* What a step may make of the client.
LEMMA PeerUpdates ==
  ASSUME NEW p \in Peer
  PROVE  /\ \A a \in PeerAt :
              /\ [p EXCEPT !.at = a] \in Peer
              /\ \A r \in Roads \cup {None} : [p EXCEPT !.at = a, !.road = r] \in Peer
              /\ \A s \in State \cup {None} : [p EXCEPT !.at = a, !.state = s] \in Peer
              /\ \A g \in Code \cup {None} : [p EXCEPT !.at = a, !.code = g] \in Peer
              /\ \A u \in Login \cup {Stale} :
                   /\ [p EXCEPT !.at = a, !.token = u] \in Peer
                   /\ [p EXCEPT !.at = a, !.token = u, !.road = None] \in Peer
                   /\ [p EXCEPT !.at = a, !.token = u,
                                !.state = None, !.code = None] \in Peer
              /\ [p EXCEPT !.at = a, !.state = None, !.code = None] \in Peer
         /\ \A c \in ClientId, x \in Registration : [p EXCEPT !.cid = c, !.reg = x] \in Peer
         /\ \A o \in Port : [p EXCEPT !.port = o] \in Peer
<1>1. ASSUME NEW a \in PeerAt
      PROVE  /\ [p EXCEPT !.at = a] \in Peer
             /\ \A r \in Roads \cup {None} : [p EXCEPT !.at = a, !.road = r] \in Peer
             /\ \A s \in State \cup {None} : [p EXCEPT !.at = a, !.state = s] \in Peer
             /\ \A g \in Code \cup {None} : [p EXCEPT !.at = a, !.code = g] \in Peer
             /\ [p EXCEPT !.at = a, !.state = None, !.code = None] \in Peer
  <2>1. [p EXCEPT !.at = a] \in Peer
    BY DEF Peer
  <2>2. ASSUME NEW r \in Roads \cup {None} PROVE [p EXCEPT !.at = a, !.road = r] \in Peer
    BY DEF Peer
  <2>3. ASSUME NEW s \in State \cup {None} PROVE [p EXCEPT !.at = a, !.state = s] \in Peer
    BY DEF Peer
  <2>4. ASSUME NEW g \in Code \cup {None} PROVE [p EXCEPT !.at = a, !.code = g] \in Peer
    BY DEF Peer
  <2>5. [p EXCEPT !.at = a, !.state = None, !.code = None] \in Peer
    BY DEF Peer
  <2> QED
    BY <2>1, <2>2, <2>3, <2>4, <2>5
<1>2. ASSUME NEW a \in PeerAt, NEW u \in Login \cup {Stale}
      PROVE  /\ [p EXCEPT !.at = a, !.token = u] \in Peer
             /\ [p EXCEPT !.at = a, !.token = u, !.road = None] \in Peer
             /\ [p EXCEPT !.at = a, !.token = u, !.state = None, !.code = None] \in Peer
  <2>1. [p EXCEPT !.at = a, !.token = u] \in Peer
    BY DEF Peer
  <2>2. [p EXCEPT !.at = a, !.token = u, !.road = None] \in Peer
    BY DEF Peer
  <2>3. [p EXCEPT !.at = a, !.token = u, !.state = None, !.code = None] \in Peer
    BY DEF Peer
  <2> QED
    BY <2>1, <2>2, <2>3
<1>3. ASSUME NEW c \in ClientId, NEW x \in Registration
      PROVE  [p EXCEPT !.cid = c, !.reg = x] \in Peer
  BY DEF Peer
<1>4. ASSUME NEW o \in Port
      PROVE  [p EXCEPT !.port = o] \in Peer
  BY DEF Peer
<1> QED
  BY <1>1, <1>2, <1>3, <1>4

\* The client stays of its type.
LEMMA LoginTypeStep ==
  ASSUME LoginIInv, TypeOK', [LoginNext]_loginVars
  PROVE  LoginTypeOK'
<1>0. /\ peer \in Peer /\ mode \in Modes /\ mishaps \in Nat /\ now \in Nat /\ restarts \in Nat
      /\ call \in [Handler -> Call] /\ Mine \in Handler
  BY PeerAssumption DEF LoginIInv, LoginTypeOK, TypeOK
<1>1. mode' = mode /\ mishaps' \in {mishaps, mishaps + 1}
  <2>1. CASE PeerStep
    BY <2>1 DEF PeerStep, NoMishap, CallTool, FetchResource, FetchServer, IssuerLogin,
       Register, Ask, AskAgain, Asked, SignIn, Return, Returned, Redeem, Redeemed
  <2>2. CASE LoginNext /\ ~PeerStep
    BY <2>2 DEF LoginNext, NoMishap, Mishap, ServerRestarts, ProviderFails, UserDeclines,
       AnswerIsLost, OtherPort, TokenExpires, OthersRegister, OthersAsk, OthersAsked
  <2> QED
    BY <2>1, <2>2 DEF loginVars
<1>2. StartOver \in Peer
  BY <1>0, PeerUpdates DEF StartOver, PeerAt
<1>3. \A a \in PeerAt : [peer EXCEPT !.at = a] \in Peer
  BY <1>0, PeerUpdates
<1>4. ASSUME CallTool PROVE peer' \in Peer
  <2>1. \A r \in Roads : [peer EXCEPT !.at = "challenged", !.road = r] \in Peer
    BY <1>0, PeerUpdates DEF PeerAt
  <2>2. [peer EXCEPT !.at = "in"] \in Peer
    BY <1>3 DEF PeerAt
  <2> QED
    BY <1>4, <2>1, <2>2 DEF CallTool
<1>5. ASSUME FetchResource PROVE peer' \in Peer
  BY <1>3, <1>5 DEF FetchResource, PeerAt
<1>6. ASSUME FetchServer PROVE peer' \in Peer
  <2>1. [peer EXCEPT !.at = "known", !.road = None] \in Peer
    BY <1>0, PeerUpdates DEF PeerAt
  <2>2. [peer EXCEPT !.at = "lost"] \in Peer
    BY <1>3 DEF PeerAt
  <2>3. \/ peer' = [peer EXCEPT !.at = "known", !.road = None]
        \/ peer' = [peer EXCEPT !.at = "lost"]
    BY <1>6 DEF FetchServer
  <2> QED
    BY <2>1, <2>2, <2>3
<1>7. ASSUME IssuerLogin PROVE peer' \in Peer
  <2>1. PICK u \in Accepted :
          peer' = [peer EXCEPT !.at = "out", !.token = u, !.road = None]
    BY <1>7 DEF IssuerLogin
  <2>2. u \in Login
    BY PeerAssumption
  <2> QED
    BY <1>0, <2>1, <2>2, PeerUpdates DEF PeerAt
<1>8. ASSUME Register PROVE peer' \in Peer
  <2>1. issued' \subseteq ClientId
    BY DEF TypeOK
  <2>2. [port |-> peer.port, at |-> now, run |-> restarts] \in Registration
    BY <1>0, PeerFields DEF Registration
  <2>3. \A c \in issued' :
          [peer EXCEPT !.cid = c,
             !.reg = [port |-> peer.port, at |-> now, run |-> restarts]] \in Peer
    BY <1>0, <2>1, <2>2, PeerUpdates
  <2> QED
    BY <1>0, <1>8, <2>3 DEF Register
<1>9. ASSUME Ask \/ AskAgain PROVE peer' \in Peer
  BY <1>2, <1>3, <1>9 DEF Ask, AskAgain, PeerAt
<1>10. ASSUME SignIn \/ Return \/ Redeem PROVE peer' \in Peer
  BY <1>2, <1>3, <1>10 DEF SignIn, Return, Redeem, PeerAt
<1>11. ASSUME Asked PROVE peer' \in Peer
  <2>1. call[Mine].state \in State
    BY <1>0, <1>11, CallFields DEF Asked, AuthorizeInsert
  <2>2. [peer EXCEPT !.at = "signing", !.state = call[Mine].state] \in Peer
    BY <1>0, <2>1, PeerUpdates DEF PeerAt
  <2> QED
    BY <1>2, <1>11, <2>2 DEF Asked
<1>12. ASSUME Returned PROVE peer' \in Peer
  <2>1. \A g \in Code : [peer EXCEPT !.at = "coded", !.code = g] \in Peer
    BY <1>0, PeerUpdates DEF PeerAt
  <2> QED
    BY <1>0, <1>2, <1>12, <2>1 DEF Returned
<1>13. ASSUME Redeemed PROVE peer' \in Peer
  <2>1. \A d \in delivered' : d.token \in Login
    BY DEF TypeOK, Delivery
  <2>2. \A u \in Login : [peer EXCEPT !.at = "out", !.token = u,
                                      !.state = None, !.code = None] \in Peer
    BY <1>0, PeerUpdates DEF PeerAt
  <2> QED
    BY <1>2, <1>13, <2>1, <2>2 DEF Redeemed
<1>14. ASSUME ServerRestarts \/ ProviderFails \/ AnswerIsLost PROVE peer' \in Peer
  BY <1>0, <1>2, <1>14 DEF ServerRestarts, ProviderFails, AnswerIsLost
<1>15. ASSUME UserDeclines PROVE peer' \in Peer
  BY <1>2, <1>3, <1>15 DEF UserDeclines, PeerAt
<1>16. ASSUME OtherPort PROVE peer' \in Peer
  BY <1>0, <1>16, PeerUpdates DEF OtherPort
<1>17. ASSUME TokenExpires PROVE peer' \in Peer
  BY <1>0, <1>17, PeerUpdates DEF TokenExpires, PeerAt
<1>18. peer' \in Peer
  BY <1>0, <1>4, <1>5, <1>6, <1>7, <1>8, <1>9, <1>10, <1>11, <1>12, <1>13, <1>14, <1>15,
     <1>16, <1>17
  DEF LoginNext, PeerStep, OthersRegister, OthersAsk, OthersAsked, loginVars
<1> QED
  BY <1>0, <1>1, <1>18 DEF LoginTypeOK

\* A run of the server ends only by a restart, which empties the registry.
LEMMA RunsEnd ==
  ASSUME [Next]_vars
  PROVE  restarts' = restarts \/ Restart
BY DEF Next, HandlerStep, vars, history, handleRegister, AuthorizeLookup, AuthorizeInsert,
   CallbackTake, CallbackGivesUp, CallbackProceeds, exchangeCode, exchangeFails,
   CallbackGrants, CallbackRejects, TokenTake, TokenAnswer, sweep, Tick, ProviderLogin

\* Only Register changes what the client keeps of its registration.
LEMMA RegistrationKept ==
  ASSUME LoginIInv, [LoginNext]_loginVars, ~Register
  PROVE  peer'.cid = peer.cid /\ peer'.reg = peer.reg
<1>0. peer \in Peer
  BY DEF LoginIInv, LoginTypeOK
<1>1. StartOver.cid = peer.cid /\ StartOver.reg = peer.reg
  BY <1>0 DEF StartOver, Peer
<1>2. CASE CallTool \/ FetchResource \/ FetchServer \/ IssuerLogin \/ Ask \/ AskAgain
           \/ Asked \/ SignIn \/ Return \/ Returned \/ Redeem \/ Redeemed
  BY <1>0, <1>1, <1>2 DEF CallTool, FetchResource, FetchServer, IssuerLogin, Ask, AskAgain,
     Asked, SignIn, Return, Returned, Redeem, Redeemed, Peer
<1>3. CASE ServerRestarts \/ ProviderFails \/ UserDeclines \/ AnswerIsLost
           \/ OtherPort \/ TokenExpires
  BY <1>0, <1>1, <1>3 DEF ServerRestarts, ProviderFails, UserDeclines, AnswerIsLost,
     OtherPort, TokenExpires, Peer
<1> QED
  BY <1>2, <1>3 DEF LoginNext, PeerStep, OthersRegister, OthersAsk, OthersAsked, loginVars

\* What the registry holds for the client stays what it registered in this run.
LEMMA RegistrationInvStep ==
  ASSUME LoginIInv, [LoginNext]_loginVars
  PROVE  RegistrationInv'
<1>0. /\ TypeOK /\ peer \in Peer /\ RegistrationInv /\ [Next]_vars
  BY ProxyStep DEF LoginIInv, LoginTypeOK
<1>1. ASSUME peer'.cid = peer.cid, peer'.reg = peer.reg
      PROVE  RegistrationInv'
  <2>1. ASSUME Restart PROVE \A c \in ClientId : clients'[c] = None
    BY <2>1 DEF Restart
  <2>2. \A c \in issued : c \in ClientId /\ clients'[c] \in {clients[c], None}
    BY <1>0, OldRegistrations DEF TypeOK
  <2>3. restarts' = restarts \/ \A c \in ClientId : clients'[c] = None
    BY <1>0, <2>1, RunsEnd
  <2>4. issued \subseteq issued'
    BY <1>0, OldRegistrations
  <2> QED
    BY <1>0, <1>1, <2>2, <2>3, <2>4 DEF RegistrationInv
<1>2. ASSUME Register, NEW c \in issued' \ issued,
             peer' = [peer EXCEPT !.cid = c,
                        !.reg = [port |-> peer.port, at |-> now, run |-> restarts]]
      PROVE  RegistrationInv'
  <2> DEFINE kept == MakeRoom(clients, Count(clients) >= MaxClients)
  <2>1. handleRegister({peer.port})
    BY <1>2 DEF Register
  <2>2. PICK k \in ClientId \ issued :
          /\ clients' = [kept EXCEPT ![k] = [redirectURIs |-> {peer.port},
                                             expires |-> now + ClientTTL]]
          /\ issued' = issued \cup {k}
    BY <1>2, <2>1 DEF handleRegister, registerClient
  <2>3. DOMAIN kept = ClientId
    BY <1>0, MakeRoomType DEF TypeOK
  <2> HIDE DEF kept
  <2>4. k = c
    BY <1>2, <2>2
  <2>5. /\ clients'[c].redirectURIs = {peer.port}
        /\ clients'[c].expires = now + ClientTTL
    BY <2>2, <2>3, <2>4
  <2>6. restarts' = restarts
    BY <2>1 DEF handleRegister
  <2>7. /\ peer'.cid = c /\ peer'.reg.port = peer.port
        /\ peer'.reg.at = now /\ peer'.reg.run = restarts
        /\ peer'.reg = [port |-> peer.port, at |-> now, run |-> restarts]
    BY <1>0, <1>2 DEF Peer
  <2>8. peer'.reg # None
    <3>1. [port |-> peer.port, at |-> now, run |-> restarts] \in Registration
      BY <1>0, PeerFields DEF Registration, TypeOK
    <3> QED
      BY <2>7, <3>1, NothingAssumption
  <2> QED
    BY <1>2, <2>5, <2>6, <2>7, <2>8 DEF RegistrationInv
<1>3. CASE Register
  BY <1>1, <1>2, <1>3 DEF Register
<1> QED
  BY <1>1, <1>3, RegistrationKept

-----------------------------------------------------------------------------
(* The request of the client, and its attempt.                             *)

\* Where the client waits for no answer, no request of it is under way.
LEMMA NoRequest ==
  ASSUME LoginIInv, peer.at \notin {"asked", "returned", "declined", "redeeming"}
  PROVE  call[Mine].at = "idle"
<1>1. RequestInv /\ call[Mine] \in Call
  BY PeerAssumption DEF LoginIInv, LoginTypeOK, TypeOK
<1>2. call[Mine].at \in {"idle", "authorize", "callback", "exchanging", "exchanged",
                         "redeem"}
  BY <1>1 DEF Call, Idle
<1> QED
  BY <1>1, <1>2 DEF RequestInv

\* The client waits for the answer to its own request.
LEMMA RequestInvStep ==
  ASSUME LoginIInv, [LoginNext]_loginVars
  PROVE  RequestInv'
<1>0. /\ peer \in Peer /\ RequestInv /\ call \in [Handler -> Call]
      /\ Mine \in Handler /\ Theirs \in Handler /\ Mine # Theirs
  BY PeerAssumption DEF LoginIInv, LoginTypeOK, TypeOK
<1>1. ASSUME call'[Mine].at = "idle" PROVE RequestInv'
  BY <1>1 DEF RequestInv
<1>2. ASSUME peer' = peer, call'[Mine] = call[Mine] PROVE RequestInv'
  BY <1>0, <1>2 DEF RequestInv
<1>3. ASSUME call'[Mine] = call[Mine],
             peer.at \notin {"asked", "returned", "declined", "redeeming"}
      PROVE  RequestInv'
  BY <1>1, <1>3, NoRequest
<1>4. CASE CallTool \/ FetchResource \/ FetchServer \/ IssuerLogin \/ Register
           \/ AskAgain \/ SignIn \/ OtherPort \/ TokenExpires
  <2>1. call' = call
    BY <1>4 DEF CallTool, FetchResource, FetchServer, IssuerLogin, Register, AskAgain,
       SignIn, OtherPort, TokenExpires, proxy, handleRegister, ProviderLogin
  <2>2. peer.at \notin {"asked", "returned", "declined", "redeeming"}
    BY <1>4 DEF CallTool, FetchResource, FetchServer, IssuerLogin, Register, AskAgain,
       SignIn, OtherPort, TokenExpires
  <2> QED
    BY <1>3, <2>1, <2>2
<1>5. CASE Ask
  <2>1. /\ AuthorizeLookup(Mine, authorizeRequest(peer.cid, peer.port))
        /\ peer' = [peer EXCEPT !.at = IF call'[Mine].at = "authorize"
                                         THEN "asked" ELSE "refused"]
    BY <1>5 DEF Ask
  <2>2. \/ call'[Mine] = call[Mine]
        \/ /\ call'[Mine].at = "authorize"
           /\ call'[Mine].req = authorizeRequest(peer.cid, peer.port)
    BY <1>0, <2>1 DEF AuthorizeLookup, Goto
  <2>3. call[Mine].at = "idle"
    BY <2>1 DEF AuthorizeLookup
  <2>4. call'[Mine].at = "authorize" =>
          peer'.at = "asked" /\ peer'.cid = peer.cid /\ peer'.port = peer.port
    BY <1>0, <2>1 DEF Peer
  <2> QED
    BY <1>1, <2>2, <2>3, <2>4 DEF RequestInv
<1>6. CASE Asked \/ Redeemed \/ ProviderFails \/ AnswerIsLost
  <2>1. call'[Mine] = Idle
    BY <1>0, <1>6 DEF Asked, Redeemed, ProviderFails, AnswerIsLost, AuthorizeInsert,
       TokenAnswer, exchangeFails, CallbackRejects, CallbackGrants, Goto
  <2> QED
    BY <1>1, <2>1 DEF Idle
<1>7. CASE Returned
  <2>1. CASE CallbackGivesUp(Mine) \/ CallbackGrants(Mine)
    BY <1>0, <1>1, <2>1 DEF CallbackGivesUp, CallbackGrants, Goto, Idle
  <2>2. CASE (CallbackProceeds(Mine) \/ exchangeCode(Mine)) /\ UNCHANGED peer
    <3>1. /\ call'[Mine].at \in {"exchanging", "exchanged"}
          /\ call'[Mine].state = call[Mine].state
          /\ call[Mine].at \in {"callback", "exchanging"}
      BY <1>0, <2>2 DEF CallbackProceeds, exchangeCode, Goto
    <3> QED
      BY <1>0, <2>2, <3>1 DEF RequestInv
  <2> QED
    BY <1>7, <2>1, <2>2 DEF Returned
<1>8. CASE Return
  <2>1. CASE UNCHANGED proxy
    BY <1>3, <1>8, <2>1 DEF Return, proxy
  <2>2. CASE /\ \E u \in Login : CallbackTake(Mine, peer.state, u)
             /\ peer' = [peer EXCEPT !.at = "returned"]
    <3>1. PICK u \in Login : CallbackTake(Mine, peer.state, u)
      BY <2>2
    <3>2. call'[Mine] = [at |-> "callback", state |-> peer.state,
                         session |-> sessions[peer.state], param |-> u]
      BY <1>0, <3>1 DEF CallbackTake, Goto
    <3>3. peer'.at = "returned" /\ peer'.state = peer.state
      BY <1>0, <2>2 DEF Peer
    <3> QED
      BY <3>2, <3>3 DEF RequestInv
  <2> QED
    BY <1>8, <2>1, <2>2 DEF Return
<1>9. CASE UserDeclines
  <2>1. CASE UNCHANGED proxy
    BY <1>3, <1>9, <2>1 DEF UserDeclines, proxy
  <2>2. CASE /\ CallbackTake(Mine, peer.state, "error")
             /\ peer' = [peer EXCEPT !.at = "declined"]
    <3>1. call'[Mine] = [at |-> "callback", state |-> peer.state,
                         session |-> sessions[peer.state], param |-> "error"]
      BY <1>0, <2>2 DEF CallbackTake, Goto
    <3>2. peer'.at = "declined" /\ peer'.state = peer.state
      BY <1>0, <2>2 DEF Peer
    <3> QED
      BY <3>1, <3>2 DEF RequestInv
  <2> QED
    BY <1>9, <2>1, <2>2 DEF UserDeclines
<1>10. CASE Redeem
  <2>1. CASE UNCHANGED proxy
    BY <1>3, <1>10, <2>1 DEF Redeem, proxy
  <2>2. CASE /\ TokenTake(Mine, peer.code, tokenRequest(peer.cid, peer.port))
             /\ peer' = [peer EXCEPT !.at = "redeeming"]
    <3>1. call'[Mine] = [at |-> "redeem", code |-> peer.code,
                         grant |-> grants[peer.code],
                         req |-> tokenRequest(peer.cid, peer.port)]
      BY <1>0, <2>2 DEF TokenTake, Goto
    <3>2. /\ peer'.at = "redeeming" /\ peer'.code = peer.code
          /\ peer'.cid = peer.cid /\ peer'.port = peer.port
      BY <1>0, <2>2 DEF Peer
    <3> QED
      BY <3>1, <3>2 DEF RequestInv
  <2> QED
    BY <1>10, <2>1, <2>2 DEF Redeem
<1>11. CASE ServerRestarts
  BY <1>0, <1>1, <1>11 DEF ServerRestarts, Restart, Idle
<1>12. CASE OthersRegister \/ OthersAsk \/ OthersAsked
            \/ ((sweep \/ Tick) /\ NoMishap /\ UNCHANGED peer) \/ UNCHANGED loginVars
  <2>1. peer' = peer /\ call'[Mine] = call[Mine]
    BY <1>0, <1>12 DEF OthersRegister, OthersAsk, OthersAsked, sweep, Tick, loginVars,
       vars, handleRegister, AuthorizeLookup, AuthorizeInsert, Goto
  <2> QED
    BY <1>2, <2>1
<1> QED
  BY <1>4, <1>5, <1>6, <1>7, <1>8, <1>9, <1>10, <1>11, <1>12 DEF LoginNext, PeerStep

-----------------------------------------------------------------------------
(* The attempt of the client.                                              *)

\* Making room, like sweeping, removes what has expired and nothing else.
LEMMA RoomOfExpired ==
  ASSUME NEW m, NEW k \in DOMAIN m, NEW full, m[k] # None, ~Expired(m[k])
  PROVE  Swept(m)[k] = m[k] /\ MakeRoom(m, full)[k] = m[k]
BY DEF Swept, MakeRoom

\* A handler takes a session or a code out of its map.
Takes == \E h \in Handler : call[h].at = "idle" /\ call'[h].at \in {"callback", "redeem"}

\* Unless a handler takes them or the server restarts, sessions and codes stay where
\* they are until they expire.
LEMMA MapsKept ==
  ASSUME TypeOK, [Next]_vars, ~Takes, restarts' = restarts
  PROVE  /\ \A s \in State : sessions[s] # None /\ ~Expired(sessions[s])
                               => sessions'[s] # None
         /\ \A g \in Code : grants[g] # None /\ ~Expired(grants[g])
                              => grants'[g] # None
<1>0. /\ DOMAIN sessions = State /\ DOMAIN grants = Code
      /\ call \in [Handler -> Call] /\ restarts \in Nat /\ now \in Nat
      /\ \A h \in Handler : call[h] \in Call
  BY DEF TypeOK
<1>1. \A full :
        /\ \A s \in State : sessions[s] # None /\ ~Expired(sessions[s])
                              => /\ MakeRoom(sessions, full)[s] # None
                                 /\ Swept(sessions)[s] # None
        /\ \A g \in Code : grants[g] # None /\ ~Expired(grants[g])
                             => /\ MakeRoom(grants, full)[g] # None
                                /\ Swept(grants)[g] # None
  BY <1>0, RoomOfExpired
<1>2. ASSUME NEW uris \in SUBSET Redirect, handleRegister(uris)
      PROVE  /\ \A s \in State : sessions[s] # None /\ ~Expired(sessions[s])
                                   => sessions'[s] # None
             /\ \A g \in Code : grants[g] # None /\ ~Expired(grants[g])
                                  => grants'[g] # None
  BY <1>1, <1>2 DEF handleRegister, registerClient
<1>3. ASSUME NEW h \in Handler, AuthorizeInsert(h)
      PROVE  /\ \A s \in State : sessions[s] # None /\ ~Expired(sessions[s])
                                   => sessions'[s] # None
             /\ \A g \in Code : grants[g] # None /\ ~Expired(grants[g])
                                  => grants'[g] # None
  <2> DEFINE kept == MakeRoom(sessions, Count(sessions) >= MaxSessions)
  <2>1. DOMAIN kept = State
    BY <1>0 DEF MakeRoom, Swept
  <2>2. SessionFor(call[h].req) # None
    BY <1>0, <1>3, CallFields, SessionForType, NoneAssumption DEF AuthorizeInsert
  <2>3. \/ sessions' = kept
        \/ sessions' = [kept EXCEPT ![call[h].state] = SessionFor(call[h].req)]
    BY <1>3 DEF AuthorizeInsert
  <2>4. \A s \in State : sessions[s] # None /\ ~Expired(sessions[s]) => kept[s] # None
    BY <1>1
  <2> HIDE DEF kept
  <2>5. \A g \in Code : grants[g] # None /\ ~Expired(grants[g]) => grants'[g] # None
    BY <1>1, <1>3 DEF AuthorizeInsert
  <2> QED
    BY <2>1, <2>2, <2>3, <2>4, <2>5
<1>4. ASSUME NEW h \in Handler, NEW s \in State, NEW param \in CallbackParam,
             CallbackTake(h, s, param)
      PROVE  FALSE
  BY <1>0, <1>4 DEF CallbackTake, Goto, Takes
<1>5. ASSUME NEW h \in Handler, NEW g \in Code, NEW req \in TokenRequests,
             TokenTake(h, g, req)
      PROVE  FALSE
  BY <1>0, <1>5 DEF TokenTake, Goto, Takes
<1>6. ASSUME NEW h \in Handler, CallbackGrants(h)
      PROVE  \A g \in Code : grants[g] # None => grants'[g] # None
  <2>1. call[h].session \in proxySession /\ call[h].token \in Login
    BY <1>0, <1>6, CallFields DEF CallbackGrants
  <2>2. GrantFor(call[h].session, call[h].token) # None
    BY <1>0, <2>1, GrantForType, NoneAssumption
  <2>3. \E g \in Code :
          grants' = [grants EXCEPT ![g] = GrantFor(call[h].session, call[h].token)]
    BY <1>6 DEF CallbackGrants
  <2> QED
    BY <1>0, <2>2, <2>3
<1>7. CASE sweep
  BY <1>1, <1>7 DEF sweep
<1>8. ~Restart
  BY <1>0 DEF Restart
<1>9. CASE UNCHANGED sessions /\ \A g \in Code : grants[g] # None => grants'[g] # None
  BY <1>9
<1> QED
  BY <1>2, <1>3, <1>4, <1>5, <1>6, <1>7, <1>8, <1>9
  DEF Next, HandlerStep, vars, history, AuthorizeLookup, CallbackGivesUp,
      CallbackProceeds, exchangeCode, exchangeFails, CallbackGrants, CallbackRejects,
      TokenAnswer, Tick, ProviderLogin

\* The clock and the number of runs grow, and a session begins in the current run.
LEMMA RunsKept ==
  ASSUME TypeOK, SessionsInv, [Next]_vars
  PROVE  /\ restarts' \in Nat /\ restarts' >= restarts /\ now' >= now
         /\ \A s \in State : began'[s] # None
              => began'[s] = began[s] \/ began'[s].run = restarts
<1>0. restarts \in Nat /\ now \in Nat /\ DOMAIN began = State
  BY DEF TypeOK
<1>1. restarts' \in {restarts, restarts + 1} /\ now' \in {now, now + 1}
  BY DEF Next, HandlerStep, vars, history, handleRegister, AuthorizeLookup,
     AuthorizeInsert, CallbackTake, CallbackGivesUp, CallbackProceeds, exchangeCode,
     exchangeFails, CallbackGrants, CallbackRejects, TokenTake, TokenAnswer, sweep, Tick,
     Restart, ProviderLogin
<1>2. ASSUME NEW h \in Handler, AuthorizeInsert(h)
      PROVE  \A s \in State : began'[s] # None
               => began'[s] = began[s] \/ began'[s].run = restarts
  <2>. PICK session : session = SessionFor(call[h].req)
    OBVIOUS
  <2>1. \/ began' = began
        \/ began' = [began EXCEPT ![call[h].state] =
                       [session |-> session, at |-> now, run |-> restarts]]
    BY <1>2 DEF AuthorizeInsert
  <2>2. [session |-> session, at |-> now, run |-> restarts].run = restarts
    OBVIOUS
  <2>3. ASSUME NEW s \in State, began'[s] # began[s]
        PROVE  began'[s] = [session |-> session, at |-> now, run |-> restarts]
    BY <1>0, <2>1, <2>3
  <2> QED
    BY <2>2, <2>3
<1>3. (\E h \in Handler : AuthorizeInsert(h)) \/ began' = began
  BY DEF Next, HandlerStep, vars, history, handleRegister, AuthorizeLookup,
     CallbackTake, CallbackGivesUp, CallbackProceeds, exchangeCode,
     exchangeFails, CallbackGrants, CallbackRejects, TokenTake, TokenAnswer, sweep, Tick,
     Restart, ProviderLogin
<1> QED
  BY <1>0, <1>1, <1>2, <1>3

\* What the proxy remembers of the attempt under way stays as it is.
LEMMA AttemptRemembered ==
  ASSUME IInv, LoginIInv, [Next]_vars
  PROVE  /\ \A s \in State : began'[s] # None => began'[s].run <= restarts'
         /\ peer.at \in attempting => began'[peer.state] = began[peer.state]
         /\ peer.at \in {"coded", "redeeming"} =>
              /\ minted'[peer.code] = minted[peer.code]
              /\ login'[minted[peer.code].grant.token].state = peer.state
<1>0. /\ TypeOK /\ CodesInv /\ SessionsInv /\ LoginsInv /\ AttemptInv
  BY DEF IInv, LoginIInv
<1>1. /\ \A g \in Code : minted[g] # None => minted'[g] = minted[g]
      /\ \A u \in Login : login[u].state # None => login'[u].state = login[u].state
      /\ \A s \in State : began[s] # None => began'[s] = began[s]
  BY <1>0, HistoryKept
<1>2. ASSUME NEW s \in State, began'[s] # None PROVE began'[s].run <= restarts'
  <2>1. /\ restarts \in Nat /\ restarts' \in Nat /\ restarts' >= restarts
        /\ began'[s] = began[s] \/ began'[s].run = restarts
    BY <1>0, <1>2, RunsKept DEF TypeOK
  <2>2. CASE began'[s] = began[s]
    <3>1. began[s] \in BeganRecord /\ began[s].run <= restarts
      BY <1>0, <1>2, <2>2 DEF TypeOK, AttemptInv
    <3>2. began[s].run \in Nat
      BY <3>1 DEF BeganRecord
    <3> QED
      BY <2>1, <2>2, <3>1, <3>2
  <2> QED
    BY <2>1, <2>2
<1>3. peer.at \in attempting => began'[peer.state] = began[peer.state]
  BY <1>0, <1>1 DEF AttemptInv
<1>4. ASSUME peer.at \in {"coded", "redeeming"}
      PROVE  /\ minted'[peer.code] = minted[peer.code]
             /\ login'[minted[peer.code].grant.token].state = peer.state
  <2>1. /\ peer.code \in Code /\ minted[peer.code] # None
        /\ StateOf(peer.code) = peer.state /\ peer.state \in State
    BY <1>0, <1>4 DEF AttemptInv, attempting
  <2>2. minted'[peer.code] = minted[peer.code]
    BY <1>1, <2>1
  <2>3. minted[peer.code].grant.token \in Login
    BY <1>0, <2>1 DEF TypeOK, MintedRecord, proxyGrant
  <2>4. login[minted[peer.code].grant.token].state # None
    BY <2>1, NoneAssumption DEF StateOf
  <2>5. login'[minted[peer.code].grant.token].state
          = login[minted[peer.code].grant.token].state
    BY <1>1, <2>3, <2>4
  <2> QED
    BY <2>1, <2>2, <2>5 DEF StateOf
<1> QED
  BY <1>2, <1>3, <1>4

\* The session of the attempt waits for its callback, and the code for its /token, as
\* long as nobody takes them.
LEMMA AttemptWaits ==
  ASSUME IInv, LoginIInv, [Next]_vars, ~Takes
  PROVE  /\ peer.at \in {"signing", "signed"} =>
              \/ sessions'[peer.state] # None
              \/ began[peer.state].run # restarts'
              \/ now' > began[peer.state].at + SessionTTL
         /\ peer.at = "coded" =>
              \/ grants'[peer.code] # None
              \/ began[peer.state].run # restarts'
              \/ now' > minted[peer.code].at + GrantTTL
<1>0. /\ TypeOK /\ CodesInv /\ SessionsInv /\ GrantsInv /\ AttemptInv
      /\ now \in Nat /\ restarts \in Nat
  BY DEF IInv, LoginIInv, TypeOK
<1>1. restarts' \in Nat /\ restarts' >= restarts /\ now' >= now
  BY <1>0, RunsKept
<1>2. now' \in Nat
  BY <1>0, TypeOKStep DEF TypeOK
<1>3. ASSUME peer.at \in attempting
      PROVE  /\ peer.state \in State /\ began[peer.state] # None
             /\ began[peer.state].run \in Nat /\ began[peer.state].at \in Nat
             /\ began[peer.state].run <= restarts
  BY <1>0, <1>3 DEF AttemptInv, TypeOK, BeganRecord
<1>4. ASSUME peer.at \in attempting, began[peer.state].run = restarts'
      PROVE  began[peer.state].run = restarts /\ restarts' = restarts
  BY <1>0, <1>1, <1>3, <1>4
<1>5. ASSUME peer.at \in {"signing", "signed"}, began[peer.state].run = restarts',
             sessions'[peer.state] = None
      PROVE  now' > began[peer.state].at + SessionTTL
  <2>0. peer.at \in attempting
    BY <1>5 DEF attempting
  <2>1. \/ sessions[peer.state] # None
        \/ now > began[peer.state].at + SessionTTL
    BY <1>0, <1>4, <1>5, <2>0 DEF AttemptInv
  <2>2. CASE sessions[peer.state] # None
    <3>1. Expired(sessions[peer.state])
      BY <1>0, <1>3, <1>4, <1>5, <2>0, <2>2, MapsKept
    <3>2. sessions[peer.state].expires = began[peer.state].at + SessionTTL
      BY <1>0, <1>3, <2>0, <2>2 DEF SessionsInv
    <3> QED
      BY <1>0, <1>1, <1>2, <1>3, <2>0, <3>1, <3>2, ConstantsAssumption DEF Expired
  <2> QED
    BY <1>0, <1>1, <1>2, <1>3, <2>0, <2>1, <2>2, ConstantsAssumption
<1>6. ASSUME peer.at = "coded", began[peer.state].run = restarts',
             grants'[peer.code] = None
      PROVE  now' > minted[peer.code].at + GrantTTL
  <2>0. /\ peer.at \in attempting /\ peer.code \in Code /\ minted[peer.code] # None
        /\ minted[peer.code].at \in Nat
    BY <1>0, <1>6 DEF attempting, AttemptInv, TypeOK, MintedRecord
  <2>1. \/ grants[peer.code] # None
        \/ now > minted[peer.code].at + GrantTTL
    BY <1>0, <1>4, <1>6, <2>0 DEF AttemptInv
  <2>2. CASE grants[peer.code] # None
    <3>1. Expired(grants[peer.code])
      BY <1>0, <1>4, <1>6, <2>0, <2>2, MapsKept
    <3>2. GrantInv(peer.code) /\ grants[peer.code] = minted[peer.code].grant
      BY <1>0, <2>0, <2>2 DEF GrantsInv, CodesInv
    <3>3. grants[peer.code].expires = minted[peer.code].at + GrantTTL
      BY <2>0, <3>2 DEF GrantInv
    <3> QED
      BY <1>0, <1>1, <1>2, <2>0, <3>1, <3>3, ConstantsAssumption DEF Expired
  <2> QED
    BY <1>0, <1>1, <1>2, <2>0, <2>1, <2>2, ConstantsAssumption
<1> QED
  BY <1>5, <1>6

\* The client at the same point of the same attempt.
Stays == UNCHANGED <<peer.cid, peer.port, peer.state, peer.code>>

\* A step that takes nothing leaves the attempt as it is.
LEMMA AttemptFrame ==
  ASSUME IInv, LoginIInv, [Next]_vars,
         peer'.at \in attempting => /\ Stays /\ ~Takes
                                    /\ \/ peer'.at = peer.at
                                       \/ peer.at = "signing" /\ peer'.at = "signed"
  PROVE  AttemptInv'
<1>0. AttemptInv
  BY DEF LoginIInv
<1>1. \A s \in State : began'[s] # None => began'[s].run <= restarts'
  BY AttemptRemembered
<1>2. CASE peer'.at \notin attempting
  <2>1. peer'.at \notin {"signing", "signed", "coded", "redeeming"}
    BY <1>2 DEF attempting
  <2> QED
    BY <1>1, <1>2, <2>1 DEF AttemptInv
<1>3. CASE peer'.at \in attempting
  <2>1. /\ peer'.cid = peer.cid /\ peer'.port = peer.port
        /\ peer'.state = peer.state /\ peer'.code = peer.code
    BY <1>3 DEF Stays
  <2>2. peer.at \in attempting
    BY <1>3 DEF attempting
  <2>3. /\ began'[peer.state] = began[peer.state]
        /\ peer.at \in {"coded", "redeeming"} =>
             /\ minted'[peer.code] = minted[peer.code]
             /\ login'[minted[peer.code].grant.token].state = peer.state
    BY <2>2, AttemptRemembered
  <2>4. /\ peer'.state \in State
        /\ began'[peer'.state] # None
        /\ began'[peer'.state].session =
             [client |-> peer'.cid, redirect |-> peer'.port,
              challenge |-> pkceChallenge(Secret), method |-> "S256",
              expires |-> began'[peer'.state].at + SessionTTL]
    BY <1>0, <2>1, <2>2, <2>3 DEF AttemptInv
  <2>5. peer'.at \in {"signing", "signed"} =>
          \/ sessions'[peer'.state] # None
          \/ began'[peer'.state].run # restarts'
          \/ now' > began'[peer'.state].at + SessionTTL
    BY <1>3, <2>1, <2>3, AttemptWaits
  <2>6. peer'.at \in {"coded", "redeeming"} =>
          /\ peer'.code \in Code
          /\ minted'[peer'.code] # None
          /\ StateOf(peer.code)' = peer'.state
    BY <1>0, <1>3, <2>1, <2>3 DEF AttemptInv, StateOf
  <2>7. peer'.at = "coded" =>
          \/ grants'[peer'.code] # None
          \/ began'[peer'.state].run # restarts'
          \/ now' > minted'[peer'.code].at + GrantTTL
    BY <1>3, <2>1, <2>3, AttemptWaits
  <2> QED
    BY <1>1, <2>4, <2>5, <2>6, <2>7 DEF AttemptInv
<1> QED
  BY <1>2, <1>3

\* The attempt while its request is under way: it is remembered, and the code it redeems
\* is its own.
LEMMA AttemptAsks ==
  ASSUME IInv, LoginIInv, [Next]_vars, Stays, peer.at \in attempting,
         \/ peer'.at \in {"returned", "declined"}
         \/ peer.at = "coded" /\ peer'.at = "redeeming"
  PROVE  AttemptInv'
<1>0. AttemptInv
  BY DEF LoginIInv
<1>1. /\ \A s \in State : began'[s] # None => began'[s].run <= restarts'
      /\ began'[peer.state] = began[peer.state]
      /\ peer.at \in {"coded", "redeeming"} =>
           /\ minted'[peer.code] = minted[peer.code]
           /\ login'[minted[peer.code].grant.token].state = peer.state
  BY AttemptRemembered
<1>2. /\ peer'.cid = peer.cid /\ peer'.port = peer.port
      /\ peer'.state = peer.state /\ peer'.code = peer.code
  BY DEF Stays
<1>3. /\ peer'.state \in State
      /\ began'[peer'.state] # None
      /\ began'[peer'.state].session =
           [client |-> peer'.cid, redirect |-> peer'.port,
            challenge |-> pkceChallenge(Secret), method |-> "S256",
            expires |-> began'[peer'.state].at + SessionTTL]
  BY <1>0, <1>1, <1>2 DEF AttemptInv
<1>4. peer'.at = "redeeming" => /\ peer'.code \in Code
                                /\ minted'[peer'.code] # None
                                /\ StateOf(peer.code)' = peer'.state
  BY <1>0, <1>1, <1>2 DEF AttemptInv, StateOf
<1> QED
  BY <1>1, <1>3, <1>4 DEF AttemptInv

\* /authorize has stored the session that the client asked for.
LEMMA AttemptBegins ==
  ASSUME IInv, LoginIInv, LoginTypeOK', [Next]_vars, AuthorizeInsert(Mine), began' # began,
         peer' = [peer EXCEPT !.at = "signing", !.state = call[Mine].state]
  PROVE  AttemptInv'
<1>. PICK s : s = call[Mine].state
  OBVIOUS
<1>. PICK session : session = SessionFor(call[Mine].req)
  OBVIOUS
<1>0. /\ TypeOK /\ peer \in Peer /\ RequestInv /\ Mine \in Handler
      /\ DOMAIN began = State /\ DOMAIN sessions = State /\ now \in Nat
  BY PeerAssumption DEF IInv, LoginIInv, LoginTypeOK, TypeOK
<1>1. s \in State /\ session \in proxySession /\ call[Mine].req \in ValidRequest
  <2>1. s \in State /\ call[Mine].req \in ValidRequest
    BY <1>0, CallFields DEF AuthorizeInsert, TypeOK
  <2> QED
    BY <1>0, <2>1, SessionForType
<1>2. call[Mine].req = authorizeRequest(peer.cid, peer.port)
  BY <1>0 DEF AuthorizeInsert, RequestInv
<1>3. session = [client |-> peer.cid, redirect |-> peer.port,
                 challenge |-> pkceChallenge(Secret), method |-> "S256",
                 expires |-> now + SessionTTL]
  BY <1>2 DEF SessionFor, authorizeRequest
<1>4. /\ began' = [began EXCEPT ![s] = [session |-> session, at |-> now, run |-> restarts]]
      /\ \E kept : /\ kept = MakeRoom(sessions, Count(sessions) >= MaxSessions)
                   /\ sessions' = [kept EXCEPT ![s] = session]
  BY DEF AuthorizeInsert
<1>5. began'[s] = [session |-> session, at |-> now, run |-> restarts]
  BY <1>0, <1>1, <1>4
<1>6. sessions'[s] = session /\ session # None
  <2>1. DOMAIN MakeRoom(sessions, Count(sessions) >= MaxSessions) = State
    BY <1>0 DEF MakeRoom, Swept
  <2>2. sessions'[s] = session
    BY <1>1, <1>4, <2>1
  <2> QED
    BY <1>1, <2>2, NoneAssumption
<1>7. /\ peer'.at = "signing" /\ peer'.state = s
      /\ peer'.cid = peer.cid /\ peer'.port = peer.port
  BY <1>0 DEF Peer
<1>8. began'[s] # None
  BY <1>0, <1>1, <1>5, NoneAssumption DEF BeganRecord, TypeOK
<1>9. \A t \in State : began'[t] # None => began'[t].run <= restarts'
  BY AttemptRemembered
<1> QED
  BY <1>1, <1>3, <1>5, <1>6, <1>7, <1>8, <1>9 DEF AttemptInv

\* /oauth/callback has made a code of the client's own login.
LEMMA AttemptIsCoded ==
  ASSUME IInv, LoginIInv, [Next]_vars, CallbackGrants(Mine), NEW g \in Code,
         minted'[g] # minted[g], peer' = [peer EXCEPT !.at = "coded", !.code = g]
  PROVE  AttemptInv'
<1>. PICK grant : grant = GrantFor(call[Mine].session, call[Mine].token)
  OBVIOUS
<1>0. /\ TypeOK /\ peer \in Peer /\ RequestInv /\ AttemptInv /\ LoginsInv /\ Mine \in Handler
      /\ DOMAIN minted = Code /\ DOMAIN grants = Code /\ now \in Nat
  BY PeerAssumption DEF IInv, LoginIInv, LoginTypeOK, TypeOK
<1>1. call[Mine].session \in proxySession /\ call[Mine].token \in Login
  BY <1>0, CallFields DEF CallbackGrants, TypeOK
<1>2. grant \in proxyGrant /\ grant.token = call[Mine].token
  <2>1. grant \in proxyGrant
    BY <1>0, <1>1, GrantForType
  <2> QED
    BY <2>1 DEF GrantFor
<1>3. PICK f \in Code : /\ grants' = [grants EXCEPT ![f] = grant]
                        /\ minted' = [minted EXCEPT ![f] = [grant |-> grant, at |-> now]]
  BY DEF CallbackGrants
<1>4. f = g
  BY <1>0, <1>3
<1>5. /\ grants'[g] = grant /\ grant # None
      /\ minted'[g] = [grant |-> grant, at |-> now] /\ minted'[g] # None
  BY <1>0, <1>2, <1>3, <1>4, NoneAssumption DEF MintedRecord
<1>6. peer.at \in attempting /\ call[Mine].state = peer.state
  BY <1>0 DEF CallbackGrants, RequestInv, attempting
<1>7. login'[grant.token].state = peer.state
  BY <1>0, <1>2, <1>6 DEF CallbackGrants, LoginsInv
<1>8. /\ peer'.at = "coded" /\ peer'.code = g /\ peer'.state = peer.state
      /\ peer'.cid = peer.cid /\ peer'.port = peer.port
  BY <1>0 DEF Peer
<1>9. /\ \A s \in State : began'[s] # None => began'[s].run <= restarts'
      /\ began'[peer.state] = began[peer.state]
  BY <1>6, AttemptRemembered
<1>10. /\ peer'.state \in State
       /\ began'[peer'.state] # None
       /\ began'[peer'.state].session =
            [client |-> peer'.cid, redirect |-> peer'.port,
             challenge |-> pkceChallenge(Secret), method |-> "S256",
             expires |-> began'[peer'.state].at + SessionTTL]
  BY <1>0, <1>6, <1>8, <1>9 DEF AttemptInv
<1>11. StateOf(peer.code)' = peer'.state
  BY <1>5, <1>7, <1>8 DEF StateOf
<1> QED
  BY <1>5, <1>8, <1>9, <1>10, <1>11 DEF AttemptInv

\* The attempt under way stays one that the client asked for.
LEMMA AttemptInvStep ==
  ASSUME IInv, LoginIInv, LoginTypeOK', [LoginNext]_loginVars
  PROVE  AttemptInv'
<1>0. /\ peer \in Peer /\ RequestInv /\ AttemptInv /\ [Next]_vars
      /\ call \in [Handler -> Call] /\ Mine \in Handler /\ Theirs \in Handler
  BY ProxyStep, PeerAssumption DEF LoginIInv, LoginTypeOK, TypeOK
<1>1. ASSUME peer'.at \notin attempting PROVE AttemptInv'
  BY <1>0, <1>1, AttemptFrame
<1>2. ASSUME peer' = peer, ~Takes PROVE AttemptInv'
  BY <1>0, <1>2, AttemptFrame DEF Stays
<1>3. StartOver.at \notin attempting
  BY <1>0 DEF StartOver, Peer, attempting
<1>4. CASE CallTool \/ FetchResource \/ FetchServer \/ IssuerLogin \/ Register \/ Ask
           \/ AskAgain \/ Redeemed \/ ProviderFails \/ AnswerIsLost \/ OtherPort
           \/ TokenExpires
  <2>1. peer' = StartOver \/ peer'.at \in {"in", "challenged", "located", "lost", "known",
                                           "out", "asked", "refused"}
    <3>1. CASE CallTool \/ FetchResource \/ IssuerLogin
      BY <1>0, <3>1 DEF CallTool, FetchResource, IssuerLogin, Peer
    <3>2. CASE FetchServer
      BY <1>0, <3>2 DEF FetchServer, Peer
    <3>3. CASE Register \/ Ask \/ AskAgain \/ Redeemed
      BY <1>0, <3>3 DEF Register, Ask, AskAgain, Redeemed, Peer
    <3>4. CASE ProviderFails \/ AnswerIsLost \/ OtherPort \/ TokenExpires
      BY <1>0, <3>4 DEF ProviderFails, AnswerIsLost, OtherPort, TokenExpires, Peer
    <3> QED
      BY <1>4, <3>1, <3>2, <3>3, <3>4
  <2> QED
    BY <1>1, <1>3, <2>1 DEF attempting
<1>5. CASE Asked
  BY <1>0, <1>1, <1>3, <1>5, AttemptBegins DEF Asked
<1>6. CASE SignIn
  <2>1. /\ peer.at = "signing" /\ peer' = [peer EXCEPT !.at = "signed"] /\ call' = call
    BY <1>6 DEF SignIn, ProviderLogin
  <2>2. ~Takes
    BY <2>1 DEF Takes
  <2>3. peer'.at = "signed" /\ Stays
    BY <1>0, <2>1 DEF Stays, Peer
  <2> QED
    BY <1>0, <2>1, <2>2, <2>3, AttemptFrame
<1>7. CASE Return \/ UserDeclines
  <2>1. peer.at \in attempting
    BY <1>7 DEF Return, UserDeclines, attempting
  <2>2. \/ peer' = StartOver
        \/ Stays /\ peer'.at \in {"returned", "declined"}
    BY <1>0, <1>7 DEF Return, UserDeclines, Stays, Peer
  <2> QED
    BY <1>0, <1>1, <1>3, <2>1, <2>2, AttemptAsks
<1>8. CASE Returned
  <2>1. CASE (CallbackProceeds(Mine) \/ exchangeCode(Mine)) /\ UNCHANGED peer
    <3>1. ~Takes
      BY <1>0, <2>1 DEF CallbackProceeds, exchangeCode, Goto, Takes
    <3> QED
      BY <1>2, <2>1, <3>1
  <2> QED
    BY <1>0, <1>1, <1>3, <1>8, <2>1, AttemptIsCoded DEF Returned
<1>9. CASE Redeem
  <2>1. peer.at = "coded" /\ peer.at \in attempting
    BY <1>9 DEF Redeem, attempting
  <2>2. \/ peer' = StartOver
        \/ Stays /\ peer'.at = "redeeming"
    BY <1>0, <1>9 DEF Redeem, Stays, Peer
  <2> QED
    BY <1>0, <1>1, <1>3, <2>1, <2>2, AttemptAsks
<1>10. CASE ServerRestarts
  <2>1. ~Takes
    BY <1>10 DEF ServerRestarts, Restart, Idle, Takes
  <2> QED
    BY <1>1, <1>2, <1>3, <1>10, <2>1 DEF ServerRestarts
<1>11. CASE OthersRegister \/ OthersAsk \/ OthersAsked
            \/ ((sweep \/ Tick) /\ NoMishap /\ UNCHANGED peer) \/ UNCHANGED loginVars
  <2>1. peer' = peer
    BY <1>11 DEF OthersRegister, OthersAsk, OthersAsked, loginVars
  <2>2. ASSUME OthersAsk \/ OthersAsked PROVE ~Takes
    <3>1. \/ call' = call
          \/ \E c : /\ c.at \in {"authorize", "idle"}
                    /\ call' = [call EXCEPT ![Theirs] = c]
      BY <2>2 DEF OthersAsk, OthersAsked, AuthorizeLookup, AuthorizeInsert, Goto, Idle
    <3> QED
      BY <1>0, <3>1 DEF Takes
  <2>3. ~Takes
    BY <1>11, <2>2 DEF OthersRegister, sweep, Tick, loginVars, vars, handleRegister, Takes
  <2> QED
    BY <1>2, <2>1, <2>3
<1> QED
  BY <1>4, <1>5, <1>6, <1>7, <1>8, <1>9, <1>10, <1>11 DEF LoginNext, PeerStep

-----------------------------------------------------------------------------
(* The theorems.                                                           *)

LEMMA LoginInitOK == LoginInit => IInv /\ LoginIInv
<1> SUFFICES ASSUME LoginInit PROVE IInv /\ LoginIInv
  OBVIOUS
<1>1. PICK c \in {least(ClientId \ {Other}), None}, p \in {least(Port)} :
        /\ issued = {c, Other} \ {None}
        /\ peer = [at |-> "out", road |-> None, cid |-> c, reg |-> None, port |-> p,
                   state |-> None, code |-> None, token |-> None]
  BY DEF LoginInit
<1>2. c \in ClientId \cup {None} /\ p \in Port
  BY LeastClient, LeastPort
<1>3. IInv
  BY IInvInit DEF LoginInit
<1>4. LoginTypeOK
  <2>1. peer \in Peer
    BY <1>1, <1>2 DEF Peer, PeerAt
  <2> QED
    BY <1>3, <2>1 DEF LoginTypeOK, LoginInit, IInv
<1>5. Init
  BY DEF LoginInit
<1>6. RegistrationInv
  BY <1>1, <1>2, <1>5 DEF RegistrationInv, Init
<1>7. RoadInv /\ RequestInv /\ AttemptInv
  BY <1>1, <1>5, PeerAssumption
  DEF RoadInv, DiscoveryLeadsHome, RequestInv, AttemptInv, attempting, Init, Idle
<1> QED
  BY <1>3, <1>4, <1>6, <1>7 DEF LoginIInv

LEMMA LoginNextOK ==
  IInv /\ LoginIInv /\ [LoginNext]_loginVars => IInv' /\ LoginIInv'
<1> SUFFICES ASSUME IInv, LoginIInv, [LoginNext]_loginVars PROVE IInv' /\ LoginIInv'
  OBVIOUS
<1>1. IInv'
  BY ProxyStep, IInvStep
<1>2. LoginTypeOK'
  BY <1>1, LoginTypeStep DEF IInv
<1> QED
  BY <1>1, <1>2, RoadInvStep, RegistrationInvStep, RequestInvStep, AttemptInvStep
  DEF LoginIInv

\* What the client remembers agrees with what the server does for it, and the server
\* keeps its own invariant.
THEOREM LoginInvariant == LoginSpec => [](IInv /\ LoginIInv)
BY LoginInitOK, LoginNextOK, PTL DEF LoginSpec

\* Whatever the client does, and whatever goes wrong around it, is a behaviour of the
\* proxy: the theorems about the proxy hold for it.
THEOREM ProxyUnderneath == LoginSpec => Spec
<1>1. LoginInit => Init
  BY DEF LoginInit
<1>2. LoginIInv /\ [LoginNext]_loginVars => [Next]_vars
  BY ProxyStep
<1> QED
  BY <1>1, <1>2, LoginInvariant, PTL DEF LoginSpec, Spec

\* Over every road and in every style of probing, discovery leads to endpoints of the
\* server that the client started from.
THEOREM Discovery == LoginSpec => []DiscoveryLeadsHome
<1>1. LoginIInv => DiscoveryLeadsHome
  BY DEF LoginIInv, RoadInv
<1> QED
  BY <1>1, LoginInvariant, PTL

\* A client is turned away at /authorize only because this run of the server registered
\* it for another redirect URI, and until that registration expires.
THEOREM RestartTolerance == LoginSpec => RestartTolerant
<1>1. ASSUME LoginIInv, [LoginNext]_loginVars, peer.at # "refused", peer'.at = "refused"
      PROVE  /\ peer.reg # None
             /\ peer.reg.port # peer.port
             /\ peer.reg.run = restarts
             /\ now <= peer.reg.at + ClientTTL
  <2>0. /\ TypeOK /\ peer \in Peer /\ RegistrationInv
        /\ Mine \in Handler /\ call \in [Handler -> Call]
    <3>1. TypeOK /\ peer \in Peer /\ RegistrationInv
      BY <1>1 DEF LoginIInv, LoginTypeOK
    <3> QED
      BY <3>1, PeerAssumption DEF TypeOK
  <2>1. Ask
    <3>1. StartOver.at # "refused"
      BY <2>0 DEF StartOver, Peer
    <3>2. ~(CallTool \/ FetchResource \/ FetchServer \/ IssuerLogin \/ Register \/ AskAgain
              \/ Asked \/ SignIn \/ Return \/ Returned \/ Redeem \/ Redeemed)
      BY <1>1, <2>0, <3>1 DEF CallTool, FetchResource, FetchServer, IssuerLogin, Register,
         AskAgain, Asked, SignIn, Return, Returned, Redeem, Redeemed, Peer
    <3>3. ~(ServerRestarts \/ ProviderFails \/ UserDeclines \/ AnswerIsLost \/ OtherPort
              \/ TokenExpires)
      BY <1>1, <2>0, <3>1 DEF ServerRestarts, ProviderFails, UserDeclines, AnswerIsLost,
         OtherPort, TokenExpires, Peer
    <3> QED
      BY <1>1, <3>2, <3>3
      DEF LoginNext, PeerStep, OthersRegister, OthersAsk, OthersAsked, loginVars
  <2> DEFINE req == authorizeRequest(peer.cid, peer.port)
  <2>2. /\ AuthorizeLookup(Mine, req) /\ peer.cid \in ClientId /\ peer.port \in Port
        /\ call'[Mine].at # "authorize"
    BY <1>1, <2>0, <2>1, PeerFields DEF Ask, Peer
  <2>3. ~Admits(req)
    BY <2>0, <2>2 DEF AuthorizeLookup, Goto
  <2>4. /\ req.client = peer.cid /\ req.redirect = peer.port
        /\ req.challenge # None /\ req.method # "unsupported"
    <3>1. pkceChallenge(Secret) \in Challenge
      BY PeerAssumption DEF pkceChallenge, Challenge
    <3> QED
      BY <3>1, NoneAssumption DEF authorizeRequest
  <2> HIDE DEF req
  <2>5. Registered(peer.cid) /\ peer.port \notin clients[peer.cid].redirectURIs
    BY <2>2, <2>3, <2>4, PortsAllowed DEF Admits
  <2>6. /\ peer.reg # None /\ peer.reg.run = restarts
        /\ clients[peer.cid].redirectURIs = {peer.reg.port}
        /\ clients[peer.cid].expires = peer.reg.at + ClientTTL
    BY <2>2, <2>0, <2>5, NothingAssumption DEF Registered, RegistrationInv
  <2>7. now \in Nat /\ peer.reg.at + ClientTTL \in Nat
    BY <2>0, <2>6, PeerFields, ConstantsAssumption DEF TypeOK, Registration
  <2> QED
    BY <2>5, <2>6, <2>7 DEF Registered, Expired
<1>2. LoginIInv /\ [LoginNext]_loginVars =>
        [peer.at # "refused" /\ peer'.at = "refused" =>
           /\ peer.reg # None
           /\ peer.reg.port # peer.port
           /\ peer.reg.run = restarts
           /\ now <= peer.reg.at + ClientTTL]_loginVars
  BY <1>1
<1> QED
  BY <1>2, LoginInvariant, PTL DEF LoginSpec, RestartTolerant

\* A user who has signed in does not have to do it again because of what others do.
THEOREM NothingWasted == LoginSpec => NoSignInIsWasted
<1>1. ASSUME IInv, LoginIInv, [LoginNext]_loginVars,
             peer.at \in {"signed", "returned", "coded", "redeeming"},
             peer'.at = "known", mishaps' = mishaps
      PROVE  \/ began[peer.state].run # restarts
             \/ now > began[peer.state].at + SessionTTL
             \/ peer.code # None /\ now > minted[peer.code].at + GrantTTL
  <2>0. /\ TypeOK /\ peer \in Peer /\ RequestInv /\ AttemptInv /\ CodesInv /\ SessionsInv
        /\ GrantsInv /\ DeliveriesInv /\ Mine \in Handler /\ call \in [Handler -> Call]
        /\ mishaps \in Nat
    <3>1. /\ TypeOK /\ peer \in Peer /\ mishaps \in Nat /\ RequestInv /\ AttemptInv
          /\ CodesInv /\ SessionsInv /\ GrantsInv /\ DeliveriesInv
      BY <1>1 DEF IInv, LoginIInv, LoginTypeOK
    <3> QED
      BY <3>1, PeerAssumption DEF TypeOK
  <2>1. /\ peer.state \in State /\ peer.at \in attempting
        /\ began[peer.state].session.expires = began[peer.state].at + SessionTTL
        /\ began[peer.state].session.client = peer.cid
        /\ began[peer.state].session.redirect = peer.port
        /\ began[peer.state].session.challenge = pkceChallenge(Secret)
        /\ began[peer.state].session.method = "S256"
    BY <1>1, <2>0 DEF AttemptInv, attempting
  <2>2. CASE Return
    BY <1>1, <2>0, <2>2 DEF Return, AttemptInv, Peer
  <2>3. CASE Returned
    <3>1. CallbackGivesUp(Mine)
      BY <1>1, <2>0, <2>3 DEF Returned, Peer, CallbackProceeds, exchangeCode, RequestInv
    <3>2. call[Mine].state = peer.state /\ call[Mine].param \in Login
      BY <1>1, <2>0, <3>1 DEF CallbackGivesUp, RequestInv
    <3>3. InCallback(Mine, peer.state)
      BY <3>1, <3>2 DEF CallbackGivesUp, InCallback
    <3>4. call[Mine].session = began[peer.state].session
      BY <2>0, <2>1, <3>3 DEF SessionsInv
    <3> QED
      BY <2>1, <3>1, <3>2, <3>4 DEF CallbackGivesUp, Expired
  <2>4. CASE Redeem
    <3>1. peer.at = "coded" /\ grants[peer.code] = None
      BY <1>1, <2>0, <2>4 DEF Redeem, Peer
    <3>2. peer.code \in Code
      BY <2>0, <3>1 DEF AttemptInv
    <3> QED
      BY <2>0, <3>1, <3>2, NothingAssumption DEF AttemptInv
  <2>5. CASE Redeemed
    <3> DEFINE code == peer.code
    <3>1. TokenAnswer(Mine) /\ delivered' = delivered
      BY <1>1, <2>0, <2>5 DEF Redeemed, Peer
    <3>2. /\ peer.at = "redeeming" /\ call[Mine].code = code
          /\ call[Mine].req = tokenRequest(peer.cid, peer.port)
      BY <2>0, <3>1 DEF TokenAnswer, RequestInv
    <3>3. /\ code \in Code /\ code # None /\ minted[code] # None
          /\ StateOf(code) = peer.state
      BY <2>0, <3>2, NothingAssumption DEF AttemptInv
    <3>4. /\ Redeeming(Mine, code) /\ call[Mine].grant = minted[code].grant
          /\ redeemed[code] = 0
      BY <2>0, <3>1, <3>2, <3>3 DEF TokenAnswer, Redeeming, CodesInv
    <3>5. GrantInv(code)
      BY <2>0, <3>3 DEF GrantsInv
    <3>6. /\ minted[code].grant.client = peer.cid
          /\ minted[code].grant.redirect = peer.port
          /\ minted[code].grant.challenge = pkceChallenge(Secret)
          /\ minted[code].grant.method = "S256"
          /\ minted[code].grant.expires = minted[code].at + GrantTTL
      BY <2>1, <3>3, <3>5 DEF GrantInv
    <3>7. ~Redeems(call[Mine].grant, call[Mine].req)
      <4>1. ASSUME Redeems(call[Mine].grant, call[Mine].req) PROVE FALSE
        <5>1. PICK d : /\ d = [code |-> call[Mine].code, token |-> call[Mine].grant.token,
                              client |-> call[Mine].req.client,
                              redirect |-> call[Mine].req.redirect,
                              verifier |-> call[Mine].req.verifier,
                              at |-> now, run |-> restarts]
                       /\ d \in delivered'
          BY <3>1, <4>1 DEF TokenAnswer
        <5>2. redeemed[code] = 1
          BY <2>0, <3>1, <3>2, <5>1 DEF DeliveriesInv, DeliveryInv
        <5> QED
          BY <3>4, <5>2
      <4> QED
        BY <4>1
    <3>8. Secret # None
      BY PeerAssumption, NoneAssumption
    <3>9. Expired(call[Mine].grant)
      BY <3>2, <3>4, <3>6, <3>7, <3>8 DEF Redeems, tokenRequest, pkceMatches
    <3> QED
      BY <3>3, <3>4, <3>6, <3>9 DEF Expired
  <2>6. ~(CallTool \/ FetchResource \/ FetchServer \/ IssuerLogin \/ Register \/ Ask
            \/ AskAgain \/ SignIn)
    BY <1>1, <2>0 DEF CallTool, FetchResource, FetchServer, IssuerLogin, Register, Ask,
       AskAgain, SignIn, Peer
  <2>7. ~Asked
    BY <1>1, <2>0 DEF Asked, AuthorizeInsert, RequestInv
  <2>8. ~(ServerRestarts \/ ProviderFails \/ UserDeclines \/ AnswerIsLost \/ OtherPort
            \/ TokenExpires)
    BY <1>1, <2>0 DEF ServerRestarts, ProviderFails, UserDeclines, AnswerIsLost, OtherPort,
       TokenExpires, Mishap
  <2>9. peer' # peer
    BY <1>1
  <2> QED
    BY <1>1, <2>2, <2>3, <2>4, <2>5, <2>6, <2>7, <2>8, <2>9
    DEF LoginNext, PeerStep, OthersRegister, OthersAsk, OthersAsked, loginVars
<1>2. IInv /\ LoginIInv /\ [LoginNext]_loginVars =>
        [/\ peer.at \in {"signed", "returned", "coded", "redeeming"}
         /\ peer'.at = "known" /\ mishaps' = mishaps
         => \/ began[peer.state].run # restarts
            \/ now > began[peer.state].at + SessionTTL
            \/ peer.code # None /\ now > minted[peer.code].at + GrantTTL]_loginVars
  BY <1>1
<1> QED
  BY <1>2, LoginInvariant, PTL DEF LoginSpec, NoSignInIsWasted

=============================================================================
