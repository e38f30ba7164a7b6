-------------------------- MODULE ToolServerProofs --------------------------
(***************************************************************************)
(* IInv is an invariant of ToolServer for any kubeconfig, any set of       *)
(* callers and any number of concurrent calls; the properties of the       *)
(* requests follow from it.                                                *)
(***************************************************************************)
EXTENDS ToolServer, TLAPS

-----------------------------------------------------------------------------
(* Contexts, rest.Configs and clients.                                     *)

\* representativeContexts only names a context of the cluster asked for.
LEMMA Representative ==
  ASSUME config \in Config, NEW c \in Cluster \cup {None},
         representativeContexts(c) # None
  PROVE  /\ c \in Cluster
         /\ representativeContexts(c) \in Context
         /\ config.clusterOf[representativeContexts(c)] = c
<1> DEFINE S == ContextsOf(c)
<1>1. c # None /\ S # {}
  BY DEF representativeContexts
<1>2. S \in SUBSET Context
  BY DEF ContextsOf
<1>3. First(S) \in S /\ Last(S) \in S
  BY <1>1, <1>2, SortedContexts DEF First, Last
<1>4. representativeContexts(c) \in S
  BY <1>1, <1>3 DEF representativeContexts
<1> QED
  BY <1>1, <1>4 DEF ContextsOf

\* A target is a cluster of the kubeconfig or none.
LEMMA TargetType ==
  ASSUME config \in Config, NEW name \in Cluster \cup {None}
  PROVE  Target(name) \in Cluster \cup {None}
BY DEF Target, activeCluster, Config

\* A context of a cluster gives a rest.Config.
LEMMA RESTConfigType ==
  ASSUME config \in Config, NEW x \in Context, config.clusterOf[x] \in Cluster
  PROVE  ToRESTConfig(x) \in RestConfig
BY DEF ToRESTConfig, RestConfig, Config, Credential

\* So does the pod's service account.
LEMMA InClusterConfigType == InClusterConfig \in RestConfig
BY DEF InClusterConfig, RestConfig, Credential

\* applyOIDCToken replaces what is presented and nothing else.
LEMMA ApplyToken ==
  ASSUME NEW rest \in RestConfig, NEW auth \in Token \cup {None}
  PROVE  /\ applyOIDCToken(rest, auth) \in RestConfig
         /\ applyOIDCToken(rest, auth).server = rest.server
         /\ applyOIDCToken(rest, auth).impersonates = rest.impersonates
         /\ auth # None => applyOIDCToken(rest, auth).presents = {auth}
         /\ auth = None => applyOIDCToken(rest, auth) = rest
BY DEF applyOIDCToken, RestConfig

\* A client built for a context is typed, and is the one its call needs.
LEMMA BuiltClient ==
  ASSUME config \in Config, IsMultiCluster,
         NEW req \in Request, NEW auth \in Token \cup {None},
         NEW x, x = representativeContexts(Target(req.cluster)), x # None
  PROVE  /\ newClientForClusterWithToken(x, auth) \in Client
         /\ FitsCall(newClientForClusterWithToken(x, auth), req, auth)
         /\ Target(req.cluster) \in Cluster
         /\ x \in Context
         /\ config.clusterOf[x] = Target(req.cluster)
<1>1. req.cluster \in Cluster \cup {None}
  BY DEF Request
<1>2. Target(req.cluster) \in Cluster \cup {None}
  BY <1>1, TargetType
<1>3. /\ Target(req.cluster) \in Cluster /\ x \in Context
      /\ config.clusterOf[x] = Target(req.cluster)
  BY <1>2, Representative
<1>4. ToRESTConfig(x) \in RestConfig
  BY <1>3, RESTConfigType
<1>5. /\ ToRESTConfig(x).server = Target(req.cluster)
      /\ ToRESTConfig(x).impersonates = config.as
  BY <1>3 DEF ToRESTConfig
<1>6. x # None
  BY <1>3, NoneAssumption
<1> QED
  BY <1>3, <1>4, <1>5, <1>6, ApplyToken
  DEF newClientForClusterWithToken, Client, FitsCall

-----------------------------------------------------------------------------
(* The invariant holds initially and is kept by every step.                *)

\* The initial state satisfies the invariant.
LEMMA InitIInv == Init => IInv
<1> SUFFICES ASSUME Init PROVE IInv
  OBVIOUS
<1>1. TypeOK
  BY ConstantsAssumption DEF Init, TypeOK, Call
<1>2. CacheInv /\ ToolsInv
  BY DEF Init, CacheInv, ToolsInv
<1>3. CallsInv
  BY DEF Init, CallsInv
<1> QED
  BY <1>1, <1>2, <1>3
  DEF Init, IInv, ActsAsCaller, ReachesNamedCluster, NothingChangesWithoutOptIn,
      OnlyAdmittedCallersReach

\* The fields of a call in flight have their types.
LEMMA CallFields ==
  ASSUME TypeOK, NEW h \in Handler, call[h].at # "idle"
  PROVE  /\ call[h].req \in Request
         /\ call[h].auth \in Token \cup {None}
         /\ call[h].at = "resolved" => call[h].client \in Client
         /\ call[h] # Idle
BY DEF TypeOK, Call, Idle

\* Only handleful steps of one call matter to CallsInv.
LEMMA CallsFrame ==
  ASSUME TypeOK, CallsInv, NEW h \in Handler, NEW c,
         call' = [call EXCEPT ![h] = c],
         UNCHANGED <<config, tools>>,
         c # Idle =>
           /\ c.req.tool \in tools
           /\ c.auth = (IF Guarded THEN c.req.token ELSE None)
           /\ Guarded => c.req.token # None /\ Verify(c.req.token)
           /\ c.at = "resolved" => FitsCall(c.client, c.req, c.auth)
  PROVE  CallsInv'
<1>1. call'[h] = c /\ \A k \in Handler : k # h => call'[k] = call[k]
  BY DEF TypeOK
<1>2. Guarded' = Guarded /\ tools' = tools
  BY DEF Guarded
<1>3. \A client, req, auth : FitsCall(client, req, auth)' = FitsCall(client, req, auth)
  BY DEF FitsCall, IsMultiCluster, Target, activeCluster
<1>4. \A token : Verify(token)' = Verify(token)
  BY DEF Verify
<1> QED
  BY <1>1, <1>2, <1>3, <1>4 DEF CallsInv

\* The parts of the invariant that do not mention calls, when only they move.
LEMMA RestFrame ==
  ASSUME IInv, UNCHANGED <<config, server, tools, requests>>
  PROVE  /\ ToolsInv' /\ ActsAsCaller' /\ ReachesNamedCluster'
         /\ NothingChangesWithoutOptIn' /\ OnlyAdmittedCallersReach'
BY DEF IInv, ToolsInv, ActsAsCaller, ReachesNamedCluster, NothingChangesWithoutOptIn,
       OnlyAdmittedCallersReach, Guarded, IsMultiCluster, Target, activeCluster

\* The cache, when neither it nor the configuration moves.
LEMMA CacheFrame ==
  ASSUME CacheInv, UNCHANGED <<config, clients>>
  PROVE  CacheInv'
BY DEF CacheInv, ToRESTConfig

-----------------------------------------------------------------------------
(* One lemma per kind of step.                                             *)

\* What RegisterTools registers is in the catalog, and it registers a tool
\* that changes something only after opt-in.
LEMMA RegisterToolsChecked ==
  /\ RegisterTools \subseteq Tool
  /\ RegisterTools \cap Changing # {} => config.allowDestructive
<1>1. /\ registerCore \subseteq Tool
      /\ registerCore \cap Changing # {} => config.allowDestructive
  BY DEF registerCore, Tool, Changing, coreTools, destructiveCoreTools, fluxWrites
<1>2. /\ registerHelm \subseteq Tool
      /\ registerHelm \cap Changing # {} => config.allowDestructive
  BY DEF registerHelm, Tool, Changing, helmTools, destructiveCoreTools, fluxWrites
<1>3. /\ registerFluxCD \subseteq Tool
      /\ registerFluxCD \cap Changing # {} => config.allowDestructive
  BY DEF registerFluxCD, Tool, Changing, fluxLists, destructiveCoreTools, fluxWrites
<1>4. /\ registerKarpenter \subseteq Tool
      /\ registerKarpenter \cap Changing = {}
  BY DEF registerKarpenter, Tool, Changing, destructiveCoreTools, fluxWrites
<1> QED
  BY <1>1, <1>2, <1>3, <1>4 DEF RegisterTools

\* Starting: nothing is in flight that could hold an unregistered tool.
LEMMA StartStep ==
  ASSUME IInv, Start \/ StartFails
  PROVE  IInv'
<1>7. \A h \in Handler : call[h] = Idle
  BY DEF IInv, ToolsInv, CallsInv, Start, StartFails
<1>1. UNCHANGED <<config, clients, call, requests>>
  BY DEF Start, StartFails
<1>2. TypeOK'
  BY <1>1, RegisterToolsChecked DEF IInv, TypeOK, Start, StartFails
<1>3. ToolsInv'
  BY <1>1, RegisterToolsChecked DEF IInv, ToolsInv, Start, StartFails
<1>4. CacheInv'
  BY <1>1, CacheFrame DEF IInv
<1>5. CallsInv'
  BY <1>1, <1>7 DEF CallsInv, Guarded, Verify, FitsCall, IsMultiCluster, Target,
              activeCluster
<1>6. /\ ActsAsCaller' /\ ReachesNamedCluster'
      /\ NothingChangesWithoutOptIn' /\ OnlyAdmittedCallersReach'
  BY <1>1 DEF IInv, ActsAsCaller, ReachesNamedCluster, NothingChangesWithoutOptIn,
              OnlyAdmittedCallersReach, Guarded, IsMultiCluster, Target, activeCluster
<1> QED
  BY <1>2, <1>3, <1>4, <1>5, <1>6 DEF IInv

\* The gate.
LEMMA AdmitStep ==
  ASSUME IInv, NEW h \in Handler, NEW req \in Requests, withOIDCAuth(h, req)
  PROVE  IInv'
<1> DEFINE c == [at |-> "admitted", req |-> req,
                 auth |-> IF Guarded THEN req.token ELSE None]
<1>1. /\ call' = [call EXCEPT ![h] = c]
      /\ UNCHANGED <<config, server, tools, clients, requests>>
      /\ Guarded => req.token # None /\ Verify(req.token)
      /\ req.tool \in tools
  BY DEF withOIDCAuth, Goto
<1>2. req \in Request
  BY ConstantsAssumption
<1>3. c \in Call
  BY <1>2 DEF Call, Request
<1>4. TypeOK'
  BY <1>1, <1>3 DEF IInv, TypeOK
<1>5. CallsInv'
  BY <1>1, CallsFrame DEF IInv
<1> QED
  BY <1>1, <1>4, <1>5, RestFrame, CacheFrame DEF IInv

\* A call that ends without a client.
LEMMA EndStep ==
  ASSUME IInv, NEW h \in Handler, EndsWithoutClient(h)
  PROVE  IInv'
<1>1. /\ call' = [call EXCEPT ![h] = Idle]
      /\ UNCHANGED <<config, server, tools, clients, requests>>
  BY DEF EndsWithoutClient, Goto
<1>2. TypeOK'
  BY <1>1 DEF IInv, TypeOK, Call
<1>3. CallsInv'
  BY <1>1, CallsFrame DEF IInv
<1> QED
  BY <1>1, <1>2, <1>3, RestFrame, CacheFrame DEF IInv

\* A call that is given a client which fits it.
LEMMA ResolvedStep ==
  ASSUME IInv, NEW h \in Handler, call[h].at = "admitted", NEW client \in Client,
         FitsCall(client, call[h].req, call[h].auth), Resolved(h, client),
         UNCHANGED <<config, server, tools, requests>>,
         clients' \in [Cluster -> Client \cup {None}], CacheInv'
  PROVE  IInv'
<1> DEFINE c == [at |-> "resolved", req |-> call[h].req, auth |-> call[h].auth,
                 client |-> client]
<1>1. call' = [call EXCEPT ![h] = c]
  BY DEF Resolved, Goto
<1>2. /\ call[h].req \in Request /\ call[h].auth \in Token \cup {None}
      /\ call[h] # Idle
  BY CallFields DEF IInv
<1>3. c \in Call
  BY <1>2 DEF Call
<1>4. TypeOK'
  BY <1>1, <1>3 DEF IInv, TypeOK
<1>5. /\ c.req.tool \in tools
      /\ c.auth = (IF Guarded THEN c.req.token ELSE None)
      /\ Guarded => c.req.token # None /\ Verify(c.req.token)
  BY <1>2 DEF IInv, CallsInv
<1>6. CallsInv'
  BY <1>1, <1>5, CallsFrame DEF IInv
<1> QED
  BY <1>4, <1>6, RestFrame DEF IInv

\* In-cluster mode.
LEMMA ResolveInClusterStep ==
  ASSUME IInv, NEW h \in Handler, ResolveInCluster(h)
  PROVE  IInv'
<1> DEFINE client == newInClusterClientWithToken(call[h].auth)
<1>1. /\ Resolved(h, client) /\ call[h].at = "admitted" /\ ~IsMultiCluster
      /\ UNCHANGED <<config, server, tools, clients, requests>>
  BY DEF ResolveInCluster
<1>2. call[h].auth \in Token \cup {None}
  BY <1>1, CallFields DEF IInv
<1>3. client \in Client /\ FitsCall(client, call[h].req, call[h].auth)
  BY <1>1, <1>2, ApplyToken, InClusterConfigType
  DEF newInClusterClientWithToken, Client, FitsCall, InClusterConfig
<1>4. CacheInv' /\ clients' \in [Cluster -> Client \cup {None}]
  BY <1>1, CacheFrame DEF IInv, TypeOK
<1> HIDE DEF client
<1> QED
  BY <1>1, <1>3, <1>4, ResolvedStep

\* A client of its own for a call with a token.
LEMMA ForRequestStep ==
  ASSUME IInv, NEW h \in Handler, GetClusterForRequest(h)
  PROVE  IInv'
<1> DEFINE x == representativeContexts(Target(call[h].req.cluster))
           client == newClientForClusterWithToken(x, call[h].auth)
<1>1. /\ Resolved(h, client) /\ call[h].at = "admitted" /\ IsMultiCluster
      /\ x # None
      /\ UNCHANGED <<config, server, tools, clients, requests>>
  BY DEF GetClusterForRequest
<1>2. call[h].req \in Request /\ call[h].auth \in Token \cup {None}
  BY <1>1, CallFields DEF IInv
<1>3. client \in Client /\ FitsCall(client, call[h].req, call[h].auth)
  BY <1>1, <1>2, BuiltClient DEF IInv, TypeOK
<1>4. CacheInv' /\ clients' \in [Cluster -> Client \cup {None}]
  BY <1>1, CacheFrame DEF IInv, TypeOK
<1> HIDE DEF client, x
<1> QED
  BY <1>1, <1>3, <1>4, ResolvedStep

\* The cached client of a cluster fits an anonymous call for that cluster.
LEMMA CachedFits ==
  ASSUME IInv, IsMultiCluster, NEW req \in Request,
         Target(req.cluster) \in Cluster, clients[Target(req.cluster)] # None
  PROVE  FitsCall(clients[Target(req.cluster)], req, None)
<1> DEFINE name == Target(req.cluster)
<1>1. /\ clients[name].context # None
      /\ config.clusterOf[clients[name].context] = name
      /\ clients[name].rest = ToRESTConfig(clients[name].context)
  BY DEF IInv, CacheInv
<1> QED
  BY <1>1 DEF FitsCall, ToRESTConfig

\* The cache, built or used, without a token.
LEMMA GetClusterStep ==
  ASSUME IInv, NEW h \in Handler, GetCluster(h)
  PROVE  IInv'
<1> DEFINE name == Target(call[h].req.cluster)
           x == representativeContexts(name)
           built == newClientForClusterWithToken(x, None)
           client == IF clients[name] # None THEN clients[name] ELSE built
<1>1. /\ Resolved(h, client) /\ call[h].at = "admitted" /\ IsMultiCluster
      /\ x # None /\ call[h].auth = None
      /\ clients' = [clients EXCEPT ![name] = client]
      /\ UNCHANGED <<config, server, tools, requests>>
  BY DEF GetCluster
<1>2. call[h].req \in Request
  BY <1>1, CallFields DEF IInv
<1>3. /\ built \in Client /\ FitsCall(built, call[h].req, None)
      /\ name \in Cluster /\ x \in Context /\ config.clusterOf[x] = name
  BY <1>1, <1>2, BuiltClient DEF IInv, TypeOK
<1>4. /\ built.context = x /\ built.rest = ToRESTConfig(x) /\ x # None
  BY <1>1 DEF newClientForClusterWithToken, applyOIDCToken
<1>5. client \in Client
  BY <1>3 DEF IInv, TypeOK
<1>6. FitsCall(client, call[h].req, call[h].auth)
  BY <1>1, <1>2, <1>3, CachedFits
<1>7. /\ client.context # None
      /\ config.clusterOf[client.context] = name
      /\ client.rest = ToRESTConfig(client.context)
  BY <1>3, <1>4 DEF IInv, CacheInv
<1> HIDE DEF client, built, x, name
<1>8. clients' \in [Cluster -> Client \cup {None}]
  BY <1>1, <1>5 DEF IInv, TypeOK
<1>9. \A c \in Cluster : c # name => clients'[c] = clients[c]
  BY <1>1 DEF IInv, TypeOK
<1>10. clients'[name] = client
  BY <1>1, <1>3 DEF IInv, TypeOK
<1>11. CacheInv'
  BY <1>1, <1>7, <1>9, <1>10 DEF IInv, CacheInv, ToRESTConfig
<1> QED
  BY <1>1, <1>5, <1>6, <1>8, <1>11, ResolvedStep

\* A request to an API server, on behalf of a call the invariant describes.
LEMMA CallApiStep ==
  ASSUME IInv, NEW h \in Handler, CallApi(h)
  PROVE  IInv'
<1> DEFINE req == call[h].req
           client == call[h].client
           r == [req |-> req, rest |-> RestOf(req.tool, client)]
<1>1. /\ call[h].at = "resolved"
      /\ requests' = requests \cup {r}
      /\ call' = [call EXCEPT ![h] = Idle]
      /\ UNCHANGED <<config, server, tools, clients>>
  BY DEF CallApi, Goto
<1>2. /\ req \in Request /\ call[h].auth \in Token \cup {None}
      /\ client \in Client /\ call[h] # Idle
  BY <1>1, CallFields DEF IInv
<1>3. /\ req.tool \in tools
      /\ call[h].auth = (IF Guarded THEN req.token ELSE None)
      /\ Guarded => req.token # None /\ Verify(req.token)
      /\ FitsCall(client, req, call[h].auth)
  BY <1>1, <1>2 DEF IInv, CallsInv
<1>4. /\ r.rest \in RestConfig
      /\ IF IsMultiCluster
           THEN r.rest.server = Target(req.cluster) /\ r.rest.impersonates = config.as
           ELSE r.rest.server = "in-cluster"
  <2>1. CASE req.tool \notin helmTools
    BY <1>2, <1>3, <2>1 DEF RestOf, FitsCall, Client
  <2>2. CASE req.tool \in helmTools /\ IsMultiCluster
    <3>1. /\ client.context \in Context
          /\ config.clusterOf[client.context] = Target(req.cluster)
      BY <1>2, <1>3, <2>2 DEF FitsCall, Client
    <3>2. req.cluster \in Cluster \cup {None}
      BY <1>2 DEF Request
    <3>4. Target(req.cluster) \in Cluster \cup {None}
      BY <3>2, TargetType DEF IInv, TypeOK
    <3>5. Target(req.cluster) \in Cluster \cup {"in-cluster"}
      BY <1>2, <1>3, <2>2 DEF FitsCall, Client, RestConfig
    <3>3. Target(req.cluster) \in Cluster
      BY <3>4, <3>5, NoneAssumption
    <3> QED
      BY <2>2, <3>1, <3>3, RESTConfigType, NoneAssumption
      DEF RestOf, NewHelmClient, ToRESTConfig, IInv, TypeOK
  <2>3. CASE req.tool \in helmTools /\ ~IsMultiCluster
    BY <1>3, <2>3, InClusterConfigType
    DEF RestOf, NewHelmClient, FitsCall, InClusterConfig
  <2> QED
    BY <2>1, <2>2, <2>3
<1>5. Guarded /\ req.tool \notin helmTools => r.rest.presents = {req.token}
  BY <1>3 DEF RestOf, FitsCall
<1>6. req.tool \in Changing => config.allowDestructive
  BY <1>3 DEF IInv, ToolsInv
<1>7. r \in ApiRequest
  BY <1>2, <1>4 DEF ApiRequest
<1> HIDE DEF req, client
<1>8. r.req = req
  OBVIOUS
<1> HIDE DEF r
<1>9. TypeOK'
  BY <1>1, <1>7 DEF IInv, TypeOK, Call
<1>10. CallsInv'
  BY <1>1, CallsFrame DEF IInv
<1>11. ToolsInv' /\ CacheInv'
  BY <1>1, CacheFrame DEF IInv, ToolsInv
<1>12. ActsAsCaller'
  BY <1>1, <1>5, <1>8 DEF IInv, ActsAsCaller, Guarded
<1>13. ReachesNamedCluster'
  BY <1>1, <1>4, <1>8
  DEF IInv, ReachesNamedCluster, IsMultiCluster, Target, activeCluster
<1>14. NothingChangesWithoutOptIn'
  BY <1>1, <1>6, <1>8 DEF IInv, NothingChangesWithoutOptIn
<1>15. OnlyAdmittedCallersReach'
  BY <1>1, <1>3, <1>8 DEF IInv, OnlyAdmittedCallersReach, Guarded, Verify
<1> QED
  BY <1>9, <1>10, <1>11, <1>12, <1>13, <1>14, <1>15 DEF IInv

\* Every step keeps the invariant.
LEMMA StepIInv == IInv /\ [Next]_vars => IInv'
<1> SUFFICES ASSUME IInv, [Next]_vars PROVE IInv'
  OBVIOUS
<1>1. CASE Start \/ StartFails
  BY <1>1, StartStep
<1>2. CASE \E h \in Handler, req \in Requests : withOIDCAuth(h, req)
  BY <1>2, AdmitStep
<1>3. CASE \E h \in Handler : ResolveInCluster(h)
  BY <1>3, ResolveInClusterStep
<1>4. CASE \E h \in Handler : GetCluster(h)
  BY <1>4, GetClusterStep
<1>5. CASE \E h \in Handler : GetClusterForRequest(h)
  BY <1>5, ForRequestStep
<1>6. CASE \E h \in Handler : EndsWithoutClient(h)
  BY <1>6, EndStep
<1>7. CASE \E h \in Handler : CallApi(h)
  BY <1>7, CallApiStep
<1>8. CASE UNCHANGED vars
  <2>1. TypeOK' /\ UNCHANGED <<config, server, tools, clients, call, requests>>
    BY <1>8 DEF IInv, TypeOK, vars
  <2>2. CallsInv'
    BY <2>1 DEF IInv, CallsInv, Guarded, Verify, FitsCall, IsMultiCluster, Target,
                activeCluster
  <2> QED
    BY <2>1, <2>2, RestFrame, CacheFrame DEF IInv
<1> QED
  BY <1>1, <1>2, <1>3, <1>4, <1>5, <1>6, <1>7, <1>8 DEF Next

-----------------------------------------------------------------------------
(* The theorems.                                                           *)

\* The strengthening: every call in flight and every cached client is what
\* the gate and the kubeconfig say it must be (all of multicluster.go and
\* auth.go, and the registration of tools).
THEOREM InductiveInvariant == Spec => []IInv
BY InitIInv, StepIInv, PTL DEF Spec

\* State and history of the server always have their declared shape.
THEOREM TypeCorrect == Spec => []TypeOK
<1>1. IInv => TypeOK
  BY DEF IInv
<1> QED
  BY <1>1, InductiveInvariant, PTL

\* Behind the gate, tools other than helm's act as their caller and as
\* nobody else, for any number of callers, clusters and calls in flight
\* (applyOIDCToken, GetClusterForRequest).
THEOREM CallerIdentity == Spec => []ActsAsCaller
<1>1. IInv => ActsAsCaller
  BY DEF IInv
<1> QED
  BY <1>1, InductiveInvariant, PTL

\* Every request reaches the cluster its call names (ResolveCluster, the
\* pinned ConfigFlags, NewHelmClient).
THEOREM ClusterRouting == Spec => []ReachesNamedCluster
<1>1. IInv => ReachesNamedCluster
  BY DEF IInv
<1> QED
  BY <1>1, InductiveInvariant, PTL

\* Nothing that exists is changed without --allow-destructive (register.go).
THEOREM OptIn == Spec => []NothingChangesWithoutOptIn
<1>1. IInv => NothingChangesWithoutOptIn
  BY DEF IInv
<1> QED
  BY <1>1, InductiveInvariant, PTL

\* Only callers the verifier admits reach a cluster (withOIDCAuth, Verify).
THEOREM Admission == Spec => []OnlyAdmittedCallersReach
<1>1. IInv => OnlyAdmittedCallersReach
  BY DEF IInv
<1> QED
  BY <1>1, InductiveInvariant, PTL

\* The shared cache holds no caller's token (GetCluster).
THEOREM AnonymousCache == Spec => []CacheIsAnonymous
<1>1. IInv => CacheIsAnonymous
  <2> SUFFICES ASSUME IInv, NEW c \in Cluster, clients[c] # None
               PROVE  /\ clients[c].rest.server = c
                      /\ clients[c].rest.presents \cap Token = {}
    BY DEF CacheIsAnonymous
  <2>1. /\ clients[c].context # None
        /\ config.clusterOf[clients[c].context] = c
        /\ clients[c].rest = ToRESTConfig(clients[c].context)
    BY DEF IInv, CacheInv
  <2>2. clients[c].context \in Context
    BY <2>1 DEF IInv, TypeOK, Client
  <2>3. config.credentials[clients[c].context] \subseteq Credential
    BY <2>2 DEF IInv, TypeOK, Config
  <2> QED
    BY <2>1, <2>3, NoneAssumption DEF ToRESTConfig
<1> QED
  BY <1>1, InductiveInvariant, PTL

=============================================================================
