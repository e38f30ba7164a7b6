----------------------------- MODULE ToolServer -----------------------------
(***************************************************************************)
(* The way of a tool call through the server: startup and the registration *)
(* of tools (internal/tools/register.go), the bearer-token gate of the     *)
(* HTTP transport (cmd/mimiops-mcp/server_oidc.go, internal/oidc), the     *)
(* resolution of the target cluster with its cache of clients              *)
(* (internal/k8s, internal/tools/clusters), and the requests that the tool *)
(* then makes to a Kubernetes API server.                                  *)
(*                                                                         *)
(* Calls are served concurrently: call[h] is the call goroutine h works    *)
(* on, and other calls move between its steps.  A rest.Config is the API   *)
(* server it names and the set of credentials it presents.  What a tool    *)
(* does with its client is the subject of the other modules; here it makes *)
(* one request, and requests remembers on whose behalf and with what.      *)
(***************************************************************************)
EXTENDS Naturals

CONSTANTS
  Context,   \* context names of the kubeconfig, by their rank in sort.Strings
  Cluster,   \* cluster names of the kubeconfig
  Token,     \* bearer tokens that callers present
  Domain,    \* email domains
  Claims,    \* what go-oidc says of each token, and the claims it carries
  Handler,   \* goroutines serving calls: bounds the calls in flight
  Configs,   \* the configurations the server is started with
  Requests,  \* the calls that arrive
  None       \* an absent token, cluster name, context, domain or cache entry

-----------------------------------------------------------------------------
(* The catalog of register.go, by the function that registers each tool.   *)

coreTools ==
  {"clusters_describe", "pods_list", "pods_describe", "pods_log",
   "jobs_list", "jobs_describe", "jobs_log", "jobs_create",
   "cronjobs_list", "cronjobs_describe", "nodes_list", "nodes_describe",
   "namespaces_list", "namespaces_describe",
   "resourcequotas_list", "resourcequotas_describe",
   "limitranges_list", "limitranges_describe", "storageclasses_list",
   "persistentvolumeclaims_list", "persistentvolumeclaims_describe",
   "priorityclasses_list", "events_get",
   "workloads_list", "workloads_describe",
   "horizontalpodautoscaler_list", "horizontalpodautoscaler_describe",
   "services_list", "services_describe"}

destructiveCoreTools ==
  {"pods_delete", "jobs_delete", "cronjobs_suspend", "cronjobs_resume",
   "workloads_scale", "workloads_restart"}

helmTools == {"helm_list", "helm_status", "helm_rollback"}

fluxLists ==
  {"flux_gitrepositories_list", "flux_gitrepositories_describe",
   "flux_ocirepositories_list", "flux_ocirepositories_describe",
   "flux_helmreleases_list", "flux_helmreleases_describe",
   "flux_kustomizations_list", "flux_kustomizations_describe"}

fluxWrites == {"flux_reconcile", "flux_reconciliation"}

Tool == coreTools \cup destructiveCoreTools \cup {"clusters_list"}
        \cup helmTools \cup fluxLists \cup fluxWrites
        \cup {"karpenter_nodepools_list"}

\* The tools whose handlers delete or change an object that exists.
Changing == destructiveCoreTools \cup {"helm_rollback"} \cup fluxWrites

extensionsRegistry == {"helm", "fluxcd", "karpenter"}

-----------------------------------------------------------------------------
(* Values.                                                                 *)

\* Credentials of the server itself: those of a kubeconfig user, and the
\* token of the pod's service account.
Credential ==
  {"token", "certificate", "basic", "authProvider", "exec", "serviceAccount"}

RestConfig == [server : Cluster \cup {"in-cluster"},
               presents : SUBSET (Token \cup Credential),
               impersonates : BOOLEAN]

\* k8s.Client: its rest.Config, and the context its ConfigFlags are pinned to.
Client == [context : Context \cup {None}, rest : RestConfig]

ClaimRecord == [valid : BOOLEAN, email : Domain \cup {None}, verified : BOOLEAN]

\* A call as it arrives.
Request == [token : Token \cup {None}, tool : Tool, cluster : Cluster \cup {None}]

Config == [transport : {"stdio", "http"},
           issuer : BOOLEAN,                      \* --oidc-issuer is set
           domains : SUBSET Domain,               \* --oidc-email-domains
           extensions : SUBSET (extensionsRegistry \cup {"all", "unknown"}),
           allowDestructive : BOOLEAN,
           as : BOOLEAN,                          \* --as is set
           kubeconfig : BOOLEAN,                  \* it names a cluster
           clusterOf : [Context -> Cluster \cup {None}],
           current : Context \cup {None},         \* raw.CurrentContext
           credentials : [Context -> SUBSET (Credential \ {"serviceAccount"})]]

Idle == [at |-> "idle"]

Call == {Idle}
        \cup [at : {"admitted"}, req : Request, auth : Token \cup {None}]
        \cup [at : {"resolved"}, req : Request, auth : Token \cup {None},
              client : Client]

ApiRequest == [req : Request, rest : RestConfig]

ASSUME ConstantsAssumption ==
  /\ Context \subseteq Nat
  /\ Claims \in [Token -> ClaimRecord]
  /\ Configs \subseteq Config
  /\ Requests \subseteq Request
  /\ "in-cluster" \notin Cluster

\* Contexts are finitely many: some of them have a first and a last.
ASSUME SortedContexts ==
  \A S \in SUBSET Context : S # {} =>
    /\ \E x \in S : \A y \in S : x <= y
    /\ \E x \in S : \A y \in S : y <= x

ASSUME NoneAssumption ==
  /\ None \notin Context /\ None \notin Cluster /\ None \notin Token
  /\ None \notin Domain /\ None \notin Client /\ None # "in-cluster"
  /\ Token \cap Credential = {}

-----------------------------------------------------------------------------
VARIABLES
  config,    \* the flags and the kubeconfig, read once
  server,    \* "starting", "serving" or "failed"
  tools,     \* the tools registered with the MCP server
  clients,   \* MultiClusterClient.clients
  call,      \* the calls in flight
  requests   \* history: the API requests made, each with the call behind it

vars == <<config, server, tools, clients, call, requests>>

Init ==
  /\ config \in Configs
  /\ server = "starting"
  /\ tools = {}
  /\ clients = [c \in Cluster |-> None]
  /\ call = [h \in Handler |-> Idle]
  /\ requests = {}

-----------------------------------------------------------------------------
(* Startup.                                                                *)

IsMultiCluster == config.kubeconfig

registerCore ==
  coreTools \cup (IF IsMultiCluster THEN {"clusters_list"} ELSE {})
            \cup (IF config.allowDestructive THEN destructiveCoreTools ELSE {})

registerHelm ==
  {"helm_list", "helm_status"}
    \cup (IF config.allowDestructive THEN {"helm_rollback"} ELSE {})

\* Mutant of registerFluxCD: the writing tools are not held back.
registerAllOfFluxCD == fluxLists \cup fluxWrites

registerFluxCD ==
  fluxLists \cup (IF config.allowDestructive THEN fluxWrites ELSE {})

registerKarpenter == {"karpenter_nodepools_list"}

\* "all" stands alone; an unknown name is an error.
ResolveExtensions(raw) == IF raw = {"all"} THEN extensionsRegistry ELSE raw

RegisterTools ==
  LET names == ResolveExtensions(config.extensions) IN
    registerCore
      \cup (IF "helm" \in names THEN registerHelm ELSE {})
      \cup (IF "fluxcd" \in names THEN registerFluxCD ELSE {})
      \cup (IF "karpenter" \in names THEN registerKarpenter ELSE {})

Start ==
  /\ server = "starting"
  /\ ResolveExtensions(config.extensions) \subseteq extensionsRegistry
  /\ server' = "serving"
  /\ tools' = RegisterTools
  /\ UNCHANGED <<config, clients, call, requests>>

\* An unknown extension, or a provider whose discovery fails.
StartFails ==
  /\ server = "starting"
  /\ \/ ~(ResolveExtensions(config.extensions) \subseteq extensionsRegistry)
     \/ config.transport = "http" /\ config.issuer
  /\ server' = "failed"
  /\ UNCHANGED <<config, tools, clients, call, requests>>

-----------------------------------------------------------------------------
(* The gate.  Only the HTTP transport has one, and only with an issuer.    *)

Guarded == config.transport = "http" /\ config.issuer

\* Mutant of Verify: an unverified email counts.
VerifyAnyEmail(token) ==
  /\ Claims[token].valid
  /\ config.domains # {} => Claims[token].email \in config.domains

\* oidc.Verifier.Verify: go-oidc's verdict, then the email domain.
Verify(token) ==
  /\ Claims[token].valid
  /\ config.domains # {} =>
       /\ Claims[token].email # None
       /\ Claims[token].verified
       /\ Claims[token].email \in config.domains

Goto(h, c) == call' = [call EXCEPT ![h] = c]

\* withOIDCAuth, then the dispatch to a registered tool.  A request that is
\* turned away (401, unknown tool) leaves no trace.
withOIDCAuth(h, req) ==
  /\ server = "serving"
  /\ call[h] = Idle
  /\ Guarded => req.token # None /\ Verify(req.token)
  /\ req.tool \in tools
  /\ Goto(h, [at |-> "admitted", req |-> req,
              auth |-> IF Guarded THEN req.token ELSE None])
  /\ UNCHANGED <<config, server, tools, clients, requests>>

-----------------------------------------------------------------------------
(* Clusters and contexts.                                                  *)

First(S) == CHOOSE x \in S : \A y \in S : x <= y
Last(S)  == CHOOSE x \in S : \A y \in S : y <= x

ContextsOf(c) == {x \in Context : config.clusterOf[x] = c}

activeCluster ==
  IF config.current = None THEN None ELSE config.clusterOf[config.current]

\* The loop over the sorted names: the first context of a cluster stays,
\* except for the active cluster, where every later one replaces it.
representativeContexts(c) ==
  IF c = None \/ ContextsOf(c) = {} THEN None
  ELSE IF c = activeCluster THEN Last(ContextsOf(c)) ELSE First(ContextsOf(c))

\* ResolveCluster reads the parameter only where it is exposed; an empty
\* name then means the active cluster.
Named(req) == IF IsMultiCluster THEN req.cluster ELSE None
Target(name) == IF name = None THEN activeCluster ELSE name

\* Mutant of ToRESTConfig: the context is not pinned.
ToUnpinnedRESTConfig(x) ==
  LET y == IF config.current = None THEN x ELSE config.current IN
    [server |-> config.clusterOf[y], presents |-> config.credentials[y],
     impersonates |-> config.as]

\* ConfigFlags.ToRESTConfig with Context pinned to x.
ToRESTConfig(x) ==
  [server |-> config.clusterOf[x], presents |-> config.credentials[x],
   impersonates |-> config.as]

InClusterConfig ==
  [server |-> "in-cluster", presents |-> {"serviceAccount"},
   impersonates |-> FALSE]

\* Mutant of applyOIDCToken: the client certificate stays.
applyOIDCTokenOnly(rest, auth) ==
  IF auth = None THEN rest
  ELSE [rest EXCEPT !.presents = {auth} \cup (@ \cap {"certificate"})]

\* The token replaces whatever else the rest.Config would present.
applyOIDCToken(rest, auth) ==
  IF auth = None THEN rest ELSE [rest EXCEPT !.presents = {auth}]

newClientForClusterWithToken(x, auth) ==
  [context |-> x, rest |-> applyOIDCToken(ToRESTConfig(x), auth)]

newInClusterClientWithToken(auth) ==
  [context |-> None, rest |-> applyOIDCToken(InClusterConfig, auth)]

Resolved(h, client) ==
  Goto(h, [at |-> "resolved", req |-> call[h].req, auth |-> call[h].auth,
           client |-> client])

\* In-cluster mode: the one client, or a copy of it with the token.
ResolveInCluster(h) ==
  /\ call[h].at = "admitted" /\ call[h].req.tool # "clusters_list"
  /\ ~IsMultiCluster
  /\ Resolved(h, newInClusterClientWithToken(call[h].auth))
  /\ UNCHANGED <<config, server, tools, clients, requests>>

\* GetCluster, without a token: under the mutex, the client of the cluster
\* is taken from the cache or built and put there.
GetCluster(h) ==
  LET name == Target(call[h].req.cluster)
      x == representativeContexts(name)
      client == IF clients[name] # None THEN clients[name]
                ELSE newClientForClusterWithToken(x, None)
  IN  /\ call[h].at = "admitted" /\ call[h].req.tool # "clusters_list"
      /\ IsMultiCluster /\ call[h].auth = None
      /\ x # None
      /\ Resolved(h, client)
      /\ clients' = [clients EXCEPT ![name] = client]
      /\ UNCHANGED <<config, server, tools, requests>>

\* Mutant of GetClusterForRequest: the client goes through the cache.
GetCachedForRequest(h) ==
  LET name == Target(call[h].req.cluster)
      x == representativeContexts(name)
      client == IF clients[name] # None THEN clients[name]
                ELSE newClientForClusterWithToken(x, call[h].auth)
  IN  /\ call[h].at = "admitted" /\ call[h].req.tool # "clusters_list"
      /\ IsMultiCluster /\ call[h].auth # None
      /\ x # None
      /\ Resolved(h, client)
      /\ clients' = [clients EXCEPT ![name] = client]
      /\ UNCHANGED <<config, server, tools, requests>>

\* GetClusterForRequest, with a token: a client of its own for every call.
GetClusterForRequest(h) ==
  LET name == Target(call[h].req.cluster)
      x == representativeContexts(name)
  IN  /\ call[h].at = "admitted" /\ call[h].req.tool # "clusters_list"
      /\ IsMultiCluster /\ call[h].auth # None
      /\ x # None
      /\ Resolved(h, newClientForClusterWithToken(x, call[h].auth))
      /\ UNCHANGED <<config, server, tools, clients, requests>>

\* clusters_list answers from the kubeconfig.  Any other call ends here when
\* its cluster is unknown or its client cannot be built.
EndsWithoutClient(h) ==
  /\ call[h].at = "admitted"
  /\ Goto(h, Idle)
  /\ UNCHANGED <<config, server, tools, clients, requests>>

-----------------------------------------------------------------------------
(* What the tool does with its client.                                     *)

\* NewHelmClient takes the ConfigFlags of the client and builds its own
\* rest.Config from them.
NewHelmClient(client) ==
  IF client.context = None THEN InClusterConfig ELSE ToRESTConfig(client.context)

\* Helm tools go through NewHelmClient; the others use the client, its lazy
\* metrics clients, or a dynamic client made from its rest.Config.
RestOf(tool, client) ==
  IF tool \in helmTools THEN NewHelmClient(client) ELSE client.rest

CallApi(h) ==
  /\ call[h].at = "resolved"
  /\ requests' = requests \cup
       {[req |-> call[h].req, rest |-> RestOf(call[h].req.tool, call[h].client)]}
  /\ Goto(h, Idle)
  /\ UNCHANGED <<config, server, tools, clients>>

-----------------------------------------------------------------------------
Next ==
  \/ Start \/ StartFails
  \/ \E h \in Handler :
       \/ \E req \in Requests : withOIDCAuth(h, req)
       \/ ResolveInCluster(h) \/ GetCluster(h) \/ GetClusterForRequest(h)
       \/ EndsWithoutClient(h)
       \/ CallApi(h)

Spec == Init /\ [][Next]_vars

-----------------------------------------------------------------------------
(* Properties.                                                             *)

\* Configuration, tools, cache, calls and history have the declared shape.
TypeOK ==
  /\ config \in Config
  /\ server \in {"starting", "serving", "failed"}
  /\ tools \subseteq Tool
  /\ clients \in [Cluster -> Client \cup {None}]
  /\ call \in [Handler -> Call]
  /\ requests \subseteq ApiRequest

\* With an issuer configured, every API request of the core, FluxCD and
\* Karpenter tools presents the token of the call it serves and nothing else:
\* neither a credential of the server nor the token of another caller
\* ("authenticates the caller by the forwarded token alone").
ActsAsCaller ==
  \A r \in requests :
    Guarded /\ r.req.tool \notin helmTools => r.rest.presents = {r.req.token}

\* A request goes to the cluster its call names, or to that of the current
\* context when it names none, helm's own clients included; and from a
\* kubeconfig it carries --as.
ReachesNamedCluster ==
  \A r \in requests :
    IF IsMultiCluster
      THEN r.rest.server = Target(r.req.cluster) /\ r.rest.impersonates = config.as
      ELSE r.rest.server = "in-cluster"

\* Without --allow-destructive no extension and no core tool deletes or
\* changes what exists (jobs_create, which adds a Job, is always registered).
NothingChangesWithoutOptIn ==
  \A r \in requests : r.req.tool \in Changing => config.allowDestructive

\* Behind the gate only callers whose token is valid and, where domains are
\* configured, carries a verified email in one of them, reach a cluster.
OnlyAdmittedCallersReach ==
  \A r \in requests : Guarded =>
    LET claims == Claims[r.req.token] IN
    /\ r.req.token # None /\ claims.valid
    /\ config.domains # {} => claims.verified /\ claims.email \in config.domains

\* The client cached for a cluster talks to that cluster, as its kubeconfig
\* user: no caller's token is ever kept in the shared cache.
CacheIsAnonymous ==
  \A c \in Cluster : clients[c] # None =>
    /\ clients[c].rest.server = c
    /\ clients[c].rest.presents \cap Token = {}

\* docs/oidc.md: ResolveCluster is "the single choke point through which
\* every tool obtains its cluster client", so helm tools, too, act with the
\* caller's token.
HelmActsAsCaller ==
  \A r \in requests :
    Guarded /\ r.req.tool \in helmTools => r.rest.presents = {r.req.token}

-----------------------------------------------------------------------------
(* The inductive invariant.                                                *)

\* What a client built for this call must be.
FitsCall(client, req, auth) ==
  /\ IsMultiCluster =>
       /\ client.context # None
       /\ config.clusterOf[client.context] = Target(req.cluster)
       /\ client.rest.server = Target(req.cluster)
       /\ client.rest.impersonates = config.as
  /\ ~IsMultiCluster => client.context = None /\ client.rest.server = "in-cluster"
  /\ auth # None => client.rest.presents = {auth}

CacheInv ==
  \A c \in Cluster : clients[c] # None =>
    /\ clients[c].context # None
    /\ config.clusterOf[clients[c].context] = c
    /\ clients[c].rest = ToRESTConfig(clients[c].context)

\* A call in flight is one the gate let through, with the client it needs.
CallsInv ==
  \A h \in Handler : call[h] # Idle =>
    /\ call[h].req.tool \in tools
    /\ call[h].auth = (IF Guarded THEN call[h].req.token ELSE None)
    /\ Guarded => call[h].req.token # None /\ Verify(call[h].req.token)
    /\ call[h].at = "resolved" =>
         FitsCall(call[h].client, call[h].req, call[h].auth)

\* Only a server that has started has tools, and none it must not have.
ToolsInv == /\ server = "starting" => tools = {}
            /\ tools \cap Changing # {} => config.allowDestructive

IInv == /\ TypeOK /\ ToolsInv /\ CacheInv /\ CallsInv
        /\ ActsAsCaller /\ ReachesNamedCluster
        /\ NothingChangesWithoutOptIn /\ OnlyAdmittedCallersReach

=============================================================================
