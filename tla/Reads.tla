------------------------------- MODULE Reads -------------------------------
(***************************************************************************)
(* The tools that only read: lists, descriptions and logs, each of which   *)
(* puts its answer together from one or more requests to the API server.   *)
(* Between two requests objects come, go and come back under the same      *)
(* name, and each request may fail.  A tool is given by its plan: what it  *)
(* reads, in which order, and what becomes of the call if it cannot.       *)
(*                                                                         *)
(* These calls neither share nor leave anything behind, so one is enough.  *)
(* Objects have no content but their identity.                             *)
(***************************************************************************)
EXTENDS Naturals, Sequences, FiniteSets

CONSTANTS
  Requests,   \* the calls that arrive
  MaxChanges, \* bound: objects that come or go during the call
  None        \* no object

ASSUME ChangesAssumption == MaxChanges \in Nat

-----------------------------------------------------------------------------
(* Requests: every tool, with the arguments that change what it does.      *)

lists ==
  {"pods_list", "jobs_list", "cronjobs_list", "services_list", "nodes_list",
   "namespaces_list", "persistentvolumeclaims_list", "horizontalpodautoscaler_list",
   "limitranges_list", "resourcequotas_list", "storageclasses_list",
   "priorityclasses_list", "events_get", "flux_gitrepositories_list",
   "flux_ocirepositories_list", "flux_helmreleases_list", "flux_kustomizations_list",
   "helm_list", "karpenter_nodepools_list", "clusters_describe"}

named ==
  {"limitranges_describe", "resourcequotas_describe", "flux_gitrepositories_describe",
   "flux_ocirepositories_describe", "flux_helmreleases_describe",
   "flux_kustomizations_describe", "namespaces_describe",
   "horizontalpodautoscaler_describe", "services_describe",
   "persistentvolumeclaims_describe", "nodes_describe", "pods_describe",
   "cronjobs_describe", "workloads_describe", "pods_log"}

Request ==
  [tool : lists \cup named]
  \cup [tool : {"workloads_list"},
        kind : {None, "deployments", "statefulsets", "daemonsets"}]
  \cup [tool : {"jobs_describe"}, selector : {"uid", "labels"}]
  \cup [tool : {"jobs_log"}, all_pods : BOOLEAN]

ASSUME RequestsAssumption == Requests \subseteq Request

-----------------------------------------------------------------------------
(* Plans.  If the read fails, "required" fails the call, "ifServed" too    *)
(* unless the cluster does not know that kind of object, "optional" goes   *)
(* on without it, and "last" answers with what there is by then.           *)

Required(c) == [of |-> c, or |-> "required"]
IfServed(c) == [of |-> c, or |-> "ifServed"]
Optional(c) == [of |-> c, or |-> "optional"]
Last(c)     == [of |-> c, or |-> "last"]

\* Averages from custom.metrics.k8s.io or else values from metrics.k8s.io.
Cpu == Optional("cpu")
Memory == Optional("memory")
Metrics == Optional("metrics")

pods_list == <<Required("pods")>>
jobs_list == <<Required("jobs")>>
cronjobs_list == <<Required("cronjobs")>>
services_list == <<Required("services")>>
nodes_list == <<Required("nodes")>>
namespaces_list == <<Required("namespaces")>>
persistentvolumeclaims_list == <<Required("persistentvolumeclaims")>>
horizontalpodautoscaler_list == <<Required("horizontalpodautoscalers")>>
limitranges_list == <<Required("limitranges")>>
resourcequotas_list == <<Required("resourcequotas")>>
storageclasses_list == <<Required("storageclasses")>>
priorityclasses_list == <<Required("priorityclasses")>>
events_get == <<Required("events")>>
flux_gitrepositories_list == <<Required("gitrepositories")>>
flux_ocirepositories_list == <<Required("ocirepositories")>>
flux_helmreleases_list == <<Required("helmreleases")>>
flux_kustomizations_list == <<Required("kustomizations")>>
helm_list == <<Required("releases")>>

\* Mutant: a failing list is taken for an empty one.
anyWorkloads ==
  <<Optional("deployments"), Optional("statefulsets"), Optional("daemonsets")>>

listAllWorkloads ==
  <<IfServed("deployments"), IfServed("statefulsets"), IfServed("daemonsets")>>

workloads_list(kind) ==
  IF kind = None THEN listAllWorkloads ELSE <<Required(kind)>>

\* The second request is left out if the first finds nothing.
karpenter_nodepools_list == <<Required("nodepools"), Required("nodes")>>

clusters_describe ==
  <<Required("discovery"), Required("namespaces"), Required("nodes")>>

limitranges_describe == <<Required("object")>>
resourcequotas_describe == <<Required("object")>>
flux_gitrepositories_describe == <<Required("object")>>
flux_ocirepositories_describe == <<Required("object")>>
flux_helmreleases_describe == <<Required("object")>>
flux_kustomizations_describe == <<Required("object")>>

namespaces_describe ==
  <<Required("object"), Optional("quota"), Optional("limitrange")>>
horizontalpodautoscaler_describe == <<Required("object"), Last("events")>>
services_describe == <<Required("object"), Last("endpointslices"), Last("events")>>
persistentvolumeclaims_describe ==
  <<Required("object"), Optional("pods"), Last("events")>>
nodes_describe ==
  <<Required("object"), Optional("pods"), Cpu, Memory, Metrics, Last("events")>>
pods_describe ==
  <<Required("object"), Cpu, Memory, Metrics, Optional("owner"), Last("events")>>
jobs_describe == <<Required("object"), Cpu, Memory, Metrics, Required("pods")>>
cronjobs_describe == <<Required("object"), Cpu, Memory, Metrics>>
\* The kind was resolved before, as in Workloads.
workloads_describe ==
  <<Required("object"), Cpu, Memory, Metrics, Optional("pods"), Last("events")>>

pods_log == <<Required("object"), Required("log")>>
jobs_log == <<Required("object"), Required("pods"), Required("log")>>

Plan(r) ==
  IF r.tool = "workloads_list" THEN workloads_list(r.kind) ELSE
  [pods_list |-> pods_list, jobs_list |-> jobs_list, cronjobs_list |-> cronjobs_list,
   services_list |-> services_list, nodes_list |-> nodes_list,
   namespaces_list |-> namespaces_list,
   persistentvolumeclaims_list |-> persistentvolumeclaims_list,
   horizontalpodautoscaler_list |-> horizontalpodautoscaler_list,
   limitranges_list |-> limitranges_list, resourcequotas_list |-> resourcequotas_list,
   storageclasses_list |-> storageclasses_list,
   priorityclasses_list |-> priorityclasses_list, events_get |-> events_get,
   flux_gitrepositories_list |-> flux_gitrepositories_list,
   flux_ocirepositories_list |-> flux_ocirepositories_list,
   flux_helmreleases_list |-> flux_helmreleases_list,
   flux_kustomizations_list |-> flux_kustomizations_list,
   helm_list |-> helm_list,
   karpenter_nodepools_list |-> karpenter_nodepools_list,
   clusters_describe |-> clusters_describe,
   limitranges_describe |-> limitranges_describe,
   resourcequotas_describe |-> resourcequotas_describe,
   flux_gitrepositories_describe |-> flux_gitrepositories_describe,
   flux_ocirepositories_describe |-> flux_ocirepositories_describe,
   flux_helmreleases_describe |-> flux_helmreleases_describe,
   flux_kustomizations_describe |-> flux_kustomizations_describe,
   namespaces_describe |-> namespaces_describe,
   horizontalpodautoscaler_describe |-> horizontalpodautoscaler_describe,
   services_describe |-> services_describe,
   persistentvolumeclaims_describe |-> persistentvolumeclaims_describe,
   nodes_describe |-> nodes_describe, pods_describe |-> pods_describe,
   jobs_describe |-> jobs_describe, cronjobs_describe |-> cronjobs_describe,
   workloads_describe |-> workloads_describe,
   pods_log |-> pods_log, jobs_log |-> jobs_log][r.tool]

Collection ==
  {"object", "pods", "jobs", "cronjobs", "services", "nodes", "namespaces",
   "persistentvolumeclaims", "horizontalpodautoscalers", "limitranges",
   "resourcequotas", "storageclasses", "priorityclasses", "events",
   "gitrepositories", "ocirepositories", "helmreleases", "kustomizations", "releases",
   "deployments", "statefulsets", "daemonsets", "nodepools", "discovery",
   "quota", "limitrange", "endpointslices", "owner", "log"}

\* What a name refers to: one object at a time.
single == {"object", "quota", "limitrange", "owner"}

\* Mutant: the first object instead of the newest.
First(objects) == CHOOSE o \in objects : \A p \in objects : o.uid <= p.uid

Newest(objects) == CHOOSE o \in objects : \A p \in objects : p.uid <= o.uid

\* A uid tells when an object was created, and an owner, as that of a Job's pod, is
\* an object that the described name referred to, or somebody else: None.
Uid == 1..(2 + MaxChanges)
Object == [uid : Uid, owner : Uid \cup {None}]

-----------------------------------------------------------------------------
VARIABLES
  stored,     \* what the API server holds
  served,     \* the kinds of objects that it knows
  instances,  \* uids of what the described name has referred to: a ghost
  throughout, \* what has been there since the call began: a ghost
  changes,
  request, at, \* the call, and how it stands
  step,        \* the read it is at
  described,   \* the object that it has read
  cpu,         \* the first average, while the second is read
  usage, got   \* the parts of its answer

cluster == <<stored, served, instances, throughout, changes>>
vars == <<cluster, request, at, step, described, cpu, usage, got>>

Section == Plan(request)[step].of
Reading(sections) == at = "reading" /\ Section \in sections

\* The collections that matter to the call.
collections ==
  LET read == {Plan(request)[n].of : n \in DOMAIN Plan(request)}
  IN  (read \ {"cpu", "memory", "metrics", "log"})
      \cup IF "metrics" \in read THEN {"pods"} ELSE {}

Init ==
  /\ request \in Requests
  /\ at = "reading" /\ step = 1
  /\ described = None /\ cpu = None /\ usage = None
  /\ got = [c \in Collection |-> {}]
  /\ served \in {Collection} \cup {Collection \ {c} : c \in collections \ single}
  /\ \E owner \in {1, None} :
       stored = [c \in Collection |->
                   IF c \notin collections \cap served THEN {}
                   ELSE {[uid |-> 1, owner |-> 1]}
                        \cup (IF c = "pods" THEN {[uid |-> 2, owner |-> owner]} ELSE {})]
  /\ throughout = stored
  /\ instances = {1} /\ changes = 0

-----------------------------------------------------------------------------
(* The cluster meanwhile.                                                  *)

Comes(c) ==
  LET uid == changes + 3
      owners == IF c = "object" THEN {uid}
                ELSE {o.uid : o \in stored["object"]} \cup {None}
  IN  /\ c \in single => stored[c] = {}
      /\ \E owner \in owners :
           stored' = [stored EXCEPT ![c] = @ \cup {[uid |-> uid, owner |-> owner]}]
      /\ instances' = IF c = "object" THEN instances \cup {uid} ELSE instances
      /\ UNCHANGED throughout

Leaves(c) ==
  \E o \in stored[c] :
    /\ stored' = [stored EXCEPT ![c] = @ \ {o}]
    /\ throughout' = [throughout EXCEPT ![c] = @ \ {o}]
    /\ UNCHANGED instances

Change ==
  /\ at = "reading"
  /\ changes < MaxChanges
  /\ changes' = changes + 1
  /\ \E c \in collections \cap served : Comes(c) \/ Leaves(c)
  /\ UNCHANGED <<served, request, at, step, described, cpu, usage, got>>

-----------------------------------------------------------------------------
(* Steps of the call.                                                      *)

Continue(n) ==
  /\ step' = n
  /\ at' = IF n > Len(Plan(request)) THEN "answered" ELSE "reading"

Fail == at' = "failed" /\ UNCHANGED step

ByUid == \/ request.tool = "jobs_describe" /\ request.selector = "uid"
         \/ request.tool = "cronjobs_describe"

\* A Job's selector is the uid of the Job, unless its author wrote it; a CronJob's
\* pods are those of its Jobs; other selectors are labels.
Selected(c) ==
  IF c = "pods" /\ ByUid THEN {o \in stored[c] : o.owner = described} ELSE stored[c]

Found(c) == c \in served /\ (c \in single => stored[c] # {})

Read ==
  /\ Reading(Collection \ {"log"})
  /\ Found(Section)
  /\ got' = [got EXCEPT ![Section] = Selected(Section)]
  /\ described' = IF Section = "object" THEN Newest(stored["object"]).uid ELSE described
  /\ Continue(IF Section = "nodepools" /\ stored[Section] = {} THEN step + 2
              ELSE step + 1)
  /\ UNCHANGED <<cluster, request, cpu, usage>>

\* The object, or this kind of objects, is not there.
NotFound ==
  /\ Reading(Collection \ {"log"})
  /\ ~Found(Section)
  /\ IF Plan(request)[step].or = "required" THEN Fail ELSE Continue(step + 1)
  /\ UNCHANGED <<cluster, request, described, cpu, usage, got>>

RequestFails ==
  /\ Reading(Collection \cup {"metrics"})
  /\ CASE Plan(request)[step].or = "optional" -> Continue(step + 1)
       [] Plan(request)[step].or = "last" -> at' = "answered" /\ UNCHANGED step
       [] OTHER -> Fail
  /\ UNCHANGED <<cluster, request, described, cpu, usage, got>>

-----------------------------------------------------------------------------
(* Usage.                                                                  *)

\* An average is of an object that has, or had, the name; the adapter may say which.
Average == [of : Uid, named : BOOLEAN, stale : BOOLEAN]

\* Mutant: whose average it is does not matter.
Fresh(v) == ~v.stale

Accepted(v) == ~v.stale /\ (v.named => v.of = described)

\* What the averages are said to be of.
Subjects(averages) == {v.of : v \in {w \in averages : w.named}}

ToMetrics == Continue(step + IF Section = "cpu" THEN 2 ELSE 1)

ReadAverage ==
  /\ Reading({"cpu", "memory"})
  /\ \E v \in {w \in Average : w.of \in instances} :
       \/ Accepted(v) /\ Section = "cpu"
            /\ cpu' = v /\ usage' = usage /\ Continue(step + 1)
       \/ Accepted(v) /\ Section = "memory"
            /\ usage' = [source |-> "custom", of |-> Subjects({cpu, v})]
            /\ cpu' = None /\ Continue(step + 2)
       \/ ~Accepted(v) /\ cpu' = None /\ usage' = usage /\ ToMetrics
  /\ UNCHANGED <<cluster, request, described, got>>

NoAverage ==
  /\ Reading({"cpu", "memory"})
  /\ cpu' = None /\ ToMetrics
  /\ UNCHANGED <<cluster, request, described, usage, got>>

\* The sum over the selected pods that have metrics, or what there is by that name.
ReadMetrics ==
  /\ Reading({"metrics"})
  /\ \E pods \in SUBSET Selected("pods") :
     \E of \in IF request.tool \in {"pods_describe", "nodes_describe"}
                 THEN {{i} : i \in instances} ELSE {{p.owner : p \in pods}} :
       usage' = IF of = {} THEN None ELSE [source |-> "metrics", of |-> of]
  /\ Continue(step + 1)
  /\ UNCHANGED <<cluster, request, described, cpu, got>>

-----------------------------------------------------------------------------
(* Logs.                                                                   *)

\* The pods of the Job that was read.
Owned == {p \in got["pods"] : p.owner = described}

ToFetch ==
  IF request.tool = "pods_log" THEN got["object"]
  ELSE IF request.all_pods \/ Owned = {} THEN Owned
  ELSE {Newest(Owned)}

\* The log of what has the pod's name by then; names of a Job's pods are not reused.
ReadLog ==
  /\ Reading({"log"})
  /\ \E p \in ToFetch \ got["log"] :
       LET pods == IF request.tool = "pods_log" THEN stored["object"]
                   ELSE {p} \cap stored["pods"]
       IN  IF pods = {} THEN Fail /\ UNCHANGED got
           ELSE /\ got' = [got EXCEPT !["log"] = @ \cup pods]
                /\ IF ToFetch \subseteq got["log"] \cup {p} THEN Continue(step + 1)
                   ELSE UNCHANGED <<at, step>>
  /\ UNCHANGED <<cluster, request, described, cpu, usage>>

\* Nothing was started yet, or everything is cleaned up.
NoPods ==
  /\ Reading({"log"})
  /\ ToFetch = {}
  /\ Fail
  /\ UNCHANGED <<cluster, request, described, cpu, usage, got>>

-----------------------------------------------------------------------------
Next == \/ Change
        \/ Read \/ NotFound \/ RequestFails
        \/ ReadAverage \/ NoAverage \/ ReadMetrics
        \/ ReadLog \/ NoPods

Spec == Init /\ [][Next]_vars

-----------------------------------------------------------------------------
(* Properties.                                                             *)

\* A call that is under way is at a read of its plan, and its answer has the shape
\* that the tool promises.
TypeOK ==
  /\ at \in {"reading", "answered", "failed"}
  /\ at = "reading" => step \in DOMAIN Plan(request)
  /\ described \in Uid \cup {None}
  /\ cpu \in Average \cup {None}
  /\ usage \in [source : {"custom", "metrics"}, of : SUBSET (Uid \cup {None})] \cup {None}
  /\ \A m \in {stored, throughout, got} : m \in [Collection -> SUBSET Object]
  /\ changes \in 0..MaxChanges

\* The usage that an answer reports is that of the object it describes, and not of
\* another one that had or has its name, although the object is read in a request of
\* its own.  Averages hold to that unless the adapter leaves open whose they are, and
\* sums over pods do where these are selected by uid.
UsageIsOfDescribed ==
  usage # None /\ (usage.source = "custom" \/ ByUid) => usage.of \subseteq {described}

\* The tools that leave out of a description what they could not read.
describing ==
  {"nodes_describe", "persistentvolumeclaims_describe", "pods_describe",
   "workloads_describe", "services_describe", "horizontalpodautoscaler_describe",
   "namespaces_describe"}

\* Any other answer is complete: nothing that was there during all of the call is
\* missing because a request failed, because the cluster does not know the kind, or
\* because something came or left between two requests.
AnswersAreComplete ==
  at = "answered" /\ request.tool \notin describing =>
    \A c \in collections :
      \/ c = "pods" /\ request.tool = "cronjobs_describe"
      \/ c = "nodes" /\ "nodepools" \in collections /\ got["nodepools"] = {}
      \/ {o \in throughout[c] : c = "pods" /\ ByUid => o.owner = described} \subseteq got[c]

\* A jobs_log that is answered shows pods of the Job it was asked for, and of the Job's
\* pods that were there during all of the call all, or one than which none is newer.
LogsAreOfTheJob ==
  at = "answered" /\ request.tool = "jobs_log" =>
    LET pods == {p \in throughout["pods"] : p.owner = described}
    IN  /\ \A p \in got["log"] : p.owner = described
        /\ \A p \in pods : \/ p \in got["log"]
                           \/ /\ ~request.all_pods
                              /\ \E q \in got["log"] : p.uid < q.uid
=============================================================================
