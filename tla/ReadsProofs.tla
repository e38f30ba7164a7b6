---------------------------- MODULE ReadsProofs ----------------------------
(***************************************************************************)
(* Proofs about Reads.  What matters of the plans of all the tools is      *)
(* stated once (PlanOK).  The invariant says what a call that has come     *)
(* this far in its plan holds of the cluster: of each collection that it   *)
(* has read, everything that was there all the time.                       *)
(***************************************************************************)
EXTENDS Reads, FiniteSetTheorems, WellFoundedInduction, TLAPS

-----------------------------------------------------------------------------
(* Plans.                                                                  *)

usages == {"cpu", "memory", "metrics"}

\* The object is read first, averages in pairs before the metrics, logs at the end;
\* the tools that do not describe leave out nothing that the cluster knows.
PlanOK(P, tool) ==
  /\ Len(P) \in Nat \ {0} /\ DOMAIN P = 1..Len(P)
  /\ \A n \in 1..Len(P) :
       /\ P[n].of \in Collection \cup usages
       /\ P[n].or \in {"required", "ifServed", "optional", "last"}
       /\ P[n].of = "object" => n = 1
       /\ P[n].of = "memory" => n > 1 /\ P[n - 1].of = "cpu"
       /\ P[n].of = "cpu" => n + 2 <= Len(P) /\ P[n + 1].of = "memory"
                             /\ P[n + 2].of = "metrics"
       /\ P[n].of = "nodepools" => n = 1 /\ Len(P) = 2 /\ P[2].of = "nodes"
       /\ P[n].of = "log" => n = Len(P) /\ tool \in {"pods_log", "jobs_log"}
       /\ P[n].of \in single => P[n].or # "ifServed"
       /\ P[n].of = "log" => P[n].or = "required"
       /\ tool \notin describing =>
            \/ P[n].of \in usages /\ P[n].or = "optional"
            \/ P[n].of \notin usages /\ P[n].or \in {"required", "ifServed"}
       /\ P[n].of = "metrics" /\ tool \notin describing =>
            tool = "cronjobs_describe" \/ (\E m \in 1..Len(P) : P[m].of = "pods")
  /\ tool = "jobs_log" =>
       Len(P) = 3 /\ P[1].of = "object" /\ P[2].of = "pods" /\ P[3].of = "log"

LEMMA PlanOfOne ==
  ASSUME NEW c \in Collection \ {"nodepools", "log"}, NEW tool, tool # "jobs_log"
  PROVE  PlanOK(<<Required(c)>>, tool)
BY DEF PlanOK, Required, Collection, usages

\* The plans of several reads.
LEMMA PlansOfMore ==
  /\ PlanOK(karpenter_nodepools_list, "karpenter_nodepools_list")
  /\ PlanOK(clusters_describe, "clusters_describe")
  /\ PlanOK(namespaces_describe, "namespaces_describe")
  /\ PlanOK(horizontalpodautoscaler_describe, "horizontalpodautoscaler_describe")
  /\ PlanOK(services_describe, "services_describe")
  /\ PlanOK(persistentvolumeclaims_describe, "persistentvolumeclaims_describe")
  /\ PlanOK(nodes_describe, "nodes_describe")
  /\ PlanOK(pods_describe, "pods_describe")
  /\ PlanOK(jobs_describe, "jobs_describe")
  /\ PlanOK(cronjobs_describe, "cronjobs_describe")
  /\ PlanOK(workloads_describe, "workloads_describe")
  /\ PlanOK(pods_log, "pods_log")
  /\ PlanOK(jobs_log, "jobs_log")
  /\ PlanOK(listAllWorkloads, "workloads_list")
<1>. USE DEF PlanOK, Required, Optional, IfServed, Last, Cpu, Memory, Metrics, Collection,
            usages, single, describing
<1>1. PlanOK(karpenter_nodepools_list, "karpenter_nodepools_list")
  BY DEF karpenter_nodepools_list
<1>2. PlanOK(clusters_describe, "clusters_describe")
  BY DEF clusters_describe
<1>3. PlanOK(namespaces_describe, "namespaces_describe")
  BY DEF namespaces_describe
<1>4. PlanOK(horizontalpodautoscaler_describe, "horizontalpodautoscaler_describe")
  BY DEF horizontalpodautoscaler_describe
<1>5. PlanOK(services_describe, "services_describe")
  BY DEF services_describe
<1>6. PlanOK(persistentvolumeclaims_describe, "persistentvolumeclaims_describe")
  BY DEF persistentvolumeclaims_describe
<1>7. PlanOK(nodes_describe, "nodes_describe")
  BY DEF nodes_describe
<1>8. PlanOK(pods_describe, "pods_describe")
  BY DEF pods_describe
<1>9. PlanOK(jobs_describe, "jobs_describe")
  BY DEF jobs_describe
<1>10. PlanOK(cronjobs_describe, "cronjobs_describe")
  BY DEF cronjobs_describe
<1>11. PlanOK(workloads_describe, "workloads_describe")
  BY DEF workloads_describe
<1>12. PlanOK(pods_log, "pods_log")
  BY DEF pods_log
<1>13. PlanOK(jobs_log, "jobs_log")
  BY DEF jobs_log
<1>14. PlanOK(listAllWorkloads, "workloads_list")
  BY DEF listAllWorkloads
<1>. HIDE DEF PlanOK
<1> QED
  BY <1>1, <1>2, <1>3, <1>4, <1>5, <1>6, <1>7, <1>8, <1>9, <1>10, <1>11, <1>12,
     <1>13, <1>14

LEMMA PlanFacts ==
  ASSUME NEW r \in Request
  PROVE  PlanOK(Plan(r), r.tool)
<1>. PICK P : P = Plan(r)
  OBVIOUS
<1>. PICK tool : tool = r.tool
  OBVIOUS
<1>. USE DEF Plan
<1>1. CASE tool = "pods_list"
  BY <1>1, PlanOfOne DEF pods_list, Collection
<1>2. CASE tool = "jobs_list"
  BY <1>2, PlanOfOne DEF jobs_list, Collection
<1>3. CASE tool = "cronjobs_list"
  BY <1>3, PlanOfOne DEF cronjobs_list, Collection
<1>4. CASE tool = "services_list"
  BY <1>4, PlanOfOne DEF services_list, Collection
<1>5. CASE tool = "nodes_list"
  BY <1>5, PlanOfOne DEF nodes_list, Collection
<1>6. CASE tool = "namespaces_list"
  BY <1>6, PlanOfOne DEF namespaces_list, Collection
<1>7. CASE tool = "persistentvolumeclaims_list"
  BY <1>7, PlanOfOne DEF persistentvolumeclaims_list, Collection
<1>8. CASE tool = "horizontalpodautoscaler_list"
  BY <1>8, PlanOfOne DEF horizontalpodautoscaler_list, Collection
<1>9. CASE tool = "limitranges_list"
  BY <1>9, PlanOfOne DEF limitranges_list, Collection
<1>10. CASE tool = "resourcequotas_list"
  BY <1>10, PlanOfOne DEF resourcequotas_list, Collection
<1>11. CASE tool = "storageclasses_list"
  BY <1>11, PlanOfOne DEF storageclasses_list, Collection
<1>12. CASE tool = "priorityclasses_list"
  BY <1>12, PlanOfOne DEF priorityclasses_list, Collection
<1>13. CASE tool = "events_get"
  BY <1>13, PlanOfOne DEF events_get, Collection
<1>14. CASE tool = "flux_gitrepositories_list"
  BY <1>14, PlanOfOne DEF flux_gitrepositories_list, Collection
<1>15. CASE tool = "flux_ocirepositories_list"
  BY <1>15, PlanOfOne DEF flux_ocirepositories_list, Collection
<1>16. CASE tool = "flux_helmreleases_list"
  BY <1>16, PlanOfOne DEF flux_helmreleases_list, Collection
<1>17. CASE tool = "flux_kustomizations_list"
  BY <1>17, PlanOfOne DEF flux_kustomizations_list, Collection
<1>18. CASE tool = "helm_list"
  BY <1>18, PlanOfOne DEF helm_list, Collection
<1>19. CASE tool = "limitranges_describe"
  BY <1>19, PlanOfOne DEF limitranges_describe, Collection
<1>20. CASE tool = "resourcequotas_describe"
  BY <1>20, PlanOfOne DEF resourcequotas_describe, Collection
<1>21. CASE tool = "flux_gitrepositories_describe"
  BY <1>21, PlanOfOne DEF flux_gitrepositories_describe, Collection
<1>22. CASE tool = "flux_ocirepositories_describe"
  BY <1>22, PlanOfOne DEF flux_ocirepositories_describe, Collection
<1>23. CASE tool = "flux_helmreleases_describe"
  BY <1>23, PlanOfOne DEF flux_helmreleases_describe, Collection
<1>24. CASE tool = "flux_kustomizations_describe"
  BY <1>24, PlanOfOne DEF flux_kustomizations_describe, Collection
<1>25. CASE tool = "karpenter_nodepools_list"
  BY <1>25, PlansOfMore
<1>26. CASE tool = "clusters_describe"
  BY <1>26, PlansOfMore
<1>27. CASE tool = "namespaces_describe"
  BY <1>27, PlansOfMore
<1>28. CASE tool = "horizontalpodautoscaler_describe"
  BY <1>28, PlansOfMore
<1>29. CASE tool = "services_describe"
  BY <1>29, PlansOfMore
<1>30. CASE tool = "persistentvolumeclaims_describe"
  BY <1>30, PlansOfMore
<1>31. CASE tool = "nodes_describe"
  BY <1>31, PlansOfMore
<1>32. CASE tool = "pods_describe"
  BY <1>32, PlansOfMore
<1>33. CASE tool = "jobs_describe"
  BY <1>33, PlansOfMore
<1>34. CASE tool = "cronjobs_describe"
  BY <1>34, PlansOfMore
<1>35. CASE tool = "workloads_describe"
  BY <1>35, PlansOfMore
<1>36. CASE tool = "pods_log"
  BY <1>36, PlansOfMore
<1>37. CASE tool = "jobs_log"
  BY <1>37, PlansOfMore
<1>38. CASE tool = "workloads_list" /\ r.kind = None
  BY <1>38, PlansOfMore DEF workloads_list
<1>39. CASE tool = "workloads_list" /\ r.kind # None
  <2>1. r.kind \in {"deployments", "statefulsets", "daemonsets"}
    BY <1>39 DEF Request, lists, named
  <2> QED
    BY <1>39, <2>1, PlanOfOne DEF workloads_list, Collection
<1> QED
  BY <1>1, <1>2, <1>3, <1>4, <1>5, <1>6, <1>7, <1>8, <1>9, <1>10, <1>11, <1>12,
     <1>13, <1>14, <1>15, <1>16, <1>17, <1>18, <1>19, <1>20, <1>21, <1>22,
     <1>23, <1>24, <1>25, <1>26, <1>27, <1>28, <1>29, <1>30, <1>31, <1>32,
     <1>33, <1>34, <1>35, <1>36, <1>37, <1>38, <1>39
  DEF Request, lists, named

-----------------------------------------------------------------------------
(* The newest of some objects.                                             *)

LEMMA NewestFacts ==
  ASSUME NEW objects \in SUBSET Object, objects # {}
  PROVE  /\ Newest(objects) \in objects
         /\ \A p \in objects : p.uid <= Newest(objects).uid
<1>. DEFINE top == 2 + MaxChanges
            Before == {top - o.uid : o \in objects}
<1>1. top \in Nat /\ \A o \in objects : o.uid \in Nat /\ o.uid <= top
  BY ChangesAssumption DEF Object, Uid
<1>2. Before \subseteq Nat /\ Before # {}
  BY <1>1
<1>. HIDE DEF Before
<1>3. PICK x \in Before : \A y \in Before : ~ (<<y, x>> \in OpToRel(<, Nat))
  BY <1>2, NatLessThanWellFounded, WFMin
<1>4. ASSUME NEW y \in Before
      PROVE  x <= y
  <2>1. <<y, x>> \notin {ss \in Nat \X Nat : ss[1] < ss[2]}
    BY <1>3 DEF OpToRel
  <2>2. y \in Nat /\ x \in Nat
    BY <1>2
  <2> QED
    BY <2>1, <2>2
<1>5. PICK o \in objects : x = top - o.uid
  BY DEF Before
<1>6. \A p \in objects : top - p.uid \in Before
  BY DEF Before
<1>. HIDE DEF top
<1>7. \A p \in objects : p.uid <= o.uid
  BY <1>1, <1>4, <1>5, <1>6
<1>8. \E q \in objects : \A p \in objects : p.uid <= q.uid
  BY <1>7
<1> QED
  BY <1>8 DEF Newest

-----------------------------------------------------------------------------
(* The invariant.                                                          *)

\* No two objects of a collection share a uid.
Distinct(objects) == \A o, p \in objects : o.uid = p.uid => o = p

ShapeOK ==
  /\ request \in Requests /\ step \in Nat \ {0}
  /\ instances \subseteq Uid /\ served \subseteq Collection

ClusterOK ==
  \A c \in Collection : /\ throughout[c] \subseteq stored[c]
                        /\ c \notin served => stored[c] = {}
                        /\ Distinct(stored[c])
                        /\ \A o \in stored[c] : o.uid <= changes + 2

\* An average of the object is at hand when the second is read.
UsageOK ==
  /\ at = "reading" /\ step = 1 => usage = None
  /\ Reading({"memory"}) => cpu \in Average /\ Accepted(cpu)

\* What the call has read of collection c holds all that was there all the time.
Has(c) ==
  \/ c = "nodes" /\ "nodepools" \in collections /\ got["nodepools"] = {}
  \/ {o \in throughout[c] : c = "pods" /\ ByUid => o.owner = described} \subseteq got[c]

\* The n-th read is behind the call.
Passed(n) == at = "reading" => n < step

ReadsOK ==
  at # "failed" /\ request.tool \notin describing =>
    \A n \in 1..Len(Plan(request)) :
      Passed(n) /\ Plan(request)[n].of \in Collection \ {"log"} => Has(Plan(request)[n].of)

\* The logs are those that are to be fetched, in the end all of them.
LogsOK ==
  at # "failed" /\ request.tool = "jobs_log" =>
    /\ got["log"] \subseteq ToFetch
    /\ at = "reading" /\ step < 3 => got["log"] = {}
    /\ at = "answered" => got["log"] # {} /\ ToFetch \subseteq got["log"]

IInv == /\ TypeOK /\ ShapeOK /\ ClusterOK
        /\ UsageIsOfDescribed /\ UsageOK
        /\ Distinct(got["pods"])
        /\ ReadsOK /\ LogsOK

LEMMA TheRequest ==
  ASSUME ShapeOK
  PROVE  request \in Request /\ PlanOK(Plan(request), request.tool)
BY PlanFacts, RequestsAssumption DEF ShapeOK

LEMMA RequestStays ==
  ASSUME request' = request
  PROVE  /\ Plan(request)' = Plan(request) /\ collections' = collections
         /\ ByUid' <=> ByUid
         /\ request.tool' = request.tool
BY DEF collections, ByUid

\* The first read is of the object, if it is read at all, or of a collection.
LEMMA CollectionsFacts ==
  ASSUME ShapeOK
  PROVE  /\ collections \subseteq Collection \ {"log"}
         /\ \A c \in collections :
              \/ \E n \in 1..Len(Plan(request)) : Plan(request)[n].of = c
              \/ c = "pods"
<1>. PICK P : P = Plan(request)
  OBVIOUS
<1>1. PlanOK(P, request.tool)
  BY TheRequest
<1>2. DOMAIN P = 1..Len(P) /\ \A n \in 1..Len(P) : P[n].of \in Collection \cup usages
  BY <1>1 DEF PlanOK
<1>3. "pods" \in Collection \ {"log"}
  BY DEF Collection
<1> QED
  BY <1>2, <1>3 DEF collections, usages

-----------------------------------------------------------------------------
(* Every step keeps the invariant.                                         *)

LEMMA InitOK == Init => IInv
<1> SUFFICES ASSUME Init
             PROVE  IInv
  OBVIOUS
<1>. PICK P : P = Plan(request)
  OBVIOUS
<1>1. ShapeOK /\ 1 \in Uid /\ 2 \in Uid
  BY ChangesAssumption DEF Init, ShapeOK, Uid
<1>2. PlanOK(P, request.tool)
  BY <1>1, TheRequest
<1>3. PICK owner \in {1, None} :
         stored = [c \in Collection |->
                     IF c \notin collections \cap served THEN {}
                     ELSE {[uid |-> 1, owner |-> 1]}
                          \cup (IF c = "pods" THEN {[uid |-> 2, owner |-> owner]} ELSE {})]
  BY DEF Init
<1>4. /\ [uid |-> 1, owner |-> 1] \in Object /\ [uid |-> 2, owner |-> owner] \in Object
  BY <1>1, <1>3 DEF Object
<1>5. stored \in [Collection -> SUBSET Object]
  BY <1>3, <1>4
<1>6. /\ throughout = stored /\ got = [c \in Collection |-> {}] /\ changes = 0
      /\ described = None /\ cpu = None /\ usage = None /\ step = 1 /\ at = "reading"
  BY DEF Init
<1>7. TypeOK
  <2>1. step \in DOMAIN P
    <3>1. Len(P) \in Nat \ {0} /\ DOMAIN P = 1..Len(P)
      BY <1>2 DEF PlanOK
    <3> QED
      BY <1>6, <3>1
  <2>2. got \in [Collection -> SUBSET Object]
    BY <1>6
  <2> QED
    BY <1>5, <1>6, <2>1, <2>2, ChangesAssumption DEF TypeOK
<1>8. ClusterOK
  <2> SUFFICES ASSUME NEW c \in Collection
               PROVE  /\ throughout[c] \subseteq stored[c]
                      /\ c \notin served => stored[c] = {}
                      /\ Distinct(stored[c])
                      /\ \A o \in stored[c] : o.uid <= changes + 2
    BY DEF ClusterOK
  <2>1. stored[c] \subseteq {[uid |-> 1, owner |-> 1], [uid |-> 2, owner |-> owner]}
    BY <1>3
  <2>2. c \notin served => stored[c] = {}
    BY <1>3
  <2> QED
    BY <1>6, <2>1, <2>2 DEF Distinct
<1>9. UsageIsOfDescribed /\ UsageOK
  <2>1. ~ Reading({"memory"})
    BY <1>2, <1>6 DEF Reading, Section, PlanOK
  <2> QED
    BY <1>6, <2>1 DEF UsageIsOfDescribed, UsageOK
<1>10. "pods" \in Collection /\ "log" \in Collection
  BY DEF Collection
<1>11. Distinct(got["pods"]) /\ LogsOK
  BY <1>6, <1>10 DEF Distinct, LogsOK
<1>12. ReadsOK
  BY <1>6 DEF ReadsOK, Passed
<1> QED
  BY <1>1, <1>7, <1>8, <1>9, <1>11, <1>12 DEF IInv

\* What is true of a call stays true while it waits and the cluster changes.
LEMMA WaitingOK ==
  ASSUME UNCHANGED <<request, at, step, described, cpu, usage, got>>,
         UsageIsOfDescribed, UsageOK, LogsOK
  PROVE  (UsageIsOfDescribed /\ UsageOK /\ LogsOK)'
<1>1. (ByUid' <=> ByUid) /\ Section' = Section
  BY DEF ByUid, Section
<1>2. ToFetch' = ToFetch
  BY DEF ToFetch, Owned
<1> QED
  BY <1>1, <1>2 DEF UsageIsOfDescribed, UsageOK, LogsOK, Reading, Accepted

LEMMA ChangeOK ==
  ASSUME IInv, Change
  PROVE  IInv'
<1>1. PICK c \in collections \cap served : Comes(c) \/ Leaves(c)
  BY DEF Change
<1>2. /\ UNCHANGED <<served, request, at, step, described, cpu, usage, got>>
      /\ changes' = changes + 1 /\ changes < MaxChanges
  BY DEF Change
<1>3. /\ c \in Collection /\ c \in served /\ changes \in Nat
      /\ stored \in [Collection -> SUBSET Object]
      /\ throughout \in [Collection -> SUBSET Object]
      /\ instances \subseteq Uid /\ ClusterOK
  BY <1>1, CollectionsFacts DEF IInv, TypeOK, ShapeOK
<1>4. /\ stored' \in [Collection -> SUBSET Object]
      /\ throughout' \in [Collection -> SUBSET Object]
      /\ instances' \subseteq Uid
      /\ ClusterOK'
      /\ \A d \in Collection : throughout'[d] \subseteq throughout[d]
  <2>1. CASE Comes(c)
    <3>. PICK uid : uid = changes + 3
      OBVIOUS
    <3>1. uid \in Uid
      BY <1>2, <1>3, ChangesAssumption DEF Uid
    <3>2. /\ instances' \subseteq Uid /\ throughout' = throughout
      BY <1>3, <2>1, <3>1 DEF Comes
    <3>3. PICK owner \in {uid} \cup {o.uid : o \in stored["object"]} \cup {None} :
             stored' = [stored EXCEPT ![c] = @ \cup {[uid |-> uid, owner |-> owner]}]
      BY <2>1 DEF Comes
    <3>. PICK new : new = [uid |-> uid, owner |-> owner]
      OBVIOUS
    <3>4. "object" \in Collection
      BY DEF Collection
    <3>5. owner \in Uid \cup {None}
      BY <1>3, <3>1, <3>3, <3>4 DEF Object
    <3>6. new \in Object /\ new.uid = uid
      BY <3>1, <3>5 DEF Object
    <3>7. /\ stored' \in [Collection -> SUBSET Object]
          /\ \A d \in Collection :
               stored'[d] = IF d = c THEN stored[d] \cup {new} ELSE stored[d]
      BY <1>3, <3>3, <3>6
    <3>8. ClusterOK'
      <4> SUFFICES ASSUME NEW d \in Collection
                   PROVE  /\ throughout'[d] \subseteq stored'[d]
                          /\ d \notin served' => stored'[d] = {}
                          /\ Distinct(stored'[d])
                          /\ \A o \in stored'[d] : o.uid <= changes' + 2
        BY DEF ClusterOK
      <4>1. /\ throughout[d] \subseteq stored[d]
            /\ d \notin served => stored[d] = {}
            /\ Distinct(stored[d])
            /\ \A o \in stored[d] : o.uid <= changes + 2
        BY <1>3 DEF ClusterOK
      <4>2. \A o \in stored[d] : o.uid \in Nat
        BY <1>3 DEF Object, Uid
      <4>3. Distinct(stored'[d])
        BY <1>3, <3>6, <3>7, <4>1, <4>2 DEF Distinct
      <4>4. \A o \in stored'[d] : o.uid <= changes' + 2
        BY <1>2, <1>3, <3>6, <3>7, <4>1, <4>2
      <4> QED
        BY <1>2, <1>3, <3>2, <3>7, <4>1, <4>3, <4>4
    <3> QED
      BY <1>3, <3>2, <3>7, <3>8
  <2>2. CASE Leaves(c)
    <3>1. PICK o \in stored[c] :
             /\ stored' = [stored EXCEPT ![c] = @ \ {o}]
             /\ throughout' = [throughout EXCEPT ![c] = @ \ {o}]
             /\ instances' = instances
      BY <2>2 DEF Leaves
    <3>2. /\ stored' \in [Collection -> SUBSET Object]
          /\ throughout' \in [Collection -> SUBSET Object]
          /\ \A d \in Collection :
               /\ stored'[d] = IF d = c THEN stored[d] \ {o} ELSE stored[d]
               /\ throughout'[d] = IF d = c THEN throughout[d] \ {o} ELSE throughout[d]
      BY <1>3, <3>1
    <3>3. ClusterOK'
      <4> SUFFICES ASSUME NEW d \in Collection
                   PROVE  /\ throughout'[d] \subseteq stored'[d]
                          /\ d \notin served' => stored'[d] = {}
                          /\ Distinct(stored'[d])
                          /\ \A p \in stored'[d] : p.uid <= changes' + 2
        BY DEF ClusterOK
      <4>1. /\ throughout[d] \subseteq stored[d]
            /\ d \notin served => stored[d] = {}
            /\ Distinct(stored[d])
            /\ \A p \in stored[d] : p.uid <= changes + 2
        BY <1>3 DEF ClusterOK
      <4>2. \A p \in stored[d] : p.uid \in Nat
        BY <1>3 DEF Object, Uid
      <4> QED
        BY <1>2, <1>3, <3>2, <4>1, <4>2 DEF Distinct
    <3> QED
      BY <1>3, <3>1, <3>2, <3>3
  <2> QED
    BY <1>1, <2>1, <2>2
<1>5. (UsageIsOfDescribed /\ UsageOK /\ LogsOK)'
  BY <1>2, WaitingOK DEF IInv
<1>6. ReadsOK'
  <2>1. /\ Plan(request)' = Plan(request) /\ collections' = collections
        /\ ByUid' <=> ByUid
    BY <1>2, RequestStays
  <2>2. ASSUME NEW d \in Collection, Has(d)
        PROVE  Has(d)'
    BY <1>2, <1>4, <2>1, <2>2 DEF Has
  <2> QED
    BY <1>2, <2>1, <2>2 DEF IInv, ReadsOK, Passed
<1>7. TypeOK'
  BY <1>2, <1>3, <1>4, ChangesAssumption DEF IInv, TypeOK
<1> QED
  BY <1>2, <1>4, <1>5, <1>6, <1>7 DEF IInv, ShapeOK

LEMMA FailsOK ==
  ASSUME IInv, at' = "failed",
         UNCHANGED <<cluster, request, step, described, cpu, usage, got>>
  PROVE  IInv'
<1>1. UsageIsOfDescribed'
  BY DEF IInv, UsageIsOfDescribed, ByUid
<1>2. UNCHANGED <<stored, served, instances, throughout, changes>>
  BY DEF cluster
<1>3. TypeOK' /\ ShapeOK' /\ ClusterOK'
  BY <1>2 DEF IInv, TypeOK, ShapeOK, ClusterOK
<1>4. (UsageOK /\ Distinct(got["pods"]) /\ ReadsOK /\ LogsOK)'
  BY DEF IInv, UsageOK, Reading, ReadsOK, LogsOK
<1> QED
  BY <1>1, <1>3, <1>4 DEF IInv

\* A call that has read no more of the cluster moves on to its k-th read.
LEMMA MovesOK ==
  ASSUME IInv, UNCHANGED <<cluster, request, described, got>>, at = "reading",
         NEW k \in Nat, k > step, Continue(k),
         cpu' \in Average \cup {None},
         usage' \in [source : {"custom", "metrics"}, of : SUBSET (Uid \cup {None})]
                    \cup {None},
         UsageIsOfDescribed',
         k <= Len(Plan(request)) /\ Plan(request)[k].of = "memory"
           => cpu' \in Average /\ Accepted(cpu'),
         k > Len(Plan(request)) => request.tool # "jobs_log",
         \A n \in 1..Len(Plan(request)) :
           step <= n /\ n < k /\ request.tool \notin describing
           /\ Plan(request)[n].of \in Collection \ {"log"} => Has(Plan(request)[n].of)
  PROVE  IInv'
<1>. PICK P : P = Plan(request)
  OBVIOUS
<1>1. /\ Plan(request)' = P /\ collections' = collections
      /\ (ByUid' <=> ByUid) /\ request.tool' = request.tool
  BY RequestStays
<1>2. Len(P) \in Nat \ {0} /\ DOMAIN P = 1..Len(P) /\ step \in Nat \ {0}
  BY TheRequest DEF IInv, ShapeOK, PlanOK
<1>3. UNCHANGED <<stored, served, instances, throughout, changes>>
  BY DEF cluster
<1>4. /\ step' = k
      /\ \/ k > Len(P) /\ at' = "answered"
         \/ k <= Len(P) /\ at' = "reading"
  BY <1>2 DEF Continue
<1>5. TypeOK'
  <2>1. at' = "reading" => step' \in DOMAIN P
    BY <1>2, <1>4
  <2> QED
    BY <1>1, <1>3, <1>4, <2>1 DEF IInv, TypeOK
<1>6. ShapeOK' /\ ClusterOK'
  BY <1>2, <1>3, <1>4 DEF IInv, ShapeOK, ClusterOK
<1>7. UsageOK'
  <2>1. step' # 1
    BY <1>2, <1>4
  <2>2. ASSUME Reading({"memory"})'
        PROVE  cpu' \in Average /\ Accepted(cpu)'
    <3>1. at' = "reading" /\ P[k].of = "memory"
      BY <1>1, <1>4, <2>2 DEF Reading, Section
    <3> QED
      BY <1>4, <3>1 DEF Accepted
  <2> QED
    BY <2>1, <2>2 DEF UsageOK
<1>8. ReadsOK'
  <2> SUFFICES ASSUME request.tool \notin describing, NEW n \in 1..Len(P),
                      Passed(n)', P[n].of \in Collection \ {"log"}
               PROVE  Has(P[n].of)'
    BY <1>1 DEF ReadsOK
  <2>1. n < k
    BY <1>2, <1>4 DEF Passed
  <2>2. Has(P[n].of)
    <3>1. CASE n < step
      BY <3>1 DEF IInv, ReadsOK, Passed
    <3>2. CASE step <= n
      BY <2>1, <3>2
    <3> QED
      BY <1>2, <3>1, <3>2
  <2> QED
    BY <1>1, <1>3, <2>2 DEF Has
<1>9. LogsOK'
  <2>1. ToFetch' = ToFetch
    BY DEF ToFetch, Owned
  <2>2. at' = "reading" /\ step' < 3 => step < 3
    BY <1>2, <1>4
  <2> QED
    BY <1>1, <1>4, <2>1, <2>2 DEF IInv, LogsOK
<1>10. Distinct(got["pods"])'
  BY DEF IInv, Distinct
<1> QED
  BY <1>5, <1>6, <1>7, <1>8, <1>9, <1>10 DEF IInv

\* What the read that a call is at tells of its plan.
LEMMA SectionFacts ==
  ASSUME IInv, at = "reading"
  PROVE  /\ step \in 1..Len(Plan(request)) /\ Len(Plan(request)) \in Nat
         /\ Section = Plan(request)[step].of
         /\ PlanOK(Plan(request), request.tool)
BY TheRequest DEF IInv, TypeOK, ShapeOK, PlanOK, Section

LEMMA NoCollection == usages \cap Collection = {}
BY DEF usages, Collection

\* Only the first average leads to the second.
LEMMA NotMemory ==
  ASSUME NEW P, NEW tool, PlanOK(P, tool), NEW n \in 1..Len(P), P[n].of # "cpu",
         n + 1 <= Len(P)
  PROVE  P[n + 1].of # "memory"
<1>1. Len(P) \in Nat /\ n + 1 \in 1..Len(P) /\ (n + 1) - 1 = n
  <2>1. Len(P) \in Nat
    BY DEF PlanOK
  <2> QED
    BY <2>1
<1>2. P[n + 1].of = "memory" => P[(n + 1) - 1].of = "cpu"
  BY <1>1 DEF PlanOK
<1> QED
  BY <1>1, <1>2

\* Nothing but usage is left out of an answer that does not describe.
LEMMA LeftOut ==
  ASSUME NEW P, NEW tool, PlanOK(P, tool), NEW n \in 1..Len(P),
         tool \notin describing, P[n].or = "optional"
  PROVE  P[n].of \in usages
BY DEF PlanOK

LEMMA FirstReads ==
  ASSUME NEW P, NEW tool, PlanOK(P, tool), NEW n \in 1..Len(P)
  PROVE  /\ P[n].of = "object" => n = 1
         /\ P[n].of = "nodepools" => n = 1 /\ Len(P) = 2 /\ P[2].of = "nodes"
<1>1. P[n].of = "object" => n = 1
  BY DEF PlanOK
<1>2. P[n].of = "nodepools" => n = 1 /\ Len(P) = 2 /\ P[2].of = "nodes"
  BY DEF PlanOK
<1> QED
  BY <1>1, <1>2

\* jobs_log ends with logs, which it needs.
LEMMA LastRead ==
  ASSUME NEW P, PlanOK(P, "jobs_log"), NEW n \in 1..Len(P), n + 1 > Len(P)
  PROVE  P[n].of = "log" /\ P[n].or = "required"
<1>1. Len(P) = 3 /\ P[3].of = "log"
  BY DEF PlanOK
<1>2. n = 3
  BY <1>1
<1>3. P[n].of = "log" => P[n].or = "required"
  BY DEF PlanOK
<1> QED
  BY <1>1, <1>2, <1>3

LEMMA NotFoundOK ==
  ASSUME IInv, NotFound
  PROVE  IInv'
<1>. PICK P : P = Plan(request)
  OBVIOUS
<1>1. /\ at = "reading" /\ Section \in Collection \ {"log"} /\ ~Found(Section)
      /\ UNCHANGED <<cluster, request, described, cpu, usage, got>>
  BY DEF NotFound, Reading
<1>2. /\ step \in 1..Len(P) /\ Len(P) \in Nat /\ Section = P[step].of
      /\ PlanOK(P, request.tool)
  BY <1>1, SectionFacts
<1>3. CASE P[step].or = "required" /\ Fail
  BY <1>1, <1>3, FailsOK DEF Fail
<1>4. CASE P[step].or # "required" /\ Continue(step + 1)
  <2>1. UsageIsOfDescribed' /\ cpu' = cpu /\ usage' = usage
    BY <1>1 DEF IInv, UsageIsOfDescribed, ByUid
  <2>2. cpu \in Average \cup {None}
        /\ usage \in [source : {"custom", "metrics"}, of : SUBSET (Uid \cup {None})]
                     \cup {None}
    BY DEF IInv, TypeOK
  <2>3. step + 1 <= Len(P) => P[step + 1].of # "memory"
    BY <1>1, <1>2, NotMemory, NoCollection DEF usages
  <2>4. step + 1 > Len(P) => request.tool # "jobs_log"
    BY <1>1, <1>2, LastRead
  <2>5. request.tool \notin describing => Has(Section)
    <3> SUFFICES ASSUME request.tool \notin describing
                 PROVE  Has(Section)
      OBVIOUS
    <3>1. Section \notin usages
      BY <1>1 DEF Collection, usages
    <3>2. P[step].or = "ifServed"
      BY <1>2, <1>4, <3>1 DEF PlanOK
    <3>3. Section \notin single
      BY <1>2, <3>2 DEF PlanOK
    <3>4. stored[Section] = {} /\ throughout[Section] \subseteq stored[Section]
      BY <1>1, <3>3 DEF Found, IInv, ClusterOK
    <3> QED
      BY <3>4 DEF Has
  <2>6. \A n \in 1..Len(P) : step <= n /\ n < step + 1 => n = step
    BY <1>2
  <2>7. step + 1 \in Nat /\ step + 1 > step
    BY <1>2
  <2> QED
    BY <1>1, <1>2, <1>4, <2>1, <2>2, <2>3, <2>4, <2>5, <2>6, <2>7, MovesOK
<1> QED
  BY <1>3, <1>4 DEF NotFound

LEMMA RequestFailsOK ==
  ASSUME IInv, RequestFails
  PROVE  IInv'
<1>. PICK P : P = Plan(request)
  OBVIOUS
<1>1. /\ at = "reading" /\ Section \in Collection \cup {"metrics"}
      /\ UNCHANGED <<cluster, request, described, cpu, usage, got>>
  BY DEF RequestFails, Reading
<1>2. /\ step \in 1..Len(P) /\ Len(P) \in Nat /\ Section = P[step].of
      /\ PlanOK(P, request.tool)
  BY <1>1, SectionFacts
<1>3. CASE P[step].or = "optional"
  <2>1. UsageIsOfDescribed' /\ cpu' = cpu /\ usage' = usage
    BY <1>1 DEF IInv, UsageIsOfDescribed, ByUid
  <2>2. cpu \in Average \cup {None}
        /\ usage \in [source : {"custom", "metrics"}, of : SUBSET (Uid \cup {None})]
                     \cup {None}
    BY DEF IInv, TypeOK
  <2>3. step + 1 <= Len(P) => P[step + 1].of # "memory"
    BY <1>1, <1>2, NotMemory, NoCollection DEF usages
  <2>4. step + 1 > Len(P) => request.tool # "jobs_log"
    BY <1>2, <1>3, LastRead
  <2>5. request.tool \notin describing => Section \notin Collection
    BY <1>2, <1>3, LeftOut, NoCollection
  <2>6. \A n \in 1..Len(P) : step <= n /\ n < step + 1 => n = step
    BY <1>2
  <2>7. step + 1 \in Nat /\ step + 1 > step /\ Continue(step + 1)
    BY <1>2, <1>3 DEF RequestFails
  <2> QED
    BY <1>1, <1>2, <2>1, <2>2, <2>3, <2>4, <2>5, <2>6, <2>7, MovesOK
<1>4. CASE P[step].or = "last"
  <2>1. at' = "answered" /\ step' = step
    BY <1>4 DEF RequestFails
  <2>2. request.tool \in describing /\ request.tool # "jobs_log"
    BY <1>2, <1>4 DEF PlanOK, describing
  <2>3. UNCHANGED <<stored, served, instances, throughout, changes>>
    BY <1>1 DEF cluster
  <2>4. TypeOK' /\ ShapeOK' /\ ClusterOK'
    BY <1>1, <2>1, <2>3 DEF IInv, TypeOK, ShapeOK, ClusterOK
  <2>5. UsageIsOfDescribed' /\ UsageOK' /\ ReadsOK' /\ LogsOK' /\ Distinct(got["pods"])'
    BY <1>1, <2>1, <2>2
    DEF IInv, UsageIsOfDescribed, UsageOK, ByUid, Reading, ReadsOK, LogsOK
  <2> QED
    BY <2>4, <2>5 DEF IInv
<1>5. CASE P[step].or \notin {"optional", "last"}
  <2>1. Fail
    BY <1>5 DEF RequestFails
  <2> QED
    BY <1>1, <2>1, FailsOK DEF Fail
<1> QED
  BY <1>3, <1>4, <1>5

-----------------------------------------------------------------------------
(* Usage.                                                                  *)

LEMMA AverageTypes ==
  ASSUME IInv
  PROVE  /\ cpu \in Average \cup {None}
         /\ usage \in [source : {"custom", "metrics"}, of : SUBSET (Uid \cup {None})]
                      \cup {None}
BY DEF IInv, TypeOK

\* From an average the call goes on to the values that may replace it.
LEMMA ToMetricsFacts ==
  ASSUME IInv, Reading({"cpu", "memory"})
  PROVE  LET k == step + IF Section = "cpu" THEN 2 ELSE 1
         IN  /\ k \in 1..Len(Plan(request)) /\ k > step
             /\ Plan(request)[k].of = "metrics"
             /\ \A n \in 1..Len(Plan(request)) :
                  step <= n /\ n < k => Plan(request)[n].of \in usages
<1>. PICK P : P = Plan(request)
  OBVIOUS
<1>. PICK k : k = step + IF Section = "cpu" THEN 2 ELSE 1
  OBVIOUS
<1> SUFFICES /\ k \in 1..Len(P) /\ k > step
             /\ P[k].of = "metrics"
             /\ \A n \in 1..Len(P) : step <= n /\ n < k => P[n].of \in usages
  OBVIOUS
<1>1. /\ step \in 1..Len(P) /\ Len(P) \in Nat /\ Section = P[step].of
      /\ PlanOK(P, request.tool) /\ Section \in {"cpu", "memory"}
  BY SectionFacts DEF Reading
<1>2. ASSUME NEW n \in 1..Len(P), P[n].of = "cpu"
      PROVE  n + 2 <= Len(P) /\ P[n + 1].of = "memory" /\ P[n + 2].of = "metrics"
  BY <1>1, <1>2 DEF PlanOK
<1>3. ASSUME NEW n \in 1..Len(P), P[n].of = "memory"
      PROVE  n > 1 /\ P[n - 1].of = "cpu"
  BY <1>1, <1>3 DEF PlanOK
<1>4. CASE Section = "cpu"
  <2>1. step + 2 <= Len(P) /\ P[step + 1].of = "memory" /\ P[step + 2].of = "metrics"
    BY <1>1, <1>2, <1>4
  <2>2. \A n \in 1..Len(P) : step <= n /\ n < step + 2 => n = step \/ n = step + 1
    BY <1>1
  <2>3. k = step + 2
    BY <1>4
  <2>4. k \in 1..Len(P) /\ k > step /\ P[k].of = "metrics"
    BY <1>1, <2>1, <2>3
  <2>5. \A n \in 1..Len(P) : step <= n /\ n < k => P[n].of \in usages
    BY <1>1, <1>4, <2>1, <2>2, <2>3 DEF usages
  <2> QED
    BY <2>4, <2>5
<1>5. CASE Section = "memory"
  <2>. PICK n : n = step - 1
    OBVIOUS
  <2>1. step > 1 /\ P[step - 1].of = "cpu"
    BY <1>1, <1>3, <1>5
  <2>2. n \in 1..Len(P) /\ P[n].of = "cpu" /\ n + 2 = step + 1
    BY <1>1, <2>1
  <2>3. step + 1 <= Len(P) /\ P[step + 1].of = "metrics"
    BY <1>2, <2>2
  <2>4. \A m \in 1..Len(P) : step <= m /\ m < step + 1 => m = step
    BY <1>1
  <2>5. k = step + 1
    BY <1>5
  <2>6. k \in 1..Len(P) /\ k > step /\ P[k].of = "metrics"
    BY <1>1, <2>3, <2>5
  <2>7. \A m \in 1..Len(P) : step <= m /\ m < k => P[m].of \in usages
    BY <1>1, <1>5, <2>4, <2>5 DEF usages
  <2> QED
    BY <2>6, <2>7
<1> QED
  BY <1>1, <1>4, <1>5

LEMMA NoLogs ==
  ASSUME IInv, at = "reading", Section \in usages
  PROVE  request.tool # "jobs_log"
<1>. PICK P : P = Plan(request)
  OBVIOUS
<1>1. /\ step \in 1..Len(P) /\ Section = P[step].of /\ PlanOK(P, request.tool)
  BY SectionFacts
<1>2. CASE request.tool = "jobs_log"
  <2>1. Len(P) = 3 /\ P[1].of = "object" /\ P[2].of = "pods" /\ P[3].of = "log"
    BY <1>1, <1>2 DEF PlanOK
  <2>2. step \in {1, 2, 3}
    BY <1>1, <2>1
  <2> QED
    BY <1>1, <2>1, <2>2 DEF usages
<1> QED
  BY <1>2

\* A call without usable averages goes on without them.
LEMMA GivesUpOK ==
  ASSUME IInv, Reading({"cpu", "memory"}), ToMetrics,
         cpu' \in Average \cup {None}, usage' = usage,
         UNCHANGED <<cluster, request, described, got>>
  PROVE  IInv'
<1>. PICK P : P = Plan(request)
  OBVIOUS
<1>. PICK k : k = step + IF Section = "cpu" THEN 2 ELSE 1
  OBVIOUS
<1>1. /\ k \in 1..Len(P) /\ k > step /\ P[k].of = "metrics"
      /\ \A n \in 1..Len(P) : step <= n /\ n < k => P[n].of \in usages
  BY ToMetricsFacts
<1>2. Continue(k) /\ at = "reading" /\ Len(P) \in Nat
  BY SectionFacts DEF ToMetrics, Reading
<1>3. UsageIsOfDescribed'
  BY DEF IInv, UsageIsOfDescribed, ByUid
<1>4. k \in Nat /\ ~(k > Len(P))
  BY <1>1, <1>2
<1> QED
  BY <1>1, <1>2, <1>3, <1>4, AverageTypes, NoCollection, MovesOK

LEMMA NoAverageOK ==
  ASSUME IInv, NoAverage
  PROVE  IInv'
BY GivesUpOK DEF NoAverage

\* Averages are taken together only if neither is said to be another object's.
LEMMA ReadAverageOK ==
  ASSUME IInv, ReadAverage
  PROVE  IInv'
<1>. PICK P : P = Plan(request)
  OBVIOUS
<1>1. PICK v \in {w \in Average : w.of \in instances} :
       \/ Accepted(v) /\ Section = "cpu"
            /\ cpu' = v /\ usage' = usage /\ Continue(step + 1)
       \/ Accepted(v) /\ Section = "memory"
            /\ usage' = [source |-> "custom", of |-> Subjects({cpu, v})]
            /\ cpu' = None /\ Continue(step + 2)
       \/ ~Accepted(v) /\ cpu' = None /\ usage' = usage /\ ToMetrics
  BY DEF ReadAverage
<1>2. /\ Reading({"cpu", "memory"}) /\ at = "reading" /\ v \in Average
      /\ UNCHANGED <<cluster, request, described, got>>
  BY DEF ReadAverage, Reading
<1>3. /\ step \in 1..Len(P) /\ Len(P) \in Nat /\ Section = P[step].of
      /\ PlanOK(P, request.tool)
  BY <1>2, SectionFacts
<1>4. CASE Accepted(v) /\ Section = "cpu" /\ cpu' = v /\ usage' = usage
           /\ Continue(step + 1)
  <2>1. step + 2 \in 1..Len(P)
    BY <1>2, <1>4, ToMetricsFacts
  <2>2. step + 1 \in Nat /\ step + 1 > step /\ ~(step + 1 > Len(P))
    BY <1>3, <2>1
  <2>3. UsageIsOfDescribed' /\ Accepted(cpu')
    BY <1>2, <1>4 DEF IInv, UsageIsOfDescribed, ByUid
  <2>4. \A n \in 1..Len(P) : step <= n /\ n < step + 1 => P[n].of = "cpu"
    <3>1. \A n \in 1..Len(P) : step <= n /\ n < step + 1 => n = step
      BY <1>3
    <3> QED
      BY <1>3, <1>4, <3>1
  <2>5. "cpu" \notin Collection
    BY NoCollection DEF usages
  <2> QED
    BY <1>2, <1>4, <2>2, <2>3, <2>4, <2>5, AverageTypes, MovesOK
<1>5. CASE Accepted(v) /\ Section = "memory"
            /\ usage' = [source |-> "custom", of |-> Subjects({cpu, v})]
            /\ cpu' = None /\ Continue(step + 2)
  <2>1. cpu \in Average /\ Accepted(cpu)
    BY <1>2, <1>5 DEF IInv, UsageOK, Reading
  <2>2. /\ Subjects({cpu, v}) \subseteq {described}
        /\ Subjects({cpu, v}) \subseteq Uid
    BY <1>2, <1>5, <2>1 DEF Subjects, Accepted, Average
  <2>3. UsageIsOfDescribed'
    BY <1>2, <1>5, <2>2 DEF UsageIsOfDescribed
  <2>4. step + 1 \in 1..Len(P) /\ P[step + 1].of = "metrics"
    BY <1>2, <1>5, ToMetricsFacts
  <2>5. step + 2 <= Len(P) => P[step + 2].of # "memory"
    <3>. PICK n : n = step + 1
      OBVIOUS
    <3>1. n \in 1..Len(P) /\ P[n].of # "cpu" /\ n + 1 = step + 2
      BY <1>3, <2>4
    <3> QED
      BY <1>3, <3>1, NotMemory
  <2>6. \A n \in 1..Len(P) : step <= n /\ n < step + 2 => P[n].of \in usages
    <3>1. \A n \in 1..Len(P) : step <= n /\ n < step + 2 => n = step \/ n = step + 1
      BY <1>3
    <3> QED
      BY <1>3, <1>5, <2>4, <3>1 DEF usages
  <2>7. step + 2 \in Nat /\ step + 2 > step
    BY <1>3
  <2>8. request.tool # "jobs_log"
    BY <1>2, NoLogs DEF Reading, usages
  <2>9. usage' \in [source : {"custom", "metrics"}, of : SUBSET (Uid \cup {None})]
    BY <1>5, <2>2
  <2> QED
    BY <1>2, <1>5, <2>3, <2>5, <2>6, <2>7, <2>8, <2>9, NoCollection, MovesOK
<1>6. CASE ~Accepted(v) /\ cpu' = None /\ usage' = usage /\ ToMetrics
  BY <1>2, <1>6, GivesUpOK
<1> QED
  BY <1>1, <1>4, <1>5, <1>6

\* Pods that are selected by the uid of what is described are that object's.
LEMMA ReadMetricsOK ==
  ASSUME IInv, ReadMetrics
  PROVE  IInv'
<1>. PICK P : P = Plan(request)
  OBVIOUS
<1>1. /\ at = "reading" /\ Section = "metrics" /\ Continue(step + 1)
      /\ UNCHANGED <<cluster, request, described, cpu, got>>
  BY DEF ReadMetrics, Reading
<1>2. PICK pods \in SUBSET Selected("pods"),
           of \in (IF request.tool \in {"pods_describe", "nodes_describe"}
                     THEN {{i} : i \in instances}
                     ELSE {{p.owner : p \in q} : q \in SUBSET Selected("pods")}) :
         /\ usage' = IF of = {} THEN None ELSE [source |-> "metrics", of |-> of]
  BY DEF ReadMetrics
<1>3. /\ step \in 1..Len(P) /\ Len(P) \in Nat /\ P[step].of = "metrics"
      /\ PlanOK(P, request.tool)
  BY <1>1, SectionFacts
<1>4. "pods" \in Collection /\ "object" \in Collection
  BY DEF Collection
<1>5. of \subseteq Uid \cup {None}
  <2>1. instances \subseteq Uid /\ stored["pods"] \subseteq Object
    BY <1>4 DEF IInv, ShapeOK, TypeOK
  <2>2. \A p \in Selected("pods") : p.owner \in Uid \cup {None}
    BY <2>1 DEF Selected, Object
  <2> QED
    BY <1>2, <2>1, <2>2
<1>6. ByUid => of \subseteq {described}
  <2>1. ByUid => \A p \in Selected("pods") : p.owner = described
    BY DEF Selected
  <2>2. ByUid => request.tool \notin {"pods_describe", "nodes_describe"}
    BY DEF ByUid
  <2> QED
    BY <1>2, <2>1, <2>2
<1>7. UsageIsOfDescribed'
  <2>1. ByUid' <=> ByUid
    BY <1>1 DEF ByUid
  <2> QED
    BY <1>1, <1>2, <1>6, <2>1 DEF UsageIsOfDescribed
<1>8. usage' \in [source : {"custom", "metrics"}, of : SUBSET (Uid \cup {None})] \cup {None}
  BY <1>2, <1>5
<1>9. step + 1 <= Len(P) => P[step + 1].of # "memory"
  BY <1>3, NotMemory
<1>10. \A n \in 1..Len(P) : step <= n /\ n < step + 1 => P[n].of \in usages
  <2>1. \A n \in 1..Len(P) : step <= n /\ n < step + 1 => n = step
    BY <1>3
  <2> QED
    BY <1>3, <2>1 DEF usages
<1>11. request.tool # "jobs_log"
  BY <1>1, NoLogs DEF usages
<1>12. step + 1 \in Nat /\ step + 1 > step
  BY <1>3
<1> QED
  BY <1>1, <1>7, <1>8, <1>9, <1>10, <1>11, <1>12, AverageTypes, NoCollection, MovesOK

-----------------------------------------------------------------------------
(* Reading the cluster.                                                    *)

LEMMA ReadOK ==
  ASSUME IInv, Read
  PROVE  IInv'
<1>. PICK P : P = Plan(request)
  OBVIOUS
<1>. PICK c : c = Section
  OBVIOUS
<1>. PICK k : k = IF c = "nodepools" /\ stored[c] = {} THEN step + 2 ELSE step + 1
  OBVIOUS
<1>1. /\ at = "reading" /\ c \in Collection \ {"log"} /\ Found(c)
      /\ got' = [got EXCEPT ![c] = Selected(c)]
      /\ described' = IF c = "object" THEN Newest(stored["object"]).uid ELSE described
      /\ Continue(k)
      /\ UNCHANGED <<cluster, request, cpu, usage>>
  BY DEF Read, Reading
<1>2. /\ step \in 1..Len(P) /\ Len(P) \in Nat /\ c = P[step].of
      /\ PlanOK(P, request.tool) /\ DOMAIN P = 1..Len(P)
  <2>1. /\ step \in 1..Len(P) /\ Len(P) \in Nat /\ c = P[step].of
        /\ PlanOK(P, request.tool)
    BY <1>1, SectionFacts
  <2> QED
    BY <2>1 DEF PlanOK
<1>3. UNCHANGED <<stored, served, instances, throughout, changes>>
  BY <1>1 DEF cluster
<1>4. /\ Plan(request)' = P /\ collections' = collections
      /\ (ByUid' <=> ByUid) /\ request.tool' = request.tool
  BY <1>1, RequestStays
<1>5. /\ stored \in [Collection -> SUBSET Object] /\ got \in [Collection -> SUBSET Object]
      /\ throughout \in [Collection -> SUBSET Object] /\ ClusterOK
      /\ "pods" \in Collection /\ "object" \in Collection /\ "log" \in Collection
      /\ "nodepools" \in Collection
  BY DEF IInv, TypeOK, Collection
<1>6. Selected(c) \subseteq stored[c]
      /\ Selected(c) = IF c = "pods" /\ ByUid
                         THEN {o \in stored[c] : o.owner = described} ELSE stored[c]
  BY DEF Selected
<1>7. /\ got' \in [Collection -> SUBSET Object]
      /\ \A d \in Collection : got'[d] = IF d = c THEN Selected(c) ELSE got[d]
  BY <1>1, <1>5, <1>6
<1>8. c = "object" => step = 1
  BY <1>2, FirstReads
<1>9. c = "nodepools" => step = 1 /\ Len(P) = 2 /\ P[2].of = "nodes"
  BY <1>2, FirstReads
<1>10. /\ k \in Nat /\ k > step /\ step' = k
       /\ \/ k > Len(P) /\ at' = "answered"
          \/ k <= Len(P) /\ at' = "reading"
  BY <1>1, <1>2 DEF Continue
<1>11. TypeOK'
  <2>1. at' = "reading" => step' \in DOMAIN P
    <3>1. k <= Len(P) => k \in 1..Len(P)
      BY <1>2, <1>10
    <3> QED
      BY <1>2, <1>10, <3>1
  <2>2. described' \in Uid \cup {None}
    <3>1. CASE c = "object"
      <4>1. stored["object"] # {} /\ stored["object"] \in SUBSET Object
        BY <1>1, <1>5, <3>1 DEF Found, single
      <4>2. Newest(stored["object"]) \in Object
        BY <4>1, NewestFacts
      <4> QED
        BY <1>1, <3>1, <4>2 DEF Object
    <3>2. CASE c # "object"
      BY <1>1, <3>2 DEF IInv, TypeOK
    <3> QED
      BY <3>1, <3>2
  <2> QED
    BY <1>1, <1>3, <1>4, <1>7, <1>10, <2>1, <2>2 DEF IInv, TypeOK
<1>12. ShapeOK' /\ ClusterOK'
  <2>1. step' \in Nat \ {0}
    BY <1>2, <1>10
  <2> QED
    BY <1>1, <1>3, <2>1 DEF IInv, ShapeOK, ClusterOK
<1>13. UsageIsOfDescribed'
  <2>1. CASE c = "object"
    <3>1. usage' = None
      BY <1>1, <1>8, <2>1 DEF IInv, UsageOK
    <3> QED
      BY <3>1 DEF UsageIsOfDescribed
  <2>2. CASE c # "object"
    BY <1>1, <1>4, <2>2 DEF IInv, UsageIsOfDescribed
  <2> QED
    BY <2>1, <2>2
<1>14. UsageOK'
  <2>1. step' # 1
    BY <1>2, <1>10
  <2>2. c # "cpu"
    BY <1>1, NoCollection DEF usages
  <2>3. k <= Len(P) => P[k].of # "memory"
    <3>1. CASE k = step + 1
      BY <1>2, <2>2, <3>1, NotMemory
    <3>2. CASE k = step + 2
      BY <1>2, <1>9, <3>2
    <3> QED
      BY <3>1, <3>2
  <2>4. ~ Reading({"memory"})'
    BY <1>4, <1>10, <2>3 DEF Reading, Section
  <2> QED
    BY <2>1, <2>4 DEF UsageOK
<1>15. Distinct(got["pods"])'
  BY <1>5, <1>6, <1>7 DEF IInv, ClusterOK, Distinct
<1>16. ReadsOK'
  <2> SUFFICES ASSUME request.tool \notin describing, NEW n \in 1..Len(P),
                      Passed(n)', P[n].of \in Collection \ {"log"}
               PROVE  Has(P[n].of)'
    BY <1>4 DEF ReadsOK
  <2>. PICK d : d = P[n].of
    OBVIOUS
  <2>1. n < k
    <3>1. CASE at' = "reading"
      BY <1>10, <3>1 DEF Passed
    <3>2. CASE k > Len(P)
      BY <1>2, <1>10, <3>2
    <3> QED
      BY <1>10, <3>1, <3>2
  <2>2. throughout[c] \subseteq stored[c]
    BY <1>1, <1>5 DEF ClusterOK
  <2>3. CASE d = c
    <3>1. c = "pods" => described' = described
      BY <1>1
    <3>2. {o \in throughout[c] : c = "pods" /\ ByUid => o.owner = described'}
          \subseteq Selected(c)
      BY <1>6, <2>2, <3>1
    <3> QED
      BY <1>1, <1>3, <1>4, <1>7, <2>3, <3>2 DEF Has
  <2>4. CASE d # c /\ n < step
    <3>1. Has(d)
      <4>1. Passed(n) /\ at # "failed"
        BY <1>1, <2>4 DEF Passed
      <4> QED
        BY <4>1 DEF IInv, ReadsOK
    <3>2. c # "object" /\ c # "nodepools"
      BY <1>2, <1>8, <1>9, <2>4
    <3>3. described' = described /\ got'[d] = got[d] /\ got'["nodepools"] = got["nodepools"]
      BY <1>1, <1>5, <1>7, <2>4, <3>2
    <3> QED
      BY <1>3, <1>4, <3>1, <3>3 DEF Has
  <2>5. CASE d # c /\ ~(n < step)
    <3>1. n # step /\ step < n
      BY <1>2, <2>5
    <3>2. c = "nodepools" /\ stored[c] = {} /\ n = step + 1
      BY <1>2, <2>1, <3>1
    <3>3. n = 2 /\ d = "nodes" /\ step = 1
      BY <1>9, <3>2
    <3>4. got'["nodepools"] = {}
      BY <1>5, <1>6, <1>7, <3>2
    <3>5. "nodepools" \in collections
      <4>1. P[step].of = "nodepools" /\ step \in DOMAIN P
        BY <1>2, <3>2
      <4> QED
        BY <4>1 DEF collections
    <3> QED
      BY <1>4, <3>3, <3>4, <3>5 DEF Has
  <2> QED
    BY <2>3, <2>4, <2>5
<1>17. LogsOK'
  <2> SUFFICES ASSUME request.tool = "jobs_log"
               PROVE  /\ at' = "reading" /\ got'["log"] = {}
    BY <1>4 DEF LogsOK
  <2>1. Len(P) = 3 /\ P[1].of = "object" /\ P[2].of = "pods" /\ P[3].of = "log"
    BY <1>2 DEF PlanOK
  <2>2. step \in {1, 2} /\ c # "nodepools"
    BY <1>1, <1>2, <2>1
  <2>3. at' = "reading"
    BY <1>10, <2>1, <2>2
  <2>4. got["log"] = {}
    BY <1>1, <2>2 DEF IInv, LogsOK
  <2> QED
    BY <1>1, <1>5, <1>7, <2>3, <2>4
<1> QED
  BY <1>11, <1>12, <1>13, <1>14, <1>15, <1>16, <1>17 DEF IInv

\* Each log is of a pod that was to be fetched, under whose name there is no other.
LEMMA ReadLogOK ==
  ASSUME IInv, ReadLog
  PROVE  IInv'
<1>. PICK P : P = Plan(request)
  OBVIOUS
<1>1. /\ at = "reading" /\ Section = "log"
      /\ UNCHANGED <<cluster, request, described, cpu, usage>>
  BY DEF ReadLog, Reading
<1>2. /\ step \in 1..Len(P) /\ Len(P) \in Nat /\ P[step].of = "log"
      /\ PlanOK(P, request.tool) /\ step = Len(P)
  <2>1. /\ step \in 1..Len(P) /\ Len(P) \in Nat /\ P[step].of = "log"
        /\ PlanOK(P, request.tool)
    BY <1>1, SectionFacts
  <2> QED
    BY <2>1 DEF PlanOK
<1>3. PICK p \in ToFetch \ got["log"] :
       LET pods == IF request.tool = "pods_log" THEN stored["object"]
                   ELSE {p} \cap stored["pods"]
       IN  IF pods = {} THEN Fail /\ UNCHANGED got
           ELSE /\ got' = [got EXCEPT !["log"] = @ \cup pods]
                /\ IF ToFetch \subseteq got["log"] \cup {p} THEN Continue(step + 1)
                   ELSE UNCHANGED <<at, step>>
  BY DEF ReadLog
<1>. PICK pods : pods = IF request.tool = "pods_log" THEN stored["object"]
                        ELSE {p} \cap stored["pods"]
  OBVIOUS
<1>4. CASE pods = {}
  <2>1. Fail /\ got' = got
    BY <1>3, <1>4
  <2> QED
    BY <1>1, <2>1, FailsOK DEF Fail
<1>5. CASE pods # {}
  <2>1. /\ got' = [got EXCEPT !["log"] = @ \cup pods]
        /\ \/ ToFetch \subseteq got["log"] \cup {p} /\ Continue(step + 1)
           \/ UNCHANGED <<at, step>>
    BY <1>3, <1>5
  <2>2. /\ step' \in Nat \ {0} /\ step' >= step
        /\ \/ at' = "answered" /\ ToFetch \subseteq got["log"] \cup {p}
           \/ at' = "reading" /\ step' = step
    BY <1>1, <1>2, <2>1 DEF Continue
  <2>3. UNCHANGED <<stored, served, instances, throughout, changes>>
    BY <1>1 DEF cluster
  <2>4. /\ Plan(request)' = P /\ collections' = collections
        /\ (ByUid' <=> ByUid) /\ request.tool' = request.tool
        /\ (request.all_pods <=> request.all_pods)
    BY <1>1, RequestStays
  <2>5. /\ stored \in [Collection -> SUBSET Object]
        /\ got \in [Collection -> SUBSET Object]
        /\ "pods" \in Collection /\ "object" \in Collection /\ "log" \in Collection
        /\ "nodepools" \in Collection
    BY DEF IInv, TypeOK, Collection
  <2>6. /\ got' \in [Collection -> SUBSET Object]
        /\ \A c \in Collection : got'[c] = IF c = "log" THEN got[c] \cup pods ELSE got[c]
    BY <2>1, <2>5
  <2>7. TypeOK'
    <3>1. at' = "reading" => step' \in DOMAIN Plan(request)
      BY <1>1, <2>2 DEF IInv, TypeOK
    <3> QED
      BY <1>1, <2>2, <2>3, <2>4, <2>6, <3>1 DEF IInv, TypeOK
  <2>8. ShapeOK' /\ ClusterOK'
    BY <1>1, <2>2, <2>3 DEF IInv, ShapeOK, ClusterOK
  <2>9. UsageIsOfDescribed' /\ UsageOK'
    <3>1. UsageIsOfDescribed'
      BY <1>1, <2>4 DEF IInv, UsageIsOfDescribed
    <3>2. at' = "reading" /\ step' = 1 => usage' = None
      BY <1>1, <2>2 DEF IInv, UsageOK
    <3>3. ~ Reading({"memory"})'
      BY <1>2, <2>2, <2>4 DEF Reading, Section
    <3> QED
      BY <3>1, <3>2, <3>3 DEF UsageOK
  <2>10. Distinct(got["pods"])'
    BY <2>5, <2>6 DEF IInv, Distinct
  <2>11. ReadsOK'
    <3> SUFFICES ASSUME request.tool \notin describing, NEW n \in 1..Len(P),
                        P[n].of \in Collection \ {"log"}
                 PROVE  Has(P[n].of)'
      BY <2>4 DEF ReadsOK
    <3>1. n < step
      BY <1>2
    <3>2. Has(P[n].of)
      BY <1>1, <3>1 DEF IInv, ReadsOK, Passed
    <3> QED
      BY <1>1, <2>3, <2>4, <2>5, <2>6, <3>2 DEF Has
  <2>12. LogsOK'
    <3> SUFFICES ASSUME request.tool = "jobs_log"
                 PROVE  /\ got'["log"] \subseteq ToFetch'
                        /\ ~(step' < 3)
                        /\ at' = "answered" => got'["log"] # {} /\ ToFetch' \subseteq got'["log"]
      BY <2>4 DEF LogsOK
    <3>1. ToFetch' = ToFetch
      <4>1. got'["pods"] = got["pods"] /\ got'["object"] = got["object"]
        BY <2>5, <2>6
      <4> QED
        BY <1>1, <4>1 DEF ToFetch, Owned
    <3>2. pods = {p} /\ got'["log"] = got["log"] \cup {p}
      BY <1>5, <2>5, <2>6
    <3>3. Len(P) = 3
      BY <1>2 DEF PlanOK
    <3>4. got["log"] \subseteq ToFetch
      BY <1>1 DEF IInv, LogsOK
    <3> QED
      BY <1>2, <1>3, <2>2, <3>1, <3>2, <3>3, <3>4
  <2> QED
    BY <2>7, <2>8, <2>9, <2>10, <2>11, <2>12 DEF IInv
<1> QED
  BY <1>4, <1>5

LEMMA NoPodsOK ==
  ASSUME IInv, NoPods
  PROVE  IInv'
BY FailsOK DEF NoPods, Fail

LEMMA NextOK ==
  ASSUME IInv, [Next]_vars
  PROVE  IInv'
<1>1. CASE UNCHANGED vars
  <2>1. UNCHANGED <<stored, served, instances, throughout, changes, request, at, step,
                    described, cpu, usage, got>>
    BY <1>1 DEF vars, cluster
  <2>2. TypeOK' /\ ShapeOK' /\ ClusterOK' /\ Distinct(got["pods"])'
    BY <2>1 DEF IInv, TypeOK, ShapeOK, ClusterOK
  <2>3. (UsageIsOfDescribed /\ UsageOK /\ LogsOK)'
    BY <2>1, WaitingOK DEF IInv
  <2>4. ReadsOK'
    <3>1. /\ Plan(request)' = Plan(request) /\ collections' = collections
          /\ ByUid' <=> ByUid
      BY <2>1, RequestStays
    <3> QED
      BY <2>1, <3>1 DEF IInv, ReadsOK, Passed, Has
  <2> QED
    BY <2>2, <2>3, <2>4 DEF IInv
<1> QED
  BY <1>1, ChangeOK, ReadOK, NotFoundOK, RequestFailsOK, ReadAverageOK, NoAverageOK,
     ReadMetricsOK, ReadLogOK, NoPodsOK DEF Next

LEMMA InductiveInvariant == Spec => []IInv
BY InitOK, NextOK, PTL DEF Spec

-----------------------------------------------------------------------------
(* What follows.                                                           *)

\* Calls and their answers have the shapes above, and the objects of the cluster too.
THEOREM TypeCorrect == Spec => []TypeOK
<1>1. IInv => TypeOK
  BY DEF IInv
<1> QED
  BY <1>1, InductiveInvariant, PTL

\* Averages, and sums over pods that are selected by uid, are of what is described.
THEOREM UsageHonest == Spec => []UsageIsOfDescribed
<1>1. IInv => UsageIsOfDescribed
  BY DEF IInv
<1> QED
  BY <1>1, InductiveInvariant, PTL

\* The answer of a tool that does not describe misses nothing that was there all the
\* time.
THEOREM Complete == Spec => []AnswersAreComplete
<1>1. IInv => AnswersAreComplete
  <2> SUFFICES ASSUME IInv, at = "answered", request.tool \notin describing,
                      NEW c \in collections,
                      ~(c = "pods" /\ request.tool = "cronjobs_describe")
               PROVE  Has(c)
    BY DEF AnswersAreComplete, Has
  <2>. PICK P : P = Plan(request)
    OBVIOUS
  <2>1. c \in Collection \ {"log"} /\ PlanOK(P, request.tool)
    BY CollectionsFacts, TheRequest DEF IInv
  <2>2. \E n \in 1..Len(P) : P[n].of = c
    <3>1. DOMAIN P = 1..Len(P)
      BY <2>1 DEF PlanOK
    <3>2. CASE \E n \in DOMAIN P : P[n].of = c
      BY <3>1, <3>2
    <3>3. CASE c = "pods" /\ \E n \in DOMAIN P : P[n].of = "metrics"
      BY <2>1, <3>1, <3>3 DEF PlanOK
    <3> QED
      BY <3>2, <3>3 DEF collections
  <2> QED
    BY <2>1, <2>2 DEF IInv, ReadsOK, Passed
<1> QED
  BY <1>1, InductiveInvariant, PTL

\* jobs_log shows pods of its Job only, and of those that were there all the time all,
\* or the newest.
THEOREM LogsHonest == Spec => []LogsAreOfTheJob
<1>1. IInv => LogsAreOfTheJob
  <2> SUFFICES ASSUME IInv, at = "answered", request.tool = "jobs_log"
               PROVE  /\ \A p \in got["log"] : p.owner = described
                      /\ \A p \in {q \in throughout["pods"] : q.owner = described} :
                           \/ p \in got["log"]
                           \/ /\ ~request.all_pods
                              /\ \E q \in got["log"] : p.uid < q.uid
    BY DEF LogsAreOfTheJob
  <2>. PICK P : P = Plan(request)
    OBVIOUS
  <2>1. got["log"] # {} /\ got["log"] = ToFetch
    BY DEF IInv, LogsOK
  <2>2. Owned \in SUBSET Object /\ Distinct(Owned)
    <3>1. got["pods"] \in SUBSET Object
      BY DEF IInv, TypeOK, Collection
    <3> QED
      BY <3>1 DEF IInv, Owned, Distinct
  <2>3. Owned # {}
    BY <2>1 DEF ToFetch
  <2>4. /\ Newest(Owned) \in Owned
        /\ \A p \in Owned : p.uid <= Newest(Owned).uid
    BY <2>2, <2>3, NewestFacts
  <2>5. \A p \in got["log"] : p.owner = described
    BY <2>1, <2>4 DEF ToFetch, Owned
  <2>6. {q \in throughout["pods"] : q.owner = described} \subseteq Owned
    <3>1. /\ PlanOK(P, request.tool) /\ request.tool \notin describing
          /\ "pods" \in Collection \ {"log"} /\ ~ByUid
      BY TheRequest DEF IInv, describing, Collection, ByUid
    <3>2. Len(P) = 3 /\ P[2].of = "pods"
      BY <3>1 DEF PlanOK
    <3>3. Has("pods")
      BY <3>1, <3>2 DEF IInv, ReadsOK, Passed
    <3> QED
      BY <3>1, <3>3 DEF Has, Owned
  <2>7. CASE request.all_pods
    BY <2>1, <2>5, <2>6, <2>7 DEF ToFetch
  <2>8. CASE ~request.all_pods
    <3>1. got["log"] = {Newest(Owned)}
      BY <2>1, <2>3, <2>8 DEF ToFetch
    <3>2. ASSUME NEW p \in Owned
          PROVE  p = Newest(Owned) \/ p.uid < Newest(Owned).uid
      <4>1. p.uid \in Nat /\ Newest(Owned).uid \in Nat
        BY <2>2, <2>4, ChangesAssumption DEF Object, Uid
      <4> QED
        BY <2>2, <2>4, <4>1 DEF Distinct
    <3> QED
      BY <2>1, <2>5, <2>6, <2>8, <3>1, <3>2
  <2> QED
    BY <2>7, <2>8
<1> QED
  BY <1>1, InductiveInvariant, PTL

=============================================================================
