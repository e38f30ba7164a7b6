-------------------------- MODULE MCFluxResources --------------------------
(***************************************************************************)
(* A finite instance of FluxResources: a Kustomization in namespace ns     *)
(* whose source is beside it or in namespace infra, as its spec says.      *)
(***************************************************************************)
EXTENDS FluxResources, TLC

CONSTANTS ns, infra, app, near, far, bare

Specs == {near, far, bare}

Refs == near :> [kind |-> "GitRepository", namespace |-> None, name |-> app]
          @@ far :> [kind |-> "GitRepository", namespace |-> infra, name |-> app]
          @@ bare :> None

Object1(kind, namespace) == [kind |-> kind, namespace |-> namespace, name |-> app]

FluxObjects ==
  [i \in Id |->
     CASE i = Object1("Kustomization", ns) -> near
       [] i.kind = "GitRepository" -> bare
       [] OTHER -> None]

Reconciles(kinds, sources_too) ==
  [tool : {"flux_reconcile"}, kind : kinds, namespace : {ns}, name : {app},
   with_source : sources_too]

FluxRequests ==
  Reconciles({"Kustomization"}, BOOLEAN)
  \cup Reconciles({"GitRepository", "other", "HelmRelease"}, {TRUE})
  \cup [tool : {"flux_reconciliation"}, kind : {"Kustomization"},
        namespace : {ns}, name : {app}, action : {"suspend", "resume"}]
  \cup [tool : {"flux_reconciliation"}, kind : {"GitRepository"},
        namespace : {ns}, name : {app}, action : {"suspend"}]
=============================================================================
