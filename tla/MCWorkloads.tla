---------------------------- MODULE MCWorkloads ----------------------------
(***************************************************************************)
(* A finite instance of Workloads: one name in up to three kinds, clock    *)
(* ticks of half a second, and replica counts of three bits.               *)
(***************************************************************************)
EXTENDS Workloads, TLC

CONSTANT web

All == [kind : Kind, name : {web}]

RestartsOf(name, kinds) == [tool : {"workloads_restart"}, name : name, kind : kinds]
ScalesOf(kinds, counts) == [tool : {"workloads_scale"}, name : {web}, kind : kinds,
                          replicas : counts]

\* Kinds left out, given and wrong; counts at and beyond the edge of three bits.
WorkloadRequests ==
  RestartsOf({None, web}, {None, "statefulset"}) \cup RestartsOf({web}, {"other"})
  \cup ScalesOf({"deployment"}, {-1, 3, 4}) \cup ScalesOf({"daemonset"}, {2})

TwoKinds == {{w \in All : w.kind # "daemonset"}}

Symmetry == Permutations(Handler)
=============================================================================
