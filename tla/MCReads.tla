------------------------------ MODULE MCReads ------------------------------
(***************************************************************************)
(* A finite instance of Reads: every tool, with every choice of arguments  *)
(* that changes what it does.  The kinds of workloads are alike.           *)
(***************************************************************************)
EXTENDS Reads

AllRequests ==
  {r \in Request : r.tool = "workloads_list" => r.kind \in {None, "deployments"}}
=============================================================================
