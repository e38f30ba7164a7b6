---------------------------- MODULE MCToolServer ----------------------------
(***************************************************************************)
(* Finite instances of ToolServer: two clusters, the active one with two   *)
(* contexts, three callers of whom one has an unverified email, and the    *)
(* ways to start the server that its code distinguishes.                   *)
(***************************************************************************)
EXTENDS ToolServer, TLC

CONSTANTS a, b, t1, t2, t3, d1, d2

ServerClaims ==
  t1 :> [valid |-> TRUE, email |-> d1, verified |-> TRUE]
    @@ t2 :> [valid |-> TRUE, email |-> d2, verified |-> TRUE]
    @@ t3 :> [valid |-> TRUE, email |-> d1, verified |-> FALSE]

\* Contexts 1 and 2 belong to a, 3 to b; 4 names no cluster.
Kubeconfig == 1 :> a @@ 2 :> a @@ 3 :> b @@ 4 :> None

Users == 1 :> {"token"} @@ 2 :> {"certificate"} @@ 3 :> {"basic", "certificate"}
           @@ 4 :> {}

Started(transport, issuer, domains, extensions, allow, as, kubeconfig, current) ==
  [transport |-> transport, issuer |-> issuer, domains |-> domains,
   extensions |-> extensions, allowDestructive |-> allow, as |-> as,
   kubeconfig |-> kubeconfig,
   clusterOf |-> IF kubeconfig THEN Kubeconfig ELSE [x \in Context |-> None],
   current |-> IF kubeconfig THEN current ELSE None,
   credentials |-> IF kubeconfig THEN Users ELSE [x \in Context |-> {}]]

\* With and without the gate, a kubeconfig, a current context and opt-in.
ServerConfigs ==
  {Started("http", TRUE, domains, {"all"}, allow, TRUE, kubeconfig, 2) :
     domains \in {{}, {d1}}, allow, kubeconfig \in BOOLEAN}
  \cup {Started("http", FALSE, {}, {"helm", "fluxcd"}, FALSE, FALSE, TRUE, 3),
        Started("stdio", TRUE, {d1}, {}, TRUE, TRUE, TRUE, 3),
        Started("http", TRUE, {d2}, {"karpenter"}, TRUE, FALSE, TRUE, None),
        Started("stdio", FALSE, {}, {"all", "helm"}, FALSE, FALSE, TRUE, 1),
        Started("http", TRUE, {}, {"helm", "unknown"}, FALSE, FALSE, TRUE, 1)}

Asks(token, tool, cluster) == [token |-> token, tool |-> tool, cluster |-> cluster]

ServerRequests ==
  {Asks(t1, "pods_list", None), Asks(t2, "pods_list", a),
   Asks(t1, "helm_list", b), Asks(t3, "pods_describe", b),
   Asks(t2, "flux_reconcile", b), Asks(t2, "pods_list", None),
   Asks(None, "workloads_scale", None), Asks(None, "pods_list", b),
   Asks(t1, "clusters_list", None)}

Symmetry == Permutations(Handler)
=============================================================================
