--------------------------- MODULE MCHelmReleases ---------------------------
(***************************************************************************)
(* A finite instance of HelmReleases, and the histories it begins with.    *)
(***************************************************************************)
EXTENDS HelmReleases, TLC

CONSTANTS A, B

Rev(content, status) == [content |-> content, status |-> status, age |-> 0]

\* A release that was installed, is being installed, was upgraded once, and whose
\* last upgrade failed or never ended.
HelmHistories ==
  {<<Rev(A, "deployed")>>, <<Rev(A, "pending-install")>>,
   <<Rev(A, "superseded"), Rev(B, "deployed")>>,
   <<Rev(A, "deployed"), Rev(B, "failed")>>,
   <<Rev(A, "superseded"), Rev(B, "deployed"), Rev(A, "pending-upgrade")>>}

Symmetry == Permutations(Handler)
=============================================================================
