------------------------------ MODULE LoginFlow ------------------------------
(***************************************************************************)
(* What the OAuth proxy promises about each login that passes its          *)
(* /authorize, whatever handlers, sweeper and restarts do: it is opened    *)
(* once, may be turned into one authorization code, which may be turned    *)
(* into one token, and once it is closed nothing comes of it any more.     *)
(* Several logins may be closed in one step (a sweep, a restart), also     *)
(* while another one is opened (an /authorize that makes room), but never  *)
(* do two logins obtain their token in the same step.                      *)
(***************************************************************************)
CONSTANT Flow

VARIABLE phase

Phase == {"new", "open", "coded", "delivered", "closed"}

Init == phase = [f \in Flow |-> "new"]

\* How one login may move.
Edge ==
  {<<"new", "open">>,
   <<"open", "coded">>, <<"open", "closed">>,
   <<"coded", "delivered">>, <<"coded", "closed">>}

Moves(f) == phase'[f] # phase[f]

Next ==
  /\ phase' \in [Flow -> Phase]
  /\ \A f \in Flow : Moves(f) => <<phase[f], phase'[f]>> \in Edge
  /\ \A f, g \in Flow :
       /\ Moves(f) /\ phase'[f] \in {"open", "coded", "delivered"}
       /\ Moves(g) /\ phase'[g] \in {"open", "coded", "delivered"}
       => f = g

Spec == Init /\ [][Next]_phase

=============================================================================
