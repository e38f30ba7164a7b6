---------------------------- MODULE MCOAuthProxy ----------------------------
(***************************************************************************)
(* Finite instances of OAuthProxy.  The requests are chosen so that two    *)
(* clients differ in identity, redirect URI, challenge and method.         *)
(***************************************************************************)
EXTENDS OAuthProxy, TLC

CONSTANTS c1, c2, r1, r2, rs, v1, v2

\* A client with an S256 challenge, and one that leaves the method out.
RaceAuthRequests ==
  {[client |-> c1, redirect |-> r1, challenge |-> [hashed |-> TRUE, of |-> v1],
    method |-> "S256"],
   [client |-> c2, redirect |-> r1, challenge |-> [hashed |-> FALSE, of |-> v2],
    method |-> ""]}

\* The two clients as they should ask, one with the identity of the other,
\* and one with another redirect URI.
RaceTokenRequests ==
  {[client |-> c1, redirect |-> r1, verifier |-> v1],
   [client |-> c2, redirect |-> r1, verifier |-> v1],
   [client |-> c2, redirect |-> r1, verifier |-> v2],
   [client |-> c1, redirect |-> rs, verifier |-> v1]}

\* Two URIs of one client, an https URI, and a request without a challenge.
LimitAuthRequests ==
  {[client |-> c1, redirect |-> r1, challenge |-> [hashed |-> TRUE, of |-> v1],
    method |-> "S256"],
   [client |-> c1, redirect |-> r2, challenge |-> [hashed |-> TRUE, of |-> v1],
    method |-> "S256"],
   [client |-> c2, redirect |-> rs, challenge |-> [hashed |-> TRUE, of |-> v1],
    method |-> "S256"],
   [client |-> c2, redirect |-> r2, challenge |-> None, method |-> "plain"]}

\* With and without a verifier.
LimitTokenRequests ==
  {[client |-> c1, redirect |-> r1, verifier |-> v1],
   [client |-> c1, redirect |-> r1, verifier |-> None]}

\* The identities that no definition tells apart.
Symmetry ==
  Permutations(Handler) \cup Permutations(State)
    \cup Permutations(Code) \cup Permutations(Login)
=============================================================================
