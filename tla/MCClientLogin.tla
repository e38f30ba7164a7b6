---------------------------- MODULE MCClientLogin -----------------------------
(***************************************************************************)
(* A finite instance of ClientLogin: one client with two loopback ports,   *)
(* the ways to reach the server, and tokens enough for every attempt that  *)
(* the mishaps and the clock can spoil.                                    *)
(***************************************************************************)
EXTENDS ClientLogin

CONSTANTS c1, c2, c3, s1, s2, s3, s4, s5, g1, g2, g3, g4, g5,
          u1, u2, u3, u4, u5, r1, r2

public(scheme) == [scheme |-> scheme, host |-> "mcp.example.com"]

\* Straight; over TLS; through a proxy that ends TLS; through two proxies of
\* which the outer one ends TLS and both rewrite the Host.
AllRoads ==
  {[tls |-> FALSE, host |-> "mcp.example.com", proto |-> <<>>,
    forwarded |-> <<>>, base |-> public("http")],
   [tls |-> TRUE, host |-> "mcp.example.com", proto |-> <<>>,
    forwarded |-> <<>>, base |-> public("https")],
   [tls |-> FALSE, host |-> "mcp.example.com", proto |-> <<"https">>,
    forwarded |-> <<>>, base |-> public("https")],
   [tls |-> FALSE, host |-> "mimiops.svc", proto |-> <<"https", "http">>,
    forwarded |-> <<"mcp.example.com", "edge.internal">>,
    base |-> public("https")]}

\* What both clients send.
PeerAuthRequests == {authorizeRequest(c, p) : c \in ClientId, p \in Port}
PeerTokenRequests == {tokenRequest(c, p) : c \in ClientId, p \in Port}

IssuerOrigin == [scheme |-> "https", host |-> "issuer.example.com"]

Order ==
  LET place(q) == [x \in {q[i] : i \in DOMAIN q} |->
                     CHOOSE i \in DOMAIN q : q[i] = x]
      all == <<place(<<c1, c2, c3>>), place(<<s1, s2, s3, s4, s5>>),
               place(<<g1, g2, g3, g4, g5>>), place(<<u1, u2, u3, u4, u5>>),
               place(<<r1, r2>>)>>
  IN  [x \in UNION {DOMAIN all[i] : i \in DOMAIN all} |->
         (CHOOSE f \in {all[i] : i \in DOMAIN all} : x \in DOMAIN f)[x]]
=============================================================================
