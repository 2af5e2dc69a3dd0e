------------------------- MODULE MCRsyncDestination -------------------------
(* Model-checking instances of RsyncDestination.                           *)
EXTENDS RsyncDestination

CONSTANTS d1, d2, ns1, ns2

\* d1 tunnels through stunnel and a route, d2 uses the null transport and a
\* load balancer, each in its own namespace.
TwoNsOf == [o \in {d1, d2} |-> IF o = d1 THEN ns1 ELSE ns2]
MixedTransports == [o \in {d1, d2} |-> IF o = d1 THEN "stunnel" ELSE "null"]

\* Both destinations in one namespace.
SharedNsOf == [o \in {d1, d2} |-> ns1]

OneNsOf == [o \in {d1} |-> ns1]
StunnelOnly == [o \in {d1} |-> "stunnel"]

NullNsOf == [o \in {d2} |-> ns2]
NullOnly == [o \in {d2} |-> "null"]
=============================================================================
