---------------------------- MODULE MCRsyncSource ----------------------------
EXTENDS RsyncSource, TLC

CONSTANTS s1, s2, ns1, ns2, nameA, nameB, p1, p2, p3

\* Two owners with the same name in different namespaces.
SameNameNsOf == (s1 :> ns1) @@ (s2 :> ns2)
SameName == (s1 :> nameA) @@ (s2 :> nameA)
MixedTransports == (s1 :> "stunnel") @@ (s2 :> "null")

\* Two stunnel owners in one namespace.
SharedNsOf == (s1 :> ns1) @@ (s2 :> ns1)
DistinctNames == (s1 :> nameA) @@ (s2 :> nameB)
StunnelBoth == (s1 :> "stunnel") @@ (s2 :> "stunnel")

\* One owner.
OneNsOf == s1 :> ns1
OneName == s1 :> nameA
StunnelOnly == s1 :> "stunnel"
=============================================================================
