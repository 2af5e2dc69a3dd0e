\* A stunnel destination and a null destination in the same namespace.
CONSTANTS
    d1 = d1  d2 = d2  ns1 = ns1  ns2 = ns2  NoOwner = NoOwner
    Owners = {d1, d2}
    Namespaces = {ns1}
    NsOf <- SharedNsOf
    TransportOf <- MixedTransports
    MaxIter = 1
    MaxFaults = 0
    MaxRestarts = 0
    CrashLoop = FALSE
    RouteIngressPort = 443
    RouteBackendPort = 6443
SPECIFICATION Spec
INVARIANTS LocalhostOnly
