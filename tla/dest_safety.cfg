\* One stunnel and one null destination, each in its own namespace.
CONSTANTS
    d1 = d1  d2 = d2  ns1 = ns1  ns2 = ns2  NoOwner = NoOwner
    Owners = {d1, d2}
    Namespaces = {ns1, ns2}
    NsOf <- TwoNsOf
    TransportOf <- MixedTransports
    MaxIter = 2
    MaxFaults = 1
    MaxRestarts = 0
    CrashLoop = TRUE
    RouteIngressPort = 443
    RouteBackendPort = 6443
SPECIFICATION Spec
INVARIANTS TypeOK PortsConnect
PROPERTIES IterationRefined
