\* One null-transport destination (load balancer, no sidecar).
CONSTANTS
    d1 = d1  d2 = d2  ns1 = ns1  ns2 = ns2  NoOwner = NoOwner
    Owners = {d2}
    Namespaces = {ns2}
    NsOf <- NullNsOf
    TransportOf <- NullOnly
    MaxIter = 1
    MaxFaults = 0
    MaxRestarts = 1
    CrashLoop = TRUE
    RouteIngressPort = 443
    RouteBackendPort = 6443
SPECIFICATION Spec
PROPERTIES IterationsComplete
