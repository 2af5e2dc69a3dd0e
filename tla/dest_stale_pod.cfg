\* One stunnel destination through two iterations: does the second
\* iteration judge completion on its own rsync-server pod?
CONSTANTS
    d1 = d1  d2 = d2  ns1 = ns1  ns2 = ns2  NoOwner = NoOwner
    Owners = {d1}
    Namespaces = {ns1}
    NsOf <- OneNsOf
    TransportOf <- StunnelOnly
    MaxIter = 2
    MaxFaults = 0
    MaxRestarts = 0
    CrashLoop = FALSE
    RouteIngressPort = 443
    RouteBackendPort = 6443
SPECIFICATION Spec
PROPERTIES ObservesOwnPod
