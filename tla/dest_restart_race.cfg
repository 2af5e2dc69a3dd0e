\* One stunnel destination whose rsync container the kubelet keeps
\* restarting (restartPolicy Always), with that restart weakly fair.
CONSTANTS
    d1 = d1  d2 = d2  ns1 = ns1  ns2 = ns2  NoOwner = NoOwner
    Owners = {d1}
    Namespaces = {ns1}
    NsOf <- OneNsOf
    TransportOf <- StunnelOnly
    MaxIter = 1
    MaxFaults = 0
    MaxRestarts = 1
    CrashLoop = TRUE
    RouteIngressPort = 443
    RouteBackendPort = 6443
SPECIFICATION Spec
PROPERTIES IterationsComplete
\* When its owner is done the outer reconciler no longer calls the mover.
CHECK_DEADLOCK FALSE
