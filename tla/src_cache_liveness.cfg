\* One stunnel owner whose List and Get read a lagging informer cache.
CONSTANTS
    s1 = s1  s2 = s2  ns1 = ns1  ns2 = ns2  nameA = nameA  nameB = nameB
    p1 = p1  p2 = p2  p3 = p3  NoOwner = NoOwner
    Owners = {s1}
    Namespaces = {ns1}
    Names = {nameA}
    NsOf <- OneNsOf
    NameOf <- OneName
    TransportOf <- StunnelOnly
    PodIds = {p1, p2}
    MaxIter = 2
    MaxFaults = 1
    StaleCache = TRUE
SPECIFICATION Spec
PROPERTIES SourceIterationsComplete
