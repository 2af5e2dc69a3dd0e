\* One stunnel source through two iterations, reading from the API server.
CONSTANTS
    s1 = s1  s2 = s2  ns1 = ns1  ns2 = ns2  nameA = nameA  nameB = nameB
    p1 = p1  p2 = p2  p3 = p3  NoOwner = NoOwner
    Owners = {s1}
    Namespaces = {ns1}
    Names = {nameA}
    NsOf <- OneNsOf
    NameOf <- OneName
    TransportOf <- StunnelOnly
    PodIds = {p1, p2}
    MaxIter = 2
    MaxFaults = 0
    StaleCache = FALSE
SPECIFICATION Spec
PROPERTIES ObservesOwnClient
