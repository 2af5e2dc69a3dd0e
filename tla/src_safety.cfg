\* A stunnel owner and a null owner with the same name in two namespaces;
\* List and Get read the API server.
CONSTANTS
    s1 = s1  s2 = s2  ns1 = ns1  ns2 = ns2  nameA = nameA  nameB = nameB
    p1 = p1  p2 = p2  p3 = p3  NoOwner = NoOwner
    Owners = {s1, s2}
    Namespaces = {ns1, ns2}
    Names = {nameA}
    NsOf <- SameNameNsOf
    NameOf <- SameName
    TransportOf <- MixedTransports
    PodIds = {p1, p2, p3}
    MaxIter = 2
    MaxFaults = 1
    StaleCache = FALSE
SPECIFICATION Spec
INVARIANTS TypeOK SingleClient
PROPERTIES SourceIterationRefined SourceIterationsComplete
