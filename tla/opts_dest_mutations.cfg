\* A source and a destination container mutation.
CONSTANTS
    m1 = m1
    m2 = m2
    v1 = v1
    Mutations = {m1, m2}
    Values = {v1}
    Kinds <- ContainerKinds
    MaxOpts = 2
SPECIFICATION Spec
INVARIANT DestinationMutationsKept
CHECK_DEADLOCK FALSE
