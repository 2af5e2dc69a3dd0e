\* Every option type, in lists of up to three options.
CONSTANTS
    m1 = m1
    m2 = m2
    v1 = v1
    Mutations = {m1, m2}
    Values = {v1}
    Kinds <- AllKinds
    MaxOpts = 3
SPECIFICATION Spec
INVARIANTS
    CommandValidates
\* Apply returns after the last option of the list.
CHECK_DEADLOCK FALSE
