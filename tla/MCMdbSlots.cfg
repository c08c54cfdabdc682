\* A delegation and a revocation at the same time.
CONSTANTS
    PDs = {p1, p2}
    Objects = {o1}
    Derived = {n1}
    NoNode = NoNode
    NoPd = NoPd
    Rights = {r1}
    Delegators = {c1}
    Revokers = {c2}
SPECIFICATION Spec
INVARIANT SlotsFollowNodes
