CONSTANTS
    PDs = {p1, p2, p3}
    Objects = {o1}
    Derived = {n1, n2}
    NoNode = NoNode
    NoPd = NoPd
    Rights = {r1}
    Delegators = {c1}
    Revokers = {c2, c3}
SPECIFICATION Spec
SYMMETRY Symmetry
INVARIANTS TreeSound RevokeSound
CHECK_DEADLOCK FALSE
