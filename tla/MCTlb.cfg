CONSTANTS
    NumCpus = 2
    Initiators = {0, 1}
    PDs = {p, q}
    Target = p
    g1 = g1
    g2 = g2
    Pages = {g1, g2}
    OtherNmis = 1
    CounterMod = 3
SPECIFICATION MCSpec
INVARIANTS RevokedUnused NmiWorkKept
PROPERTY ShootdownReturns
