\* A CPU that switches to the domain during the shootdown.
CONSTANTS
    NumCpus = 2
    Initiators = {0}
    PDs = {p, q}
    Target = p
    Pages = {g1}
    OtherNmis = 0
    CounterMod = 3
SPECIFICATION Spec
INVARIANTS NoStaleUse
