SPECIFICATION FairSpec
CONSTANTS
    ECs = {e1, e2}
    VCPUs = {v1, v2}
    Passthrough = {v1}
    Injected = {v1}
    Sipi = {v2}
    NoEc = NoEc
    NoVcpu = NoVcpu
    MaxRuns = 2
    MaxCalls = 2
INVARIANTS
    OwnerRuns
    GuestTlbFresh
    
PROPERTY
    PokeReturns
\* The system calls are bounded.
CHECK_DEADLOCK FALSE
