\* Two domains and the kernel, page 1 is read-only; two CPUs and nine objects;
\* two ECs and two vCPUs on one CPU.
CONSTANTS
    PDs = {a, b}
    Kern = kern
    PageOrder = 1
    ReadOnly = {1}
    Claimed = {}
    Phys = 2
    UtcbFrame = 10
    KpFrame = 11
    ApicFrame = 12
    Offers <- MCOffers
    NoPd = None
    NoWindow = None
    MaxOps = 3
    MaxCached = 1
    CPUs = {0, 1}
    Objs = {"p", "q", "e", "l", "s", "t", "m", "k", "v"}
    Local = {"l"}
    Bad = Bad
    Kind <- MCKind
    Home <- MCHome
    Scenarios <- MCScenarios
    ECs = {"e1", "e2"}
    Idle = "idle"
    VCPUs = {"v1", "v2"}
    None = None
    Vals = {1}
    Xcr0s <- MCXcr0s
    Scb = {"X87", "SSE", "AVX"}
SPECIFICATION MCSpec
SYMMETRY Symmetry
INVARIANTS
    MemoryBounded
    NoUseAfterFree
    RefsExact
    
PROPERTY
    DelegationConfined
\* Operations and scenarios are bounded.
CHECK_DEADLOCK FALSE
