\* Three CPUs and four tickets on the lock; three of four processors; two CPUs that
\* wake SCs; one kind of every MTD item whose representation differs; four slabs of two
\* objects; two ports.
CONSTANTS
    CPUs = {c1, c2, c3}
    TicketMod = 4
    Procs = {0, 2, 4, 5}
    Bsp = 0
    Madt <- MCMadt
    NUM_CPU = 3
    SleepCalls <- MCSleepCalls
    MaxSuspends = 2
    MaxWakeups = 1
    Scs = {"s1", "s3"}
    Idle = "idle"
    Prio <- MCPrio
    MaxPrio = 2
    Wakers = {"w1", "w2"}
    Items = {"GPR_ACDB", "RSP", "RIP_LEN", "RFLAGS", "CS_SS", "CR", "DR", "QUAL", "CTRL", "INJ", "TSC_TIMEOUT", "EOI", "VINTR"}
    Passthrough = FALSE
    CrBits = {"PE", "NE", "CD", "TS"}
    FixSet = {"NE"}
    FixClr = {"CD"}
    Mon = {"TS"}
    Allowed0 = {"IO", "SECONDARY", "HLT", "TPR_SHADOW", "MTF", "INTR_WINDOW", "NMI_WINDOW"}
    Allowed1 = {"EPT", "VPID", "URG", "VINT"}
    Shift = 1
    TimerMax = 2
    MaxTicks = 6
    MaxRuns = 2
    NumSlabs = 4
    Elem = 2
    Null = Null
    Banks <- MCBanks
    Fixed <- MCFixed
    Regions <- MCRegions
    DefaultType = 5
    MaxOrder = 3
    AddrBits = 20
    Top = 1000000
    PDs = {"root", "sub"}
    Kern = "kern"
    Priv = {"root"}
    PortBits = 1
    Rights = {"r", "w"}
    Masks = {{"r"}, {"r", "w"}}
    Subs <- MCSubs
    Receive <- MCReceive
SPECIFICATION MCSpec
INVARIANTS
    MutualExclusion
    MachineSafe
    QueuesExact
    StateLegal
    SlabListExact
    MemoryTyped
    
    PoolAndTreeExact
PROPERTIES
    EveryLockReturns
    
    
    
\* Suspends, runs of the vCPU and allocations are bounded.
CHECK_DEADLOCK FALSE
