\* Clients a and b, servers s and t, one semaphore; u is on the other CPU.
SPECIFICATION FairSpec
CONSTANTS
    cpu1 = cpu1  cpu2 = cpu2
    a = a  b = b  u = u  s = s  t = t
    sa = sa  sb = sb  su = su
    CPUs = {cpu1, cpu2}
    Globals = {a, b, u}
    Locals = {s, t}
    Scs = {sa, sb, su}
    Sms = {m}
    Home <- MCHome
    Owner <- MCOwner
    Prio <- MCPrio
    Startup <- MCStartup
    LoopMax = 6
    MaxCount = 1
    Mortal = {sa}
    Starts = {{sa, sb}, {sa, su}}
    NONE = NONE
INVARIANTS CallChains  SemaphoreSound NoOrphanedCall
PROPERTIES KernelExits
CHECK_DEADLOCK FALSE
