\* One SC in user space, two others woken from outside.
CONSTANTS
    Scs = {"s1", "s2", "s3"}
    Idle = "idle"
    Prio <- MCPrio
    MaxPrio = 2
    Wakers = {w1}
SPECIFICATION Spec
INVARIANT RemoteSignalled
