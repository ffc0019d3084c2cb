CONSTANTS
    Tunnels = {k1, k2}
    Addrs = {a1, a2}
    Ptrs = {p1, p2, p3}
    None = None
    DataCap = 2
    SignalCap = 1
SPECIFICATION FairSpec
INVARIANTS TypeOK KeyIsOwn PendingIsLive QueuedIsMapped
PROPERTIES  LoopReturns
