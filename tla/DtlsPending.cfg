CONSTANTS
    Tunnels = {k1, k2}
    Addrs = {a1, a2, a3}
    Ptrs = {p1, p2, p3}
    None = None
    DataCap = 1
    SignalCap = 1
SPECIFICATION Spec
INVARIANT PopulatedBeforeHandshake
