CONSTANTS
    Lists <- CipherLists
    NoList = NoList
    Procs = {unit}
    Unit = unit
    Keys = {"ec", "rsa"}
    FirstKey = "rsa"
    Users = {}
    Clients = {c1}
    None = None
    Disturbances = 1
SPECIFICATION Spec
INVARIANT OfferFitsServer
