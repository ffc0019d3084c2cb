CONSTANTS
    Lists <- CipherLists
    NoList = NoList
    Procs = {unit, hand}
    Unit = unit
    Keys = {"ec", "rsa"}
    FirstKey = "rsa"
    Users = {u1, u2}
    Clients = {c1}
    None = None
    Disturbances = 2
SPECIFICATION FairSpec
INVARIANTS TypeOK NoneInTheWay OfferFitsKey
PROPERTIES ReplyIsSnapshot SocketNotStolen ServerBack
