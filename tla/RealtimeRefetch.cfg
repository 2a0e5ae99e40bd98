\* A member's order page whose connection breaks: her hints compete with another member's
CONSTANTS
    u1 = u1
    u2 = u2
    Users = {u1, u2}
    Staff = {}
    Orderers = {u1}
    Visitors = {}
    Handlers = {h1}
    Ops <- OrderOps
    SendBuf = 1
    BroadcastCap = 1
    NotifyCap = 1
    NetworkFails = TRUE
SPECIFICATION FairSpec
INVARIANTS
    TypeOK
    OwedOnTheWay
PROPERTIES
    Refetched
    CatchesUp
