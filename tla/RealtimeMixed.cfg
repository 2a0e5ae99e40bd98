\* Hints of different effects at a kraam page and a shell
CONSTANTS
    u1 = u1
    u2 = u2
    Users = {u1}
    Staff = {s1}
    Orderers = {}
    Visitors = {u1}
    Handlers = {h1}
    Ops <- MixedOps
    SendBuf = 2
    BroadcastCap = 1
    NotifyCap = 1
    NetworkFails = FALSE
SPECIFICATION Spec
PROPERTIES
    LostOnlyWhenFull
