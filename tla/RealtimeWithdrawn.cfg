\* README: lists refresh without polling; orders that go with a withdrawn card
CONSTANTS
    u1 = u1
    u2 = u2
    Users = {u1}
    Staff = {s1}
    Orderers = {}
    Visitors = {}
    Handlers = {h1}
    Ops <- WithdrawOps
    SendBuf = 8
    BroadcastCap = 64
    NotifyCap = 256
    NetworkFails = FALSE
SPECIFICATION Spec
INVARIANTS
    KraamQueueCurrent
