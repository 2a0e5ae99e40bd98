\* Two members, two cards, two orders
CONSTANTS
    Members = {u1, u2}
    Knipjes = 2
    Days = {}
    MaxCards = 2
    MaxOrders = 2
    MaxLog = 3
SYMMETRY MemberSymmetry
SPECIFICATION Spec
INVARIANTS
    OrdersMatchLog
    PendingOrdersOnOwnCard
PROPERTIES
    ClosedOrdersFinal
