\* README: an order on an online card reserves its knipjes
CONSTANTS
    Members = {u1}
    Knipjes = 2
    Days = {}
    MaxCards = 1
    MaxOrders = 1
    MaxLog = 2
SPECIFICATION Spec
INVARIANTS
    OrdersReserveKnipjes
