\* One card: long logs with undos and registrations anew
CONSTANTS
    Members = {u1}
    Knipjes = 3
    Days = {1, 2}
    MaxCards = 1
    MaxOrders = 1
    MaxLog = 5
SPECIFICATION Spec
INVARIANTS
    TypeOK
    LedgerChain
    UndoLinks
    OnlineBalance
    MealsMatchLog
PROPERTIES
    LogAppendOnly
