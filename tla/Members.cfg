\* Three accounts, two cards: requests, sales and orders while members merge and go
CONSTANTS
    Members = {u1, u2, u3}
    Knipjes = 1
    Days = {}
    MaxCards = 2
    MaxOrders = 1
    MaxLog = 2
CONSTRAINT FewFlags
SYMMETRY MemberSymmetry
SPECIFICATION MembersSpec
INVARIANTS
    OwnersExist
    InactiveUntouched
    CardsMatchRequests
    OnePendingPerKind
PROPERTIES
    HistoryKept
