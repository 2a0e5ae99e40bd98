------------------------------ MODULE CardStore ------------------------------
(***************************************************************************)
(* The knipjes administration of internal/store: cards, card requests,     *)
(* tosti orders, avondeten meals and the knipje-logboek (table             *)
(* card_transactions).                                                     *)
(*                                                                         *)
(* Every exported function of internal/store that changes these tables     *)
(* runs in one PostgreSQL transaction that locks the rows it decides on,   *)
(* so at this level it is one atomic action: its guard is the conjunction  *)
(* of the early returns that precede the commit, and a call that returns   *)
(* an error rolls back and is a stuttering step.                           *)
(*                                                                         *)
(* A table is a function from the ids of its rows to the rows.  Ids come   *)
(* from a sequence (BIGSERIAL) and are never reused, also not after a      *)
(* DELETE.  NULL is 0, which is no id and no day.                          *)
(*                                                                         *)
(* A definition Op_Variant is Op with a mistake in it.  No action uses it: *)
(* it stands in for Op to show that a property notices the mistake.        *)
(***************************************************************************)
EXTENDS Integers, Sequences, FiniteSetsExt

CONSTANTS
    Members,    \* rows of users that own cards
    Knipjes,    \* the knipjes on a new card: 10 in the code
    Days,       \* calendar days of avondeten meals (Europe/Amsterdam dates)
    MaxCards,   \* bound: cards (and card requests) ever created
    MaxOrders,  \* bound: tosti orders ever created
    MaxLog      \* bound: lines in the logboek of one card

ASSUME KnipjesAssumption == Knipjes \in Nat \ {0}
ASSUME DaysAssumption == Days \subseteq Nat \ {0}
ASSUME BoundsAssumption == MaxCards \in Nat /\ MaxOrders \in Nat /\ MaxLog \in Nat

VARIABLES
    matroos,    \* members with users.is_matroos_jeugd
    cards,      \* table cards
    lastCard,   \* cards_id_seq
    log,        \* table card_transactions: per card, in the order of the ids
    requests,   \* table card_requests; rows are never deleted
    orders,     \* table tosti_orders
    lastOrder,  \* tosti_orders_id_seq
    meals       \* table avondeten_meals: UNIQUE (card_id, meal_date)

vars == <<matroos, cards, lastCard, log, requests, orders, lastOrder, meals>>

-----------------------------------------------------------------------------
(* Row types *)

Null == 0

Kinds == {"tosti", "avondeten"}
Sources == {"online", "physical"}
Reasons == {"issued", "tosti_delivered", "avondeten_meal", "manual_knipje",
            "estimate_adjust", "undo"}

Card == [owner: Members, kind: Kinds, source: Sources, knip: 0..Knipjes]

Line == [reason: Reasons,
         delta: -Knipjes..Knipjes,
         balance: 0..Knipjes,      \* balance_after
         order: Nat,               \* tosti_order_id
         meal: Days \cup {Null},   \* avondeten_meal_id, named by the day of the meal
         reverses: Nat,            \* reverses_transaction_id: index in the card's log
         reversedBy: Nat]          \* reversed_by_transaction_id

Request == [user: Members, kind: Kinds, card: Nat,
            status: {"pending", "fulfilled", "cancelled"}]

Order == [user: Members, card: Nat, qty: 1..Knipjes,
          status: {"pending", "delivered", "cancelled"}]

(* insertCardTransaction for a line that is neither an undo nor undone *)
Booking(reason, delta, balance) ==
    [reason |-> reason, delta |-> delta, balance |-> balance, order |-> Null,
     meal |-> Null, reverses |-> Null, reversedBy |-> Null]

Issued == Booking("issued", Knipjes, Knipjes)

(* Table t with row i added or replaced *)
With(t, i, row) == [j \in DOMAIN t \cup {i} |-> IF j = i THEN row ELSE t[j]]

-----------------------------------------------------------------------------
(* Queries *)

HasPending(u, k) ==
    \E r \in DOMAIN requests :
        requests[r].user = u /\ requests[r].kind = k /\ requests[r].status = "pending"

AwaitsVerification(c) ==
    \E r \in DOMAIN requests : requests[r].card = c /\ requests[r].status = "pending"

(* The pending orders on a card, and the knipjes they reserve *)
PendingOn(u, c) ==
    {o \in DOMAIN orders :
        orders[o].user = u /\ orders[o].card = c /\ orders[o].status = "pending"}

PendingSum(u, c) == MapThenSumSet(LAMBDA o : orders[o].qty, PendingOn(u, c))

PhysicalTostiCards(u) ==
    {c \in DOMAIN cards :
        cards[c].owner = u /\ cards[c].kind = "tosti" /\ cards[c].source = "physical"}

(* c is the oldest card of u that still has an estimate, otherwise the     *)
(* newest; ids follow created_at.                                          *)
FindPhysicalTostiCard(u, c) ==
    LET estimated == {d \in PhysicalTostiCards(u) : cards[d].knip > 0}
    IN  IF estimated # {}
        THEN c \in estimated /\ \A d \in estimated : c <= d
        ELSE c \in PhysicalTostiCards(u) /\ \A d \in PhysicalTostiCards(u) : d <= c

-----------------------------------------------------------------------------
(* Card requests and sales *)

(* A card of the given source with all its knipjes, its "issued" line and  *)
(* the request that points at it.  ~HasPending is what the partial unique  *)
(* index of migration 00010 demands when the row of an open request is     *)
(* inserted: two transactions can both pass the look before it             *)
(* (card_requests_create.go:35), and the index refuses the later one with  *)
(* the same ErrAlreadyPending.  A sale is no open request: one that passed *)
(* its look beside a request leaves what it would have left before it.     *)
IssueCard(u, k, source, status) ==
    /\ k = "avondeten" => u \in matroos
    /\ ~HasPending(u, k)
    /\ lastCard < MaxCards
    /\ lastCard' = lastCard + 1
    /\ cards' = With(cards, lastCard + 1,
                     [owner |-> u, kind |-> k, source |-> source, knip |-> Knipjes])
    /\ log' = With(log, lastCard + 1, <<Issued>>)
    /\ requests' = Append(requests,
                     [user |-> u, kind |-> k, card |-> lastCard + 1, status |-> status])
    /\ UNCHANGED <<matroos, orders, lastOrder, meals>>

CreateCardRequest(u, k) == IssueCard(u, k, "online", "pending")

CreatePhysicalCardSale(u, k) == IssueCard(u, k, "physical", "fulfilled")

(* Every pending request has a card (migration 00003 gave the old ones     *)
(* theirs), so the branch that issues a card at this point is dead.        *)
FulfillCardRequest(r) ==
    /\ requests[r].status = "pending"
    /\ requests[r].card # Null
    /\ requests' = [requests EXCEPT ![r].status = "fulfilled"]
    /\ UNCHANGED <<matroos, cards, lastCard, log, orders, lastOrder, meals>>

(* DELETE FROM cards with its foreign keys: orders, log and meals CASCADE, *)
(* card_requests.card_id SET NULL.  Log lines of other cards never refer   *)
(* to the orders that go (OrdersMatchLog).                                 *)
WithdrawRequest(r) ==
    LET c == requests[r].card
    IN  /\ requests' = [i \in DOMAIN requests |->
                         [requests[i] EXCEPT
                            !.status = IF i = r THEN "cancelled" ELSE @,
                            !.card = IF @ = c THEN Null ELSE @]]
        /\ cards' = Restrict(cards, DOMAIN cards \ {c})
        /\ log' = Restrict(log, DOMAIN log \ {c})
        /\ orders' = Restrict(orders, {o \in DOMAIN orders : orders[o].card # c})
        /\ meals' = {m \in meals : m[1] # c}
        /\ UNCHANGED <<matroos, lastCard, lastOrder>>

(* The provisional card may go only while it is unused *)
Unused(c) == cards[c].knip >= Knipjes

AdminRejectCardRequest(r) ==
    /\ requests[r].status = "pending"
    /\ requests[r].card \in DOMAIN cards
    /\ Unused(requests[r].card)
    /\ WithdrawRequest(r)

CancelCardRequestForUser(r, u) ==
    /\ requests[r].user = u
    /\ requests[r].status = "pending"
    /\ requests[r].card \in DOMAIN cards
    /\ Unused(requests[r].card)
    /\ WithdrawRequest(r)

-----------------------------------------------------------------------------
(* Balance changes: the balance and its log line move together *)

Book(c, line) ==
    /\ Len(log[c]) < MaxLog
    /\ cards' = [cards EXCEPT ![c].knip = line.balance]
    /\ log' = [log EXCEPT ![c] = Append(@, line)]

UseKnipje(c) ==
    /\ cards[c].source # "physical"
    /\ cards[c].knip > 0
    /\ ~AwaitsVerification(c)
    /\ Book(c, Booking("manual_knipje", -1, cards[c].knip - 1))
    /\ UNCHANGED <<matroos, lastCard, requests, orders, lastOrder, meals>>

SetPhysicalCardEstimate(c, value) ==
    /\ cards[c].source = "physical"
    /\ cards[c].knip # value
    /\ Book(c, Booking("estimate_adjust", value - cards[c].knip, value))
    /\ UNCHANGED <<matroos, lastCard, requests, orders, lastOrder, meals>>

(* What is checked of each card *)
CanEat_Again(c, day) ==
    cards[c].kind = "avondeten" /\ cards[c].knip > 0 /\ ~AwaitsVerification(c)

CanEat(c, day) ==
    /\ cards[c].kind = "avondeten"
    /\ cards[c].knip > 0
    /\ ~AwaitsVerification(c)
    /\ <<c, day>> \notin meals

(* One meal per card, all or nothing *)
RegisterAvondetenMealsForDate(day, S) ==
    /\ S # {}
    /\ \A c \in S : CanEat(c, day) /\ Len(log[c]) < MaxLog
    /\ meals' = meals \cup {<<c, day>> : c \in S}
    /\ cards' = [c \in DOMAIN cards |->
                   IF c \in S THEN [cards[c] EXCEPT !.knip = @ - 1] ELSE cards[c]]
    /\ log' = [c \in DOMAIN log |->
                 IF c \in S
                 THEN Append(log[c], [Booking("avondeten_meal", -1, cards[c].knip - 1)
                                        EXCEPT !.meal = day])
                 ELSE log[c]]
    /\ UNCHANGED <<matroos, lastCard, requests, orders, lastOrder>>

Undoable_Twice(line) ==
    line.reason \notin {"issued", "undo"} /\ line.delta # 0

Undoable_AlsoUndo(line) ==
    line.reason # "issued" /\ line.reversedBy = Null /\ line.delta # 0

Undoable(line) ==
    /\ line.reason \notin {"issued", "undo"}
    /\ line.reversedBy = Null
    /\ line.delta # 0

(* The log of a card after line i, which referred to the given meal, is    *)
(* undone: the deleted meal is SET NULL in the lines that refer to it, the *)
(* undone line refers to the undo line, which is appended.                 *)
UndoneLog_Erased(lines, i, meal, balance) ==
    SubSeq(lines, 1, i - 1) \o SubSeq(lines, i + 1, Len(lines))

UndoneLog(lines, i, meal, balance) ==
    Append([j \in DOMAIN lines |->
              [lines[j] EXCEPT
                 !.meal = IF meal # Null /\ @ = meal THEN Null ELSE @,
                 !.reversedBy = IF j = i THEN Len(lines) + 1 ELSE @]],
           [Booking("undo", -lines[i].delta, balance) EXCEPT !.reverses = i])

UndoBalance_Sign(c, i) == cards[c].knip + log[c][i].delta

UndoBalance(c, i) == cards[c].knip - log[c][i].delta

UndoInRange_NoUpper(c, i) == UndoBalance(c, i) >= 0

UndoInRange(c, i) == UndoBalance(c, i) \in 0..Knipjes

(* A delivered order stays delivered; a meal is deleted *)
UndoCardTransaction(c, i) ==
    /\ Undoable(log[c][i])
    /\ UndoInRange(c, i)
    /\ Len(log[c]) < MaxLog
    /\ meals' = meals \ {<<c, log[c][i].meal>>}
    /\ cards' = [cards EXCEPT ![c].knip = UndoBalance(c, i)]
    /\ log' = [log EXCEPT ![c] = UndoneLog(@, i, @[i].meal, UndoBalance(c, i))]
    /\ UNCHANGED <<matroos, lastCard, requests, orders, lastOrder>>

-----------------------------------------------------------------------------
(* Tosti orders *)

InsertTostiOrder(u, c, q) ==
    /\ lastOrder < MaxOrders
    /\ lastOrder' = lastOrder + 1
    /\ orders' = With(orders, lastOrder + 1,
                      [user |-> u, card |-> c, qty |-> q, status |-> "pending"])
    /\ UNCHANGED <<matroos, cards, lastCard, log, requests, meals>>

(* The member's own online tosti card, with enough knipjes that no other   *)
(* pending order claims.                                                   *)
Orderable_AnySource(u, c, q) ==
    /\ c \in DOMAIN cards
    /\ cards[c].owner = u /\ cards[c].kind = "tosti"
    /\ PendingSum(u, c) + q <= cards[c].knip

Orderable(u, c, q) ==
    /\ c \in DOMAIN cards
    /\ cards[c].owner = u
    /\ cards[c].kind = "tosti"
    /\ cards[c].source = "online"
    /\ PendingSum(u, c) + q <= cards[c].knip

(* Without a card it is a physical order, always accepted *)
CreateTostiOrder(u, c, q) ==
    /\ c = Null \/ Orderable(u, c, q)
    /\ InsertTostiOrder(u, c, q)

(* The owner or staff; who it was changes nothing else *)
CancelTostiOrder_AnyStatus(o) ==
    /\ orders' = [orders EXCEPT ![o].status = "cancelled"]
    /\ UNCHANGED <<matroos, cards, lastCard, log, requests, lastOrder, meals>>

CancelTostiOrder(o) ==
    /\ orders[o].status = "pending"
    /\ orders' = [orders EXCEPT ![o].status = "cancelled"]
    /\ UNCHANGED <<matroos, cards, lastCard, log, requests, lastOrder, meals>>

MarkDelivered_NoCard(o, c) == orders' = [orders EXCEPT ![o].status = "delivered"]

MarkDelivered(o, c) ==
    orders' = [orders EXCEPT ![o].status = "delivered", ![o].card = c]

(* An estimate is clamped at 0 and never blocks a delivery *)
BalanceAfterDelivery(c, q) ==
    IF cards[c].source = "physical" /\ cards[c].knip < q THEN 0 ELSE cards[c].knip - q

MayDeduct_Unverified(c, q) == cards[c].source = "online" => q <= cards[c].knip

MayDeduct(c, q) ==
    cards[c].source = "online" => ~AwaitsVerification(c) /\ q <= cards[c].knip

DeliverFromCard(o, c) ==
    LET balance == BalanceAfterDelivery(c, orders[o].qty)
    IN  /\ cards[c].owner = orders[o].user
        /\ cards[c].kind = "tosti"
        /\ MayDeduct(c, orders[o].qty)
        /\ Book(c, [Booking("tosti_delivered", balance - cards[c].knip, balance)
                      EXCEPT !.order = o])
        /\ MarkDelivered(o, c)
        /\ UNCHANGED <<matroos, lastCard, requests, lastOrder, meals>>

DeliverTostiOrder(o) ==
    /\ orders[o].status = "pending"
    /\ \/ /\ orders[o].card \in DOMAIN cards
          /\ DeliverFromCard(o, orders[o].card)
       \/ /\ orders[o].card = Null
          /\ \E c \in DOMAIN cards :
                FindPhysicalTostiCard(orders[o].user, c) /\ DeliverFromCard(o, c)
       \/ /\ orders[o].card = Null
          /\ PhysicalTostiCards(orders[o].user) = {}
          /\ MarkDelivered(o, Null)
          /\ UNCHANGED <<matroos, cards, lastCard, log, requests, lastOrder, meals>>

-----------------------------------------------------------------------------
(* The matroos-jeugd flag of a member *)

AdminSetMatroosJeugd(u, value) ==
    /\ matroos' = IF value THEN matroos \cup {u} ELSE matroos \ {u}
    /\ UNCHANGED <<cards, lastCard, log, requests, orders, lastOrder, meals>>

Init ==
    /\ matroos \in SUBSET Members
    /\ cards = << >> /\ lastCard = 0 /\ log = << >>
    /\ requests = << >>
    /\ orders = << >> /\ lastOrder = 0
    /\ meals = {}

(* Steps on rows that are there *)
NextOnRows ==
    \/ \E r \in DOMAIN requests : FulfillCardRequest(r)
    \/ \E r \in DOMAIN requests : AdminRejectCardRequest(r)
    \/ \E c \in DOMAIN cards : UseKnipje(c)
    \/ \E c \in DOMAIN cards, value \in 0..Knipjes : SetPhysicalCardEstimate(c, value)
    \/ \E day \in Days, S \in SUBSET DOMAIN cards : RegisterAvondetenMealsForDate(day, S)
    \/ \E c \in DOMAIN cards : \E i \in DOMAIN log[c] : UndoCardTransaction(c, i)
    \/ \E o \in DOMAIN orders : CancelTostiOrder(o)
    \/ \E o \in DOMAIN orders : DeliverTostiOrder(o)

(* Steps in the name of one of people, a sale to one of buyers, or a change *)
(* of one of editable                                                      *)
NextOfMembers(people, buyers, editable) ==
    \/ \E u \in people, k \in Kinds : CreateCardRequest(u, k)
    \/ \E u \in buyers, k \in Kinds : CreatePhysicalCardSale(u, k)
    \/ \E r \in DOMAIN requests, u \in people : CancelCardRequestForUser(r, u)
    \/ \E u \in people, c \in DOMAIN cards \cup {Null}, q \in 1..Knipjes :
          CreateTostiOrder(u, c, q)
    \/ \E u \in editable, value \in BOOLEAN : AdminSetMatroosJeugd(u, value)

Next == NextOnRows \/ NextOfMembers(Members, Members, Members)

Spec == Init /\ [][Next]_vars
=============================================================================
