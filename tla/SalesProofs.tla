---------------------------- MODULE SalesProofs ----------------------------
(***************************************************************************)
(* For every number of members, days and knipjes per card: requests, cards *)
(* and orders of CardStore keep corresponding, and what is closed stays    *)
(* closed.                                                                 *)
(*                                                                         *)
(* Three actions change which cards and requests there are; the others     *)
(* only keep them (KeepsSales), each for the reason its guard gives.       *)
(***************************************************************************)
EXTENDS LogProofs

(* An order names a card that is there; a card takes its orders along      *)
OrdersHaveCards == \A o \in DOMAIN orders : orders[o].card \in DOMAIN cards \cup {Null}

SalesOK ==
    /\ CardsMatchRequests
    /\ OnePendingPerKind
    /\ InactiveUntouched
    /\ PendingOrdersOnOwnCard
    /\ OrdersHaveCards

-----------------------------------------------------------------------------
(* Steps that keep the cards and requests *)

SameCards ==
    /\ DOMAIN cards' = DOMAIN cards
    /\ \A c \in DOMAIN cards : /\ cards'[c].owner = cards[c].owner
                               /\ cards'[c].kind = cards[c].kind
                               /\ cards'[c].source = cards[c].source

(* Nothing is deducted from a card before its sale is accorded             *)
AwaitingSame ==
    \A c \in DOMAIN cards :
        AwaitsVerification(c) => cards'[c] = cards[c] /\ log'[c] = log[c]

(* An order is closed, delivered from an accorded card or none             *)
OrdersClose ==
    /\ DOMAIN orders' = DOMAIN orders
    /\ \A o \in DOMAIN orders :
          orders'[o] # orders[o] =>
             /\ orders[o].status = "pending"
             /\ orders'[o].status \in {"delivered", "cancelled"}
             /\ orders'[o].card \in DOMAIN cards \cup {Null}
             /\ orders'[o].status = "delivered" => ~AwaitsVerification(orders'[o].card)

KeepsSales == requests' = requests /\ SameCards /\ AwaitingSame /\ OrdersClose

(* What is accorded stays so: such a card keeps all but its balance, and a   *)
(* granted request everything                                               *)
AccordedStay ==
    /\ \A c \in DOMAIN cards : ~AwaitsVerification(c) =>
          /\ c \in DOMAIN cards' /\ AwaitsVerification(c)' = FALSE
          /\ cards'[c].owner = cards[c].owner
          /\ cards'[c].kind = cards[c].kind
          /\ cards'[c].source = cards[c].source
    /\ \A r \in DOMAIN requests : requests[r].status = "fulfilled" =>
          r \in DOMAIN requests' /\ requests'[r] = requests[r]

LEMMA KeptSales ==
    ASSUME TypeOK, SalesOK, KeepsSales
    PROVE  SalesOK' /\ AccordedStay
<1>1. /\ requests' = requests /\ DOMAIN cards' = DOMAIN cards /\ DOMAIN orders' = DOMAIN orders
      /\ \A c \in DOMAIN cards : /\ cards'[c].owner = cards[c].owner
                                 /\ cards'[c].kind = cards[c].kind
                                 /\ cards'[c].source = cards[c].source
  BY DEF KeepsSales, SameCards, OrdersClose
<1>2. \A c : LiveRequests(c)' = LiveRequests(c) /\ AwaitsVerification(c)' = AwaitsVerification(c)
  BY <1>1 DEF LiveRequests, AwaitsVerification
<1>3. CardsMatchRequests'
  BY <1>1, <1>2 DEF SalesOK, CardsMatchRequests
<1>4. OnePendingPerKind'
  BY <1>1 DEF SalesOK, OnePendingPerKind
<1>5. InactiveUntouched'
  <2>. SUFFICES ASSUME NEW c \in DOMAIN cards, AwaitsVerification(c)
                PROVE  /\ cards'[c].source = "online"
                       /\ cards'[c].knip = Knipjes
                       /\ log'[c] = <<Issued>>
                       /\ \A o \in DOMAIN orders : orders'[o].card = c => orders'[o].status # "delivered"
    BY <1>1, <1>2 DEF InactiveUntouched
  <2>1. cards'[c] = cards[c] /\ log'[c] = log[c]
    BY DEF KeepsSales, AwaitingSame
  <2>2. /\ cards[c].source = "online" /\ cards[c].knip = Knipjes /\ log[c] = <<Issued>>
        /\ \A o \in DOMAIN orders : orders[o].card = c => orders[o].status # "delivered"
    BY DEF SalesOK, InactiveUntouched
  <2>3. \A o \in DOMAIN orders : orders'[o].card = c => orders'[o].status # "delivered"
    BY <2>2 DEF KeepsSales, OrdersClose
  <2>. QED
    BY <2>1, <2>2, <2>3
<1>6. PendingOrdersOnOwnCard'
  BY <1>1 DEF SalesOK, PendingOrdersOnOwnCard, KeepsSales, OrdersClose
<1>7. OrdersHaveCards'
  BY <1>1 DEF SalesOK, OrdersHaveCards, KeepsSales, OrdersClose
<1>8. AccordedStay
  BY <1>1, <1>2 DEF AccordedStay, KeepsSales
<1>. QED
  BY <1>3, <1>4, <1>5, <1>6, <1>7, <1>8 DEF SalesOK

LEMMA RequestTypes ==
    ASSUME TypeOK
    PROVE  /\ Len(requests) \in Nat /\ DOMAIN requests = 1..Len(requests)
           /\ \A r \in DOMAIN requests : requests[r] \in Request
  BY LenProperties, ElementOfSeq DEF TypeOK

(* No open request is without its card, and no id of a card is Null         *)
LEMMA AwaitingCard ==
    ASSUME TypeOK, SalesOK
    PROVE  Null \notin DOMAIN cards /\ \A c : AwaitsVerification(c) => c \in DOMAIN cards
<1>1. Null \notin DOMAIN cards
  BY RowTypes DEF Null
<1>. QED
  BY <1>1 DEF AwaitsVerification, SalesOK, CardsMatchRequests

(* A line is booked on an accorded card *)
LEMMA BookKeeps ==
    ASSUME TypeOK, NEW c \in DOMAIN cards, NEW line \in Line, Book(c, line),
           ~AwaitsVerification(c)
    PROVE  SameCards /\ AwaitingSame
<1>1. /\ DOMAIN cards' = DOMAIN cards
      /\ cards'[c] = [cards[c] EXCEPT !.knip = line.balance]
      /\ \A d \in DOMAIN cards : d # c => cards'[d] = cards[d] /\ log'[d] = log[d]
  BY BookShape
<1>2. cards[c] \in Card
  BY RowTypes
<1>3. /\ cards'[c].owner = cards[c].owner /\ cards'[c].kind = cards[c].kind
      /\ cards'[c].source = cards[c].source
  BY <1>1, <1>2 DEF Card
<1>. QED
  BY <1>1, <1>3 DEF SameCards, AwaitingSame

(* A physical card is never awaiting: it is sold with its payment           *)
LEMMA PhysicalAccorded ==
    ASSUME SalesOK, NEW c \in DOMAIN cards, cards[c].source = "physical"
    PROVE  ~AwaitsVerification(c)
  BY DEF SalesOK, InactiveUntouched

LEMMA UseKnipjeKeeps ==
    ASSUME TypeOK, SalesOK, NEW c \in DOMAIN cards, UseKnipje(c)
    PROVE  KeepsSales
  BY UseKnipjeLine, BookKeeps DEF UseKnipje, KeepsSales, OrdersClose

LEMMA EstimateKeeps ==
    ASSUME TypeOK, SalesOK, NEW c \in DOMAIN cards, NEW value \in 0..Knipjes,
           SetPhysicalCardEstimate(c, value)
    PROVE  KeepsSales
  BY EstimateLine, PhysicalAccorded, BookKeeps
  DEF SetPhysicalCardEstimate, KeepsSales, OrdersClose

LEMMA MealKeeps ==
    ASSUME TypeOK, SalesOK, NEW day \in Days, NEW S \in SUBSET DOMAIN cards,
           RegisterAvondetenMealsForDate(day, S)
    PROVE  KeepsSales
<1>1. /\ DOMAIN cards' = DOMAIN cards /\ requests' = requests /\ orders' = orders
      /\ \A d \in DOMAIN cards : d \notin S => cards'[d] = cards[d] /\ log'[d] = log[d]
      /\ \A c \in S : ~AwaitsVerification(c)
  BY DEF RegisterAvondetenMealsForDate, CanEat, TypeOK
<1>2. ASSUME NEW c \in S
      PROVE  /\ cards'[c].owner = cards[c].owner /\ cards'[c].kind = cards[c].kind
             /\ cards'[c].source = cards[c].source
  <2>1. cards[c] \in Card /\ cards'[c] = [cards[c] EXCEPT !.knip = @ - 1]
    BY RowTypes, MealShape
  <2>. QED
    BY <2>1 DEF Card
<1>. QED
  BY <1>1, <1>2 DEF KeepsSales, SameCards, AwaitingSame, OrdersClose

(* The log of an awaiting card has nothing to undo *)
LEMMA UndoKeeps ==
    ASSUME TypeOK, SalesOK, NEW c \in DOMAIN cards, NEW i \in DOMAIN log[c],
           UndoCardTransaction(c, i)
    PROVE  KeepsSales
<1>1. ~AwaitsVerification(c)
  <2>. SUFFICES ASSUME AwaitsVerification(c) PROVE FALSE
    OBVIOUS
  <2>1. log[c] = <<Issued>>
    BY DEF SalesOK, InactiveUntouched
  <2>2. log[c][i] = Issued
    BY <2>1
  <2>. QED
    BY <2>2 DEF UndoCardTransaction, Undoable, Issued, Booking
<1>2. /\ DOMAIN cards' = DOMAIN cards /\ requests' = requests /\ orders' = orders
      /\ cards'[c] = [cards[c] EXCEPT !.knip = cards[c].knip - log[c][i].delta]
      /\ \A d \in DOMAIN cards : d # c => cards'[d] = cards[d] /\ log'[d] = log[d]
  BY UndoShape DEF UndoCardTransaction
<1>3. /\ cards'[c].owner = cards[c].owner /\ cards'[c].kind = cards[c].kind
      /\ cards'[c].source = cards[c].source
  BY <1>2, RowTypes DEF Card
<1>. QED
  BY <1>1, <1>2, <1>3 DEF KeepsSales, SameCards, AwaitingSame, OrdersClose

LEMMA CancelKeeps ==
    ASSUME TypeOK, SalesOK, NEW o \in DOMAIN orders, CancelTostiOrder(o)
    PROVE  KeepsSales
<1>1. orders[o] \in Order /\ orders' = [orders EXCEPT ![o] = [orders[o] EXCEPT !.status = "cancelled"]]
  BY DEF CancelTostiOrder, TypeOK
<1>2. /\ DOMAIN orders' = DOMAIN orders
      /\ orders'[o].status = "cancelled" /\ orders'[o].card = orders[o].card
      /\ \A p \in DOMAIN orders : p # o => orders'[p] = orders[p]
  BY <1>1 DEF Order
<1>. QED
  BY <1>2 DEF CancelTostiOrder, KeepsSales, SameCards, AwaitingSame, OrdersClose, SalesOK,
              OrdersHaveCards

(* What a delivery does to the orders *)
LEMMA Delivered ==
    ASSUME TypeOK, NEW o \in DOMAIN orders, NEW c \in Nat, MarkDelivered(o, c)
    PROVE  /\ DOMAIN orders' = DOMAIN orders
           /\ orders'[o].status = "delivered" /\ orders'[o].card = c
           /\ orders'[o].user = orders[o].user /\ orders'[o].qty = orders[o].qty
           /\ \A p \in DOMAIN orders : p # o => orders'[p] = orders[p]
<1>1. /\ orders[o] \in Order
      /\ orders' = [orders EXCEPT ![o] = [orders[o] EXCEPT !.status = "delivered", !.card = c]]
  BY DEF MarkDelivered, TypeOK
<1>. QED
  BY <1>1 DEF Order

LEMMA DeliverKeeps ==
    ASSUME TypeOK, SalesOK, NEW o \in DOMAIN orders, DeliverTostiOrder(o)
    PROVE  KeepsSales
<1>1. orders[o].status = "pending"
  BY DEF DeliverTostiOrder
<1>2. ASSUME NEW c \in DOMAIN cards, DeliverFromCard(o, c) PROVE KeepsSales
  <2>1. /\ MarkDelivered(o, c) /\ requests' = requests /\ c \in Nat
    BY <1>2, RowTypes DEF DeliverFromCard
  <2>2. ~AwaitsVerification(c)
    BY <1>2, PhysicalAccorded, RowTypes DEF DeliverFromCard, MayDeduct, Card, Sources
  <2>3. SameCards /\ AwaitingSame
    BY <1>2, <2>2, DeliveryLine, BookKeeps
  <2>4. OrdersClose
    BY <1>1, <2>1, <2>2, Delivered DEF OrdersClose
  <2>. QED
    BY <2>1, <2>3, <2>4 DEF KeepsSales
<1>3. CASE /\ MarkDelivered(o, Null)
           /\ UNCHANGED <<matroos, cards, lastCard, log, requests, lastOrder, meals>>
  <2>1. OrdersClose
    BY <1>1, <1>3, Delivered, AwaitingCard DEF OrdersClose, Null
  <2>. QED
    BY <1>3, <2>1 DEF KeepsSales, SameCards, AwaitingSame
<1>. QED
  BY <1>2, <1>3, DeliveryCases
-----------------------------------------------------------------------------
(* Steps that make, accord and withdraw sales, and place orders *)

LEMMA IssueCardSales ==
    ASSUME TypeOK, SalesOK, NEW u \in Members, NEW k \in Kinds, NEW source \in Sources,
           NEW status \in {"pending", "fulfilled"},
           status = "pending" => source = "online",
           IssueCard(u, k, source, status)
    PROVE  SalesOK' /\ AccordedStay
<1>. PICK n \in Nat : n = Len(requests) + 1
  BY RequestTypes
<1>. PICK c \in Nat : c = lastCard + 1
  BY BoundsAssumption DEF TypeOK
<1>1. /\ c \notin DOMAIN cards /\ c # Null /\ Null \notin DOMAIN cards
      /\ DOMAIN cards' = DOMAIN cards \cup {c}
      /\ \A d \in DOMAIN cards : cards'[d] = cards[d] /\ log'[d] = log[d]
      /\ cards'[c] = [owner |-> u, kind |-> k, source |-> source, knip |-> Knipjes]
      /\ log'[c] = <<Issued>>
      /\ orders' = orders
  <2>1. lastCard \in Nat /\ DOMAIN cards \subseteq 1..lastCard /\ DOMAIN log = DOMAIN cards
    BY BoundsAssumption DEF TypeOK
  <2>2. /\ cards' = With(cards, c, [owner |-> u, kind |-> k, source |-> source, knip |-> Knipjes])
        /\ log' = With(log, c, <<Issued>>) /\ orders' = orders
    BY DEF IssueCard
  <2>3. \A d \in DOMAIN cards : d # c
    BY <2>1
  <2>. HIDE DEF Issued
  <2>. QED
    BY <2>1, <2>2, <2>3 DEF With, Null
<1>2. /\ n \notin DOMAIN requests /\ DOMAIN requests' = DOMAIN requests \cup {n}
      /\ \A r \in DOMAIN requests : requests'[r] = requests[r]
      /\ requests'[n].user = u /\ requests'[n].kind = k /\ requests'[n].card = c
      /\ requests'[n].status = status
  <2>. DEFINE row == [user |-> u, kind |-> k, card |-> c, status |-> status]
  <2>1. requests' = Append(requests, row)
    BY DEF IssueCard
  <2>2. row \in Request
    BY DEF Request
  <2>3. row.user = u /\ row.kind = k /\ row.card = c /\ row.status = status
    OBVIOUS
  <2>. HIDE DEF row
  <2>4. /\ DOMAIN Append(requests, row) = 1..(Len(requests) + 1)
        /\ DOMAIN requests = 1..Len(requests) /\ Len(requests) \in Nat
        /\ \A r \in 1..Len(requests) : Append(requests, row)[r] = requests[r]
        /\ Append(requests, row)[Len(requests) + 1] = row
    BY <2>2, AppendedLine DEF TypeOK
  <2>. QED
    BY <2>1, <2>3, <2>4
<1>3. ~HasPending(u, k)
  BY DEF IssueCard
<1>4. \A r \in DOMAIN requests : requests[r].card \in DOMAIN cards \cup {Null}
  BY DEF SalesOK, CardsMatchRequests
<1>5. \A r \in DOMAIN requests : requests[r].card # c
  BY <1>1, <1>4
<1>6. \A d \in DOMAIN cards : /\ LiveRequests(d)' = LiveRequests(d)
                              /\ AwaitsVerification(d)' => AwaitsVerification(d)
  <2>. SUFFICES ASSUME NEW d \in DOMAIN cards
                PROVE  /\ LiveRequests(d)' = LiveRequests(d)
                       /\ AwaitsVerification(d)' => AwaitsVerification(d)
    OBVIOUS
  <2>1. d # c
    BY <1>1
  <2>. QED
    BY <1>2, <2>1 DEF LiveRequests, AwaitsVerification
<1>7. LiveRequests(c)' = {n}
  BY <1>2, <1>5 DEF LiveRequests
<1>8. CardsMatchRequests'
  <2>1. \A d \in DOMAIN cards : \E r \in LiveRequests(d)' :
          /\ requests'[r].user = cards'[d].owner
          /\ requests'[r].kind = cards'[d].kind
          /\ LiveRequests(d)' = {r}
    <3>. SUFFICES ASSUME NEW d \in DOMAIN cards
                  PROVE  \E r \in LiveRequests(d)' :
                            /\ requests'[r].user = cards'[d].owner
                            /\ requests'[r].kind = cards'[d].kind
                            /\ LiveRequests(d)' = {r}
      OBVIOUS
    <3>1. PICK r \in LiveRequests(d) : /\ requests[r].user = cards[d].owner
                                        /\ requests[r].kind = cards[d].kind
                                        /\ LiveRequests(d) = {r}
      BY DEF SalesOK, CardsMatchRequests
    <3>2. r \in DOMAIN requests
      BY <3>1 DEF LiveRequests
    <3>. QED
      BY <1>1, <1>2, <1>6, <3>1, <3>2
  <2>2. \E r \in LiveRequests(c)' : /\ requests'[r].user = cards'[c].owner
                                    /\ requests'[r].kind = cards'[c].kind
                                    /\ LiveRequests(c)' = {r}
    BY <1>1, <1>2, <1>7
  <2>3. \A r \in DOMAIN requests' :
          IF requests'[r].status = "cancelled" THEN requests'[r].card = Null
          ELSE requests'[r].card \in DOMAIN cards'
    BY <1>1, <1>2 DEF SalesOK, CardsMatchRequests
  <2>. QED
    BY <1>1, <2>1, <2>2, <2>3 DEF CardsMatchRequests
<1>9. OnePendingPerKind'
  BY <1>2, <1>3 DEF SalesOK, OnePendingPerKind, HasPending
<1>10. \A o \in DOMAIN orders : orders[o].card # c
  BY <1>1 DEF SalesOK, OrdersHaveCards
<1>11. InactiveUntouched'
  <2>. SUFFICES ASSUME NEW d \in DOMAIN cards', AwaitsVerification(d)'
                PROVE  /\ cards'[d].source = "online"
                       /\ cards'[d].knip = Knipjes
                       /\ log'[d] = <<Issued>>
                       /\ \A o \in DOMAIN orders' : orders'[o].card = d => orders'[o].status # "delivered"
    BY DEF InactiveUntouched
  <2>. HIDE DEF Issued
  <2>1. CASE d = c
    <3>1. status = "pending"
      BY <1>2, <1>5, <2>1 DEF AwaitsVerification
    <3>. QED
      BY <1>1, <1>10, <2>1, <3>1
  <2>2. CASE d # c
    BY <1>1, <1>6, <2>2 DEF SalesOK, InactiveUntouched
  <2>. QED
    BY <2>1, <2>2
<1>12. PendingOrdersOnOwnCard' /\ OrdersHaveCards'
  BY <1>1 DEF SalesOK, PendingOrdersOnOwnCard, OrdersHaveCards
<1>13. AccordedStay
  BY <1>1, <1>2, <1>6 DEF AccordedStay
<1>. QED
  BY <1>8, <1>9, <1>11, <1>12, <1>13 DEF SalesOK

LEMMA FulfillSales ==
    ASSUME TypeOK, SalesOK, NEW r \in DOMAIN requests, FulfillCardRequest(r)
    PROVE  SalesOK' /\ AccordedStay
<1>1. /\ requests[r] \in Request /\ requests[r].status = "pending"
      /\ requests' = [requests EXCEPT ![r] = [requests[r] EXCEPT !.status = "fulfilled"]]
      /\ UNCHANGED <<cards, log, orders>>
  BY RequestTypes DEF FulfillCardRequest
<1>2. /\ DOMAIN requests' = DOMAIN requests
      /\ \A s \in DOMAIN requests : s # r => requests'[s] = requests[s]
      /\ requests'[r].status = "fulfilled" /\ requests'[r].card = requests[r].card
      /\ requests'[r].user = requests[r].user /\ requests'[r].kind = requests[r].kind
  BY <1>1 DEF Request
<1>3. \A s \in DOMAIN requests :
        /\ requests'[s].card = requests[s].card /\ requests'[s].user = requests[s].user
        /\ requests'[s].kind = requests[s].kind
        /\ requests'[s].status = "cancelled" <=> requests[s].status = "cancelled"
        /\ requests'[s].status = "pending" => requests[s].status = "pending"
  BY <1>1, <1>2
<1>4. \A c : /\ LiveRequests(c)' = LiveRequests(c)
             /\ AwaitsVerification(c)' => AwaitsVerification(c)
  BY <1>2, <1>3 DEF LiveRequests, AwaitsVerification
<1>5. CardsMatchRequests'
  <2>1. \A c \in DOMAIN cards : \E s \in LiveRequests(c) :
          /\ s \in DOMAIN requests
          /\ requests[s].user = cards[c].owner
          /\ requests[s].kind = cards[c].kind
          /\ LiveRequests(c) = {s}
    BY DEF SalesOK, CardsMatchRequests, LiveRequests
  <2>2. \A s \in DOMAIN requests' :
          IF requests'[s].status = "cancelled" THEN requests'[s].card = Null
          ELSE requests'[s].card \in DOMAIN cards'
    BY <1>1, <1>2, <1>3 DEF SalesOK, CardsMatchRequests
  <2>. QED
    BY <1>1, <1>3, <1>4, <2>1, <2>2 DEF CardsMatchRequests
<1>6. OnePendingPerKind'
  BY <1>2, <1>3 DEF SalesOK, OnePendingPerKind
<1>7. InactiveUntouched'
  BY <1>1, <1>4 DEF SalesOK, InactiveUntouched
<1>8. PendingOrdersOnOwnCard' /\ OrdersHaveCards'
  BY <1>1 DEF SalesOK, PendingOrdersOnOwnCard, OrdersHaveCards
<1>9. AccordedStay
  BY <1>1, <1>2, <1>4 DEF AccordedStay
<1>. QED
  BY <1>5, <1>6, <1>7, <1>8, <1>9 DEF SalesOK

(* The card of a pending request goes; no other request has it             *)
LEMMA WithdrawSales ==
    ASSUME TypeOK, SalesOK, NEW r \in DOMAIN requests, requests[r].status = "pending",
           WithdrawRequest(r)
    PROVE  SalesOK' /\ AccordedStay
<1>. PICK c \in DOMAIN cards : c = requests[r].card
  BY DEF SalesOK, CardsMatchRequests
<1>1. c # Null
  BY AwaitingCard
<1>2. \A s \in DOMAIN requests : s # r => requests[s].card # c
  <2>1. r \in LiveRequests(c)
    BY DEF LiveRequests
  <2>2. LiveRequests(c) = {r}
    BY <2>1 DEF SalesOK, CardsMatchRequests
  <2>3. \A s \in DOMAIN requests : requests[s].card = c => requests[s].status # "cancelled"
    BY <1>1 DEF SalesOK, CardsMatchRequests
  <2>. QED
    BY <2>2, <2>3 DEF LiveRequests
<1>3. /\ DOMAIN requests' = DOMAIN requests
      /\ \A s \in DOMAIN requests : s # r => requests'[s] = requests[s]
      /\ requests'[r].status = "cancelled" /\ requests'[r].card = Null
  <2>. DEFINE Row(i) == [requests[i] EXCEPT
                           !.status = IF i = r THEN "cancelled" ELSE @,
                           !.card = IF @ = c THEN Null ELSE @]
  <2>1. requests' = [i \in DOMAIN requests |-> Row(i)]
    BY DEF WithdrawRequest
  <2>2. Row(r).status = "cancelled" /\ Row(r).card = Null
    BY RequestTypes DEF Request
  <2>3. ASSUME NEW s \in DOMAIN requests, s # r PROVE Row(s) = requests[s]
    <3>1. Row(s) = [requests[s] EXCEPT !.status = requests[s].status, !.card = requests[s].card]
      BY <1>2, <2>3
    <3>. QED
      BY <3>1, RequestTypes DEF Request
  <2>. HIDE DEF Row
  <2>. QED
    BY <2>1, <2>2, <2>3
<1>4. /\ DOMAIN cards' = DOMAIN cards \ {c}
      /\ \A d \in DOMAIN cards \ {c} : cards'[d] = cards[d] /\ log'[d] = log[d]
      /\ DOMAIN orders' = {o \in DOMAIN orders : orders[o].card # c}
      /\ \A o \in DOMAIN orders' : orders'[o] = orders[o]
  BY DEF WithdrawRequest, Restrict, TypeOK
<1>5. \A d : d # c => /\ LiveRequests(d)' = LiveRequests(d)
                      /\ AwaitsVerification(d)' => AwaitsVerification(d)
  <2>1. \A s \in DOMAIN requests' : s # r => requests'[s] = requests[s]
    BY <1>3
  <2>2. ASSUME NEW d, d # c PROVE LiveRequests(d)' = LiveRequests(d)
    BY <1>3, <2>2 DEF LiveRequests
  <2>3. ASSUME NEW d, d # c PROVE AwaitsVerification(d)' => AwaitsVerification(d)
    BY <1>3, <2>3 DEF AwaitsVerification
  <2>. QED
    BY <2>2, <2>3
<1>6. CardsMatchRequests'
  <2>1. ASSUME NEW d \in DOMAIN cards'
        PROVE  \E s \in LiveRequests(d)' : /\ requests'[s].user = cards'[d].owner
                                           /\ requests'[s].kind = cards'[d].kind
                                           /\ LiveRequests(d)' = {s}
    <3>1. d \in DOMAIN cards /\ d # c
      BY <1>4
    <3>2. PICK s \in LiveRequests(d) : /\ requests[s].user = cards[d].owner
                                        /\ requests[s].kind = cards[d].kind
                                        /\ LiveRequests(d) = {s}
      BY <3>1 DEF SalesOK, CardsMatchRequests
    <3>3. s \in DOMAIN requests /\ s # r
      BY <3>1, <3>2 DEF LiveRequests
    <3>. QED
      BY <1>3, <1>4, <1>5, <3>1, <3>2, <3>3
  <2>2. \A s \in DOMAIN requests' :
          IF requests'[s].status = "cancelled" THEN requests'[s].card = Null
          ELSE requests'[s].card \in DOMAIN cards'
    BY <1>2, <1>3, <1>4 DEF SalesOK, CardsMatchRequests
  <2>. QED
    BY <2>1, <2>2 DEF CardsMatchRequests
<1>7. OnePendingPerKind'
  BY <1>3 DEF SalesOK, OnePendingPerKind
<1>8. InactiveUntouched'
  BY <1>4, <1>5 DEF SalesOK, InactiveUntouched
<1>9. PendingOrdersOnOwnCard' /\ OrdersHaveCards'
  BY <1>4 DEF SalesOK, PendingOrdersOnOwnCard, OrdersHaveCards
<1>10. AccordedStay
  <2>1. AwaitsVerification(c)
    BY DEF AwaitsVerification
  <2>. QED
    BY <1>3, <1>4, <1>5, <2>1 DEF AccordedStay
<1>. QED
  BY <1>6, <1>7, <1>8, <1>9, <1>10 DEF SalesOK

LEMMA CreateTostiOrderSales ==
    ASSUME TypeOK, SalesOK, NEW u \in Members, NEW c \in DOMAIN cards \cup {Null},
           NEW q \in 1..Knipjes, CreateTostiOrder(u, c, q)
    PROVE  SalesOK' /\ AccordedStay
<1>. PICK o \in Nat : o = lastOrder + 1
  BY BoundsAssumption DEF TypeOK
<1>1. /\ UNCHANGED <<cards, log, requests>>
      /\ DOMAIN orders' = DOMAIN orders \cup {o} /\ o \notin DOMAIN orders
      /\ \A p \in DOMAIN orders : orders'[p] = orders[p]
      /\ orders'[o].user = u /\ orders'[o].card = c /\ orders'[o].status = "pending"
  <2>1. orders' = With(orders, o, [user |-> u, card |-> c, qty |-> q, status |-> "pending"])
    BY DEF CreateTostiOrder, InsertTostiOrder
  <2>2. o \notin DOMAIN orders
    BY BoundsAssumption DEF TypeOK
  <2>. QED
    BY <2>1, <2>2 DEF With, CreateTostiOrder, InsertTostiOrder
<1>2. c # Null => cards[c].owner = u /\ cards[c].kind = "tosti" /\ cards[c].source = "online"
  BY DEF CreateTostiOrder, Orderable
<1>3. \A d : LiveRequests(d)' = LiveRequests(d) /\ AwaitsVerification(d)' = AwaitsVerification(d)
  BY <1>1 DEF LiveRequests, AwaitsVerification
<1>4. CardsMatchRequests' /\ OnePendingPerKind'
  BY <1>1, <1>3 DEF SalesOK, CardsMatchRequests, OnePendingPerKind
<1>5. InactiveUntouched'
  BY <1>1, <1>3 DEF SalesOK, InactiveUntouched
<1>6. PendingOrdersOnOwnCard' /\ OrdersHaveCards'
  BY <1>1, <1>2 DEF SalesOK, PendingOrdersOnOwnCard, OrdersHaveCards
<1>7. AccordedStay
  BY <1>1, <1>3 DEF AccordedStay
<1>. QED
  BY <1>4, <1>5, <1>6, <1>7 DEF SalesOK

LEMMA CreateRequestSales ==
    ASSUME TypeOK, SalesOK, NEW u \in Members, NEW k \in Kinds,
           CreateCardRequest(u, k) \/ CreatePhysicalCardSale(u, k)
    PROVE  SalesOK' /\ AccordedStay
  BY IssueCardSales DEF CreateCardRequest, CreatePhysicalCardSale, Sources

LEMMA RejectSales ==
    ASSUME TypeOK, SalesOK, NEW r \in DOMAIN requests,
           AdminRejectCardRequest(r) \/ \E u \in Members : CancelCardRequestForUser(r, u)
    PROVE  SalesOK' /\ AccordedStay
  BY WithdrawSales DEF AdminRejectCardRequest, CancelCardRequestForUser

LEMMA SalesStep ==
    ASSUME TypeOK, SalesOK, [Next]_vars
    PROVE  SalesOK' /\ AccordedStay
<1>1. CASE \E u \in Members, k \in Kinds : CreateCardRequest(u, k) \/ CreatePhysicalCardSale(u, k)
  BY <1>1, CreateRequestSales
<1>2. CASE \E r \in DOMAIN requests : FulfillCardRequest(r)
  BY <1>2, FulfillSales
<1>3. CASE \E r \in DOMAIN requests : AdminRejectCardRequest(r)
  BY <1>3, RejectSales
<1>4. CASE \E r \in DOMAIN requests, u \in Members : CancelCardRequestForUser(r, u)
  BY <1>4, RejectSales
<1>5. CASE \E u \in Members, c \in DOMAIN cards \cup {Null}, q \in 1..Knipjes :
              CreateTostiOrder(u, c, q)
  BY <1>5, CreateTostiOrderSales
<1>6. CASE (\E u \in Members, value \in BOOLEAN : AdminSetMatroosJeugd(u, value)) \/ UNCHANGED vars
  <2>1. KeepsSales
    BY <1>6 DEF AdminSetMatroosJeugd, vars, KeepsSales, SameCards, AwaitingSame, OrdersClose
  <2>. QED
    BY <2>1, KeptSales
<1>. QED
  BY <1>1, <1>2, <1>3, <1>4, <1>5, <1>6, UseKnipjeKeeps, EstimateKeeps, MealKeeps,
     UndoKeeps, DeliverKeeps, CancelKeeps, KeptSales
  DEF Next, NextOnRows, NextOfMembers

LEMMA SalesInvariant == Spec => [](TypeOK /\ SalesOK)
<1>1. Init => TypeOK /\ SalesOK
  BY InitType DEF Init, SalesOK, CardsMatchRequests, OnePendingPerKind, InactiveUntouched,
     PendingOrdersOnOwnCard, OrdersHaveCards
<1>2. TypeOK /\ SalesOK /\ [Next]_vars => (TypeOK /\ SalesOK)'
  BY TypeStep, SalesStep
<1>. QED
  BY <1>1, <1>2, PTL DEF Spec

-----------------------------------------------------------------------------
(* A card belongs to exactly one request that is not cancelled, of its owner *)
(* and kind, and such a request keeps its card (card_requests.go).           *)
THEOREM SalesAndCards == Spec => []CardsMatchRequests
  BY SalesInvariant, PTL DEF SalesOK

(* Nothing is ever deducted from a card that awaits its payment, so no       *)
(* rejection or cancellation loses history (card_requests.go).               *)
THEOREM FirstAccordThenUse == Spec => []InactiveUntouched
  BY SalesInvariant, PTL DEF SalesOK

(* A pending order never points at a card that was deleted, sold to someone  *)
(* else or of another kind (tosti_orders.go).                                *)
THEOREM OrdersOnOwnCards == Spec => []PendingOrdersOnOwnCard
  BY SalesInvariant, PTL DEF SalesOK

-----------------------------------------------------------------------------
(* Orders are closed once *)

ClosedStay ==
    \A o \in DOMAIN orders :
        /\ orders[o].status = "delivered" => o \in DOMAIN orders' /\ orders'[o] = orders[o]
        /\ orders[o].status = "cancelled" /\ o \in DOMAIN orders' => orders'[o] = orders[o]

LEMMA KeptClosed == ASSUME KeepsSales PROVE ClosedStay
  BY DEF KeepsSales, OrdersClose, ClosedStay

LEMMA SameClosed == ASSUME orders' = orders PROVE ClosedStay
  BY DEF ClosedStay

(* The orders that go with a withdrawn card were never delivered from it *)
LEMMA WithdrawClosed ==
    ASSUME TypeOK, SalesOK, NEW r \in DOMAIN requests, requests[r].status = "pending",
           WithdrawRequest(r)
    PROVE  ClosedStay
<1>. PICK c \in DOMAIN cards : c = requests[r].card
  BY DEF SalesOK, CardsMatchRequests
<1>1. AwaitsVerification(c)
  BY DEF AwaitsVerification
<1>2. /\ DOMAIN orders' = {o \in DOMAIN orders : orders[o].card # c}
      /\ \A o \in DOMAIN orders' : orders'[o] = orders[o]
  BY DEF WithdrawRequest, Restrict
<1>. QED
  BY <1>1, <1>2 DEF ClosedStay, SalesOK, InactiveUntouched

LEMMA CreateTostiOrderClosed ==
    ASSUME TypeOK, NEW u \in Members, NEW c \in DOMAIN cards \cup {Null},
           NEW q \in 1..Knipjes, CreateTostiOrder(u, c, q)
    PROVE  ClosedStay
<1>1. lastOrder + 1 \notin DOMAIN orders
  BY BoundsAssumption DEF TypeOK
<1>. QED
  BY <1>1 DEF CreateTostiOrder, InsertTostiOrder, With, ClosedStay

LEMMA ClosedStep ==
    ASSUME TypeOK, SalesOK, [Next]_vars
    PROVE  ClosedStay
<1>1. CASE \E u \in Members, k \in Kinds : CreateCardRequest(u, k) \/ CreatePhysicalCardSale(u, k)
  BY <1>1, SameClosed DEF CreateCardRequest, CreatePhysicalCardSale, IssueCard
<1>2. CASE \E r \in DOMAIN requests : FulfillCardRequest(r)
  BY <1>2, SameClosed DEF FulfillCardRequest
<1>3. CASE \E r \in DOMAIN requests :
              AdminRejectCardRequest(r) \/ \E u \in Members : CancelCardRequestForUser(r, u)
  BY <1>3, WithdrawClosed DEF AdminRejectCardRequest, CancelCardRequestForUser
<1>4. CASE \E u \in Members, c \in DOMAIN cards \cup {Null}, q \in 1..Knipjes :
              CreateTostiOrder(u, c, q)
  BY <1>4, CreateTostiOrderClosed
<1>5. CASE (\E u \in Members, value \in BOOLEAN : AdminSetMatroosJeugd(u, value)) \/ UNCHANGED vars
  BY <1>5, SameClosed DEF AdminSetMatroosJeugd, vars
<1>. QED
  BY <1>1, <1>2, <1>3, <1>4, <1>5, UseKnipjeKeeps, EstimateKeeps, MealKeeps,
     UndoKeeps, DeliverKeeps, CancelKeeps, KeptClosed
  DEF Next, NextOnRows, NextOfMembers

(* No later cancel, rejection or undo changes or removes a delivered order,  *)
(* and a cancelled order is never delivered (tosti_orders.go).               *)
THEOREM OrdersCloseOnce == Spec => ClosedOrdersFinal
<1>. DEFINE Step == \A o \in DOMAIN orders :
        /\ orders[o].status = "delivered" => o \in DOMAIN orders' /\ orders'[o] = orders[o]
        /\ orders[o].status = "cancelled" /\ o \in DOMAIN orders' => orders'[o] = orders[o]
<1>1. TypeOK /\ SalesOK /\ [Next]_vars => [Step]_vars
  BY ClosedStep DEF ClosedStay
<1>. HIDE DEF Step
<1>2. Spec => [][Step]_vars
  BY <1>1, SalesInvariant, PTL DEF Spec
<1>. QED
  BY <1>2 DEF ClosedOrdersFinal, Step

-----------------------------------------------------------------------------
(* A tosti order is paid for by one line of the logboek, of the card it was *)
(* delivered from, and by no line as long as it is not delivered. Only a    *)
(* delivery from a card books a line that names an order; every other step  *)
(* leaves the payments as they are (NoPayment).                             *)

(* Line is the payment for order o from card c *)
Pays(line, c, o) ==
    /\ orders[o].status = "delivered" /\ orders[o].card = c
    /\ line.reason = "tosti_delivered"
    /\ line.delta \in -orders[o].qty..0
    /\ cards[c].source = "online" => line.delta = -orders[o].qty

PaymentsOK ==
    /\ \A c \in DOMAIN cards : \A i \in DOMAIN log[c] : log[c][i].order # Null =>
          /\ log[c][i].order \in DOMAIN orders
          /\ Pays(log[c][i], c, log[c][i].order)
          /\ \A j \in DOMAIN log[c] : log[c][j].order = log[c][i].order => i = j
    /\ \A o \in DOMAIN orders : orders[o].status = "delivered" /\ orders[o].card # Null =>
          \E i \in DOMAIN log[orders[o].card] : log[orders[o].card][i].order = o

-----------------------------------------------------------------------------
(* Steps that pay for nothing *)

SameBookings(old, new) ==
    /\ DOMAIN old \subseteq DOMAIN new
    /\ \A i \in DOMAIN old : /\ new[i].order = old[i].order
                             /\ new[i].reason = old[i].reason
                             /\ new[i].delta = old[i].delta
    /\ \A i \in DOMAIN new \ DOMAIN old : new[i].order = Null

NoDelivery ==
    \A o \in DOMAIN orders' : orders'[o].status = "delivered" /\ orders'[o].card # Null =>
        o \in DOMAIN orders /\ orders'[o] = orders[o]

NoPayment ==
    /\ \A c \in DOMAIN cards' :
          \/ /\ c \in DOMAIN cards
             /\ cards'[c].source = cards[c].source
             /\ SameBookings(log[c], log'[c])
          \/ /\ c \notin DOMAIN cards
             /\ \A i \in DOMAIN log'[c] : log'[c][i].order = Null
    /\ NoDelivery

LEMMA PaymentsKept ==
    ASSUME SalesOK, SalesOK', ClosedStay, PaymentsOK, NoPayment
    PROVE  PaymentsOK'
<1>1. ASSUME NEW c \in DOMAIN cards', NEW i \in DOMAIN log'[c], log'[c][i].order # Null
      PROVE  /\ c \in DOMAIN cards /\ i \in DOMAIN log[c]
             /\ log[c][i].order = log'[c][i].order
             /\ log[c][i].reason = log'[c][i].reason
             /\ log[c][i].delta = log'[c][i].delta
             /\ cards'[c].source = cards[c].source
  BY <1>1 DEF NoPayment, SameBookings
<1>2. ASSUME NEW c \in DOMAIN cards', NEW i \in DOMAIN log'[c], log'[c][i].order # Null
      PROVE  /\ log'[c][i].order \in DOMAIN orders'
             /\ Pays(log[c][i], c, log[c][i].order)'
             /\ \A j \in DOMAIN log'[c] : log'[c][j].order = log'[c][i].order => i = j
  <2>. PICK o : o = log'[c][i].order
    OBVIOUS
  <2>1. /\ c \in DOMAIN cards /\ i \in DOMAIN log[c] /\ o # Null /\ log[c][i].order = o
        /\ log[c][i].reason = log'[c][i].reason
        /\ log[c][i].delta = log'[c][i].delta
        /\ cards'[c].source = cards[c].source
    BY <1>1, <1>2
  <2>2. /\ o \in DOMAIN orders /\ Pays(log[c][i], c, o)
        /\ \A j \in DOMAIN log[c] : log[c][j].order = o => i = j
    BY <2>1 DEF PaymentsOK
  <2>3. o \in DOMAIN orders' /\ orders'[o] = orders[o]
    BY <2>2 DEF Pays, ClosedStay
  <2>4. Pays(log[c][i], c, log[c][i].order)'
    BY <2>1, <2>2, <2>3 DEF Pays
  <2>5. ASSUME NEW j \in DOMAIN log'[c], log'[c][j].order = o PROVE i = j
    BY <1>1, <2>1, <2>2, <2>5
  <2>. QED
    BY <2>3, <2>4, <2>5
<1>3. ASSUME NEW o \in DOMAIN orders', orders'[o].status = "delivered", orders'[o].card # Null
      PROVE  \E i \in DOMAIN log'[orders'[o].card] : log'[orders'[o].card][i].order = o
  <2>. PICK c : c = orders'[o].card
    OBVIOUS
  <2>1. o \in DOMAIN orders /\ orders[o].status = "delivered" /\ orders[o].card = c /\ c # Null
    BY <1>3 DEF NoPayment, NoDelivery
  <2>2. PICK i \in DOMAIN log[c] : log[c][i].order = o
    BY <2>1 DEF PaymentsOK
  <2>3. c \in DOMAIN cards'
    BY <1>3 DEF SalesOK, OrdersHaveCards
  <2>4. i \in DOMAIN log'[c] /\ log'[c][i].order = o
    <3>1. CASE SameBookings(log[c], log'[c])
      BY <2>2, <3>1 DEF SameBookings
    <3>2. CASE c \notin DOMAIN cards
      <4>1. orders[o].card \in DOMAIN cards \cup {Null}
        BY <2>1 DEF SalesOK, OrdersHaveCards
      <4>. QED
        BY <2>1, <3>2, <4>1
    <3>. QED
      BY <2>3, <3>1, <3>2 DEF NoPayment
  <2>. QED
    BY <2>4
<1>. QED
  BY <1>2, <1>3 DEF PaymentsOK

LEMMA SameRowsNoPayment ==
    ASSUME UNCHANGED <<cards, log>>, NoDelivery
    PROVE  NoPayment
  BY DEF NoPayment, SameBookings

LEMMA AppendedBookings ==
    ASSUME NEW lines \in Seq(Line), NEW line \in Line, line.order = Null
    PROVE  SameBookings(lines, Append(lines, line))
<1>. DEFINE new == Append(lines, line)
<1>1. /\ Len(lines) \in Nat /\ DOMAIN lines = 1..Len(lines) /\ DOMAIN new = 1..(Len(lines) + 1)
      /\ \A i \in 1..Len(lines) : new[i] = lines[i]
      /\ new[Len(lines) + 1] = line
  BY AppendedLine
<1>. HIDE DEF new
<1>2. SameBookings(lines, new)
  BY <1>1 DEF SameBookings
<1>. QED
  BY <1>2 DEF new

LEMMA UndoneBookings ==
    ASSUME NEW lines \in Seq(Line), NEW i \in DOMAIN lines,
           NEW meal \in Days \cup {Null}, NEW balance \in 0..Knipjes
    PROVE  SameBookings(lines, UndoneLog(lines, i, meal, balance))
<1>. DEFINE new == UndoneLog(lines, i, meal, balance)
<1>1. Undone(lines, i, meal, new)
  BY UndoneColumns
<1>. HIDE DEF new
<1>2. /\ Len(lines) \in Nat /\ DOMAIN lines = 1..Len(lines) /\ DOMAIN new = 1..(Len(lines) + 1)
      /\ \A j \in 1..Len(lines) : /\ new[j].order = lines[j].order
                                  /\ new[j].reason = lines[j].reason
                                  /\ new[j].delta = lines[j].delta
      /\ new[Len(lines) + 1].order = Null
  BY <1>1 DEF Undone
<1>3. SameBookings(lines, new)
  BY <1>2 DEF SameBookings
<1>. QED
  BY <1>3 DEF new

(* A line that names no order is booked *)
LEMMA BookNoPayment ==
    ASSUME TypeOK, NEW c \in DOMAIN cards, NEW line \in Line, line.order = Null,
           Book(c, line), orders' = orders
    PROVE  NoPayment
<1>1. /\ DOMAIN cards' = DOMAIN cards
      /\ cards'[c] = [cards[c] EXCEPT !.knip = line.balance]
      /\ \A d \in DOMAIN cards : d # c => cards'[d] = cards[d] /\ log'[d] = log[d]
      /\ log'[c] = Append(log[c], line)
      /\ cards[c] \in Card /\ log[c] \in Seq(Line)
  BY BookShape, RowTypes
<1>2. cards'[c].source = cards[c].source
  BY <1>1 DEF Card
<1>3. SameBookings(log[c], log'[c])
  BY <1>1, AppendedBookings
<1>4. \A d \in DOMAIN cards : SameBookings(log[d], log[d])
  BY DEF SameBookings
<1>5. \A d \in DOMAIN cards : cards'[d].source = cards[d].source /\ SameBookings(log[d], log'[d])
  BY <1>1, <1>2, <1>3, <1>4
<1>6. NoDelivery
  BY DEF NoDelivery
<1>. QED
  BY <1>1, <1>5, <1>6 DEF NoPayment

LEMMA UseKnipjeNoPayment ==
    ASSUME TypeOK, NEW c \in DOMAIN cards, UseKnipje(c)
    PROVE  NoPayment
<1>. DEFINE line == Booking("manual_knipje", -1, cards[c].knip - 1)
<1>1. line \in Line /\ Book(c, line) /\ orders' = orders
  BY UseKnipjeLine DEF UseKnipje
<1>2. line.order = Null
  BY BookingColumns
<1>. HIDE DEF line
<1>. QED
  BY <1>1, <1>2, BookNoPayment

LEMMA EstimateNoPayment ==
    ASSUME TypeOK, NEW c \in DOMAIN cards, NEW value \in 0..Knipjes,
           SetPhysicalCardEstimate(c, value)
    PROVE  NoPayment
<1>. DEFINE line == Booking("estimate_adjust", value - cards[c].knip, value)
<1>1. line \in Line /\ Book(c, line) /\ orders' = orders
  BY EstimateLine DEF SetPhysicalCardEstimate
<1>2. line.order = Null
  BY BookingColumns
<1>. HIDE DEF line
<1>. QED
  BY <1>1, <1>2, BookNoPayment

LEMMA MealNoPayment ==
    ASSUME TypeOK, NEW day \in Days, NEW S \in SUBSET DOMAIN cards,
           RegisterAvondetenMealsForDate(day, S)
    PROVE  NoPayment
<1>1. /\ DOMAIN cards' = DOMAIN cards /\ orders' = orders
      /\ \A d \in DOMAIN cards : d \notin S => cards'[d] = cards[d] /\ log'[d] = log[d]
  BY DEF RegisterAvondetenMealsForDate, TypeOK
<1>2. ASSUME NEW c \in S
      PROVE  cards'[c].source = cards[c].source /\ SameBookings(log[c], log'[c])
  <2>. DEFINE line == [Booking("avondeten_meal", -1, cards[c].knip - 1) EXCEPT !.meal = day]
  <2>1. /\ line \in Line /\ log'[c] = Append(log[c], line)
        /\ cards'[c] = [cards[c] EXCEPT !.knip = @ - 1]
    BY MealShape
  <2>2. line.order = Null
    BY BookingColumns
  <2>. HIDE DEF line
  <2>3. SameBookings(log[c], log'[c])
    BY <2>1, <2>2, RowTypes, AppendedBookings
  <2>4. cards'[c].source = cards[c].source
    BY <2>1, RowTypes DEF Card
  <2>. QED
    BY <2>3, <2>4
<1>3. \A d \in DOMAIN cards : SameBookings(log[d], log[d])
  BY DEF SameBookings
<1>4. \A d \in DOMAIN cards : cards'[d].source = cards[d].source /\ SameBookings(log[d], log'[d])
  BY <1>1, <1>2, <1>3
<1>5. NoDelivery
  BY <1>1 DEF NoDelivery
<1>. QED
  BY <1>1, <1>4, <1>5 DEF NoPayment

LEMMA UndoNoPayment ==
    ASSUME TypeOK, NEW c \in DOMAIN cards, NEW i \in DOMAIN log[c], UndoCardTransaction(c, i)
    PROVE  NoPayment
<1>. PICK meal \in Days \cup {Null} : meal = log[c][i].meal
  BY UndoShape
<1>. PICK balance \in 0..Knipjes : balance = cards[c].knip - log[c][i].delta
  BY UndoShape
<1>1. /\ DOMAIN cards' = DOMAIN cards /\ orders' = orders
      /\ cards'[c] = [cards[c] EXCEPT !.knip = balance]
      /\ log'[c] = UndoneLog(log[c], i, meal, balance)
      /\ \A d \in DOMAIN cards : d # c => cards'[d] = cards[d] /\ log'[d] = log[d]
  BY UndoShape DEF UndoCardTransaction
<1>2. SameBookings(log[c], log'[c])
  BY <1>1, RowTypes, UndoneBookings
<1>3. cards'[c].source = cards[c].source
  BY <1>1, RowTypes DEF Card
<1>4. \A d \in DOMAIN cards : SameBookings(log[d], log[d])
  BY DEF SameBookings
<1>5. \A d \in DOMAIN cards : cards'[d].source = cards[d].source /\ SameBookings(log[d], log'[d])
  BY <1>1, <1>2, <1>3, <1>4
<1>6. NoDelivery
  BY <1>1 DEF NoDelivery
<1>. QED
  BY <1>1, <1>5, <1>6 DEF NoPayment

LEMMA IssueNoPayment ==
    ASSUME TypeOK, NEW u \in Members, NEW k \in Kinds, NEW source \in Sources,
           NEW status, IssueCard(u, k, source, status)
    PROVE  NoPayment
<1>. PICK c \in Nat : c = lastCard + 1
  BY BoundsAssumption DEF TypeOK
<1>1. /\ c \notin DOMAIN cards /\ DOMAIN cards' = DOMAIN cards \cup {c} /\ orders' = orders
      /\ \A d \in DOMAIN cards : cards'[d] = cards[d] /\ log'[d] = log[d]
      /\ log'[c] = <<Issued>>
  <2>1. lastCard \in Nat /\ DOMAIN cards \subseteq 1..lastCard /\ DOMAIN log = DOMAIN cards
    BY BoundsAssumption DEF TypeOK
  <2>2. c \notin DOMAIN cards
    BY <2>1
  <2>. HIDE DEF Issued
  <2>. QED
    BY <2>1, <2>2 DEF IssueCard, With
<1>2. Issued.order = Null
  BY DEF Issued, Booking
<1>3. \A i \in DOMAIN log'[c] : log'[c][i].order = Null
  <2>. HIDE DEF Issued
  <2>. QED
    BY <1>1, <1>2
<1>4. \A d \in DOMAIN cards : SameBookings(log[d], log[d])
  BY DEF SameBookings
<1>5. NoDelivery
  BY <1>1 DEF NoDelivery
<1>. QED
  BY <1>1, <1>3, <1>4, <1>5 DEF NoPayment

LEMMA WithdrawNoPayment ==
    ASSUME TypeOK, NEW r \in DOMAIN requests, WithdrawRequest(r)
    PROVE  NoPayment
<1>1. /\ DOMAIN cards' \subseteq DOMAIN cards
      /\ \A d \in DOMAIN cards' : cards'[d] = cards[d] /\ log'[d] = log[d]
      /\ DOMAIN orders' \subseteq DOMAIN orders
      /\ \A o \in DOMAIN orders' : orders'[o] = orders[o]
  BY DEF WithdrawRequest, Restrict, TypeOK
<1>2. \A d \in DOMAIN cards : SameBookings(log[d], log[d])
  BY DEF SameBookings
<1>3. NoDelivery
  BY <1>1 DEF NoDelivery
<1>. QED
  BY <1>1, <1>2, <1>3 DEF NoPayment

LEMMA CreateTostiOrderNoPayment ==
    ASSUME TypeOK, NEW u \in Members, NEW c \in DOMAIN cards \cup {Null},
           NEW q \in 1..Knipjes, CreateTostiOrder(u, c, q)
    PROVE  NoPayment
<1>. PICK o \in Nat : o = lastOrder + 1
  BY BoundsAssumption DEF TypeOK
<1>1. orders' = With(orders, o, [user |-> u, card |-> c, qty |-> q, status |-> "pending"])
  BY DEF CreateTostiOrder, InsertTostiOrder
<1>2. NoDelivery
  BY <1>1 DEF With, NoDelivery
<1>. QED
  BY <1>2, SameRowsNoPayment DEF CreateTostiOrder, InsertTostiOrder

LEMMA CancelNoPayment ==
    ASSUME TypeOK, NEW o \in DOMAIN orders, CancelTostiOrder(o)
    PROVE  NoPayment
<1>1. orders[o] \in Order /\ orders' = [orders EXCEPT ![o] = [orders[o] EXCEPT !.status = "cancelled"]]
  BY DEF CancelTostiOrder, TypeOK
<1>2. /\ DOMAIN orders' = DOMAIN orders /\ orders'[o].status = "cancelled"
      /\ \A p \in DOMAIN orders : p # o => orders'[p] = orders[p]
  BY <1>1 DEF Order
<1>3. NoDelivery
  BY <1>2 DEF NoDelivery
<1>. QED
  BY <1>3, SameRowsNoPayment DEF CancelTostiOrder

-----------------------------------------------------------------------------
(* A delivery from a card pays with one line *)

LEMMA DeliveryPays ==
    ASSUME TypeOK, SalesOK, PaymentsOK, NEW o \in DOMAIN orders, orders[o].status = "pending",
           NEW c \in DOMAIN cards, DeliverFromCard(o, c)
    PROVE  PaymentsOK'
<1>. PICK q \in 1..Knipjes : q = orders[o].qty
  BY DEF TypeOK, Order
<1>. PICK n \in Nat : n = Len(log[c])
  BY RowTypes, LenProperties
<1>. DEFINE balance == BalanceAfterDelivery(c, orders[o].qty)
            line == [Booking("tosti_delivered", balance - cards[c].knip, balance)
                       EXCEPT !.order = o]
<1>1. /\ Book(c, line) /\ line \in Line /\ line.delta = balance - cards[c].knip
      /\ line.reason = "tosti_delivered" /\ line.order = o
  BY DeliveryLine, BookingColumns
<1>2. balance - cards[c].knip \in -q..0 /\ (cards[c].source = "online" => balance - cards[c].knip = -q)
  <2>1. cards[c].knip \in 0..Knipjes
    BY RowTypes
  <2>2. cards[c].source = "online" => q <= cards[c].knip
    BY DEF DeliverFromCard, MayDeduct
  <2>. QED
    BY <2>1, <2>2, KnipjesAssumption DEF BalanceAfterDelivery
<1>3. line.delta \in -q..0 /\ (cards[c].source = "online" => line.delta = -q)
  BY <1>1, <1>2
<1>. HIDE DEF line
<1>4. /\ DOMAIN cards' = DOMAIN cards
      /\ \A d \in DOMAIN cards : cards'[d].source = cards[d].source
      /\ \A d \in DOMAIN cards : d # c => log'[d] = log[d]
      /\ log'[c] = Append(log[c], line)
  <2>1. /\ DOMAIN cards' = DOMAIN cards
        /\ cards'[c] = [cards[c] EXCEPT !.knip = line.balance]
        /\ \A d \in DOMAIN cards : d # c => cards'[d] = cards[d] /\ log'[d] = log[d]
        /\ log'[c] = Append(log[c], line)
    BY <1>1, BookShape
  <2>2. cards'[c].source = cards[c].source
    BY <2>1, RowTypes DEF Card
  <2>. QED
    BY <2>1, <2>2
<1>5. /\ DOMAIN log[c] = 1..n /\ DOMAIN log'[c] = 1..(n + 1)
      /\ \A i \in 1..n : log'[c][i] = log[c][i]
      /\ log'[c][n + 1] = line
  BY <1>1, <1>4, RowTypes, AppendedLine
<1>6. /\ DOMAIN orders' = DOMAIN orders
      /\ orders'[o].status = "delivered" /\ orders'[o].card = c /\ orders'[o].qty = q
      /\ \A p \in DOMAIN orders : p # o => orders'[p] = orders[p]
  BY RowTypes, Delivered DEF DeliverFromCard
<1>7. \A d \in DOMAIN cards : \A i \in DOMAIN log[d] : log[d][i].order # o
  <2>. SUFFICES ASSUME NEW d \in DOMAIN cards, NEW i \in DOMAIN log[d], log[d][i].order = o
                PROVE  FALSE
    OBVIOUS
  <2>1. o # Null
    BY DEF TypeOK, Null
  <2>. QED
    BY <2>1 DEF PaymentsOK, Pays
<1>8. ASSUME NEW d \in DOMAIN cards, NEW i \in DOMAIN log[d], log[d][i].order # Null
      PROVE  /\ log[d][i].order \in DOMAIN orders'
             /\ orders'[log[d][i].order] = orders[log[d][i].order]
             /\ Pays(log[d][i], d, log[d][i].order)
             /\ \A j \in DOMAIN log[d] : log[d][j].order = log[d][i].order => i = j
  BY <1>6, <1>7, <1>8 DEF PaymentsOK
<1>9. ASSUME NEW d \in DOMAIN cards, NEW i \in DOMAIN log'[d], log'[d][i].order # Null
      PROVE  /\ log'[d][i].order \in DOMAIN orders'
             /\ Pays(log[d][i], d, log[d][i].order)'
             /\ \A j \in DOMAIN log'[d] : log'[d][j].order = log'[d][i].order => i = j
  <2>1. CASE d # c
    BY <1>4, <1>8, <1>9, <2>1 DEF Pays
  <2>2. CASE d = c /\ i = n + 1
    <3>1. Pays(log[d][i], d, log[d][i].order)'
      BY <1>1, <1>3, <1>4, <1>5, <1>6, <2>2 DEF Pays
    <3>2. log'[d][i].order \in DOMAIN orders'
      BY <1>1, <1>5, <1>6, <2>2
    <3>3. ASSUME NEW j \in DOMAIN log'[d], log'[d][j].order = log'[d][i].order PROVE i = j
      <4>1. j \in 1..n => log[c][j].order = o
        BY <1>1, <1>5, <2>2, <3>3
      <4>. QED
        BY <1>5, <1>7, <2>2, <4>1
    <3>. QED
      BY <3>1, <3>2, <3>3
  <2>3. CASE d = c /\ i \in 1..n
    <3>1. i \in DOMAIN log[c] /\ log'[c][i] = log[c][i] /\ log[c][i].order # Null
      BY <1>5, <1>9, <2>3
    <3>2. Pays(log[d][i], d, log[d][i].order)'
      BY <1>4, <1>8, <2>3, <3>1 DEF Pays
    <3>3. log'[d][i].order \in DOMAIN orders'
      BY <1>8, <2>3, <3>1
    <3>4. ASSUME NEW j \in DOMAIN log'[d], log'[d][j].order = log'[d][i].order PROVE i = j
      <4>1. j # n + 1
        BY <1>1, <1>5, <1>7, <2>3, <3>1, <3>4
      <4>2. j \in DOMAIN log[c] /\ log'[c][j] = log[c][j]
        BY <1>5, <2>3, <4>1
      <4>. QED
        BY <1>8, <2>3, <3>1, <3>4, <4>2
    <3>. QED
      BY <3>2, <3>3, <3>4
  <2>. QED
    BY <1>5, <2>1, <2>2, <2>3
<1>10. ASSUME NEW p \in DOMAIN orders', orders'[p].status = "delivered", orders'[p].card # Null
       PROVE  \E i \in DOMAIN log'[orders'[p].card] : log'[orders'[p].card][i].order = p
  <2>1. CASE p = o
    <3>1. n + 1 \in DOMAIN log'[c] /\ log'[c][n + 1].order = o
      BY <1>1, <1>5
    <3>2. orders'[p].card = c
      BY <1>6, <2>1
    <3>. QED
      BY <2>1, <3>1, <3>2
  <2>2. CASE p # o
    <3>. PICK d : d = orders[p].card
      OBVIOUS
    <3>1. p \in DOMAIN orders /\ orders[p].status = "delivered" /\ d # Null /\ orders'[p].card = d
      BY <1>6, <1>10, <2>2
    <3>2. PICK i \in DOMAIN log[d] : log[d][i].order = p
      BY <3>1 DEF PaymentsOK
    <3>3. d \in DOMAIN cards
      BY <3>1 DEF SalesOK, OrdersHaveCards
    <3>4. i \in DOMAIN log'[d] /\ log'[d][i].order = p
      <4>1. CASE d # c
        BY <1>4, <3>2, <3>3, <4>1
      <4>2. CASE d = c
        BY <1>5, <3>2, <4>2
      <4>. QED
        BY <4>1, <4>2
    <3>. QED
      BY <3>1, <3>4
  <2>. QED
    BY <2>1, <2>2
<1>. QED
  BY <1>4, <1>9, <1>10 DEF PaymentsOK

LEMMA DeliverPayments ==
    ASSUME TypeOK, SalesOK, SalesOK', ClosedStay, PaymentsOK,
           NEW o \in DOMAIN orders, DeliverTostiOrder(o)
    PROVE  PaymentsOK'
<1>1. orders[o].status = "pending"
  BY DEF DeliverTostiOrder
<1>2. CASE \E c \in DOMAIN cards : DeliverFromCard(o, c)
  BY <1>1, <1>2, DeliveryPays
<1>3. CASE /\ MarkDelivered(o, Null)
           /\ UNCHANGED <<matroos, cards, lastCard, log, requests, lastOrder, meals>>
  <2>1. NoDelivery
    BY <1>3, Delivered DEF NoDelivery, Null
  <2>. QED
    BY <1>3, <2>1, SameRowsNoPayment, PaymentsKept
<1>. QED
  BY <1>2, <1>3, DeliveryCases

LEMMA PaymentStep ==
    ASSUME TypeOK, SalesOK, SalesOK', ClosedStay, PaymentsOK,
           [Next]_vars
    PROVE  PaymentsOK'
<1>1. CASE \E u \in Members, k \in Kinds : CreateCardRequest(u, k) \/ CreatePhysicalCardSale(u, k)
  BY <1>1, IssueNoPayment, PaymentsKept DEF CreateCardRequest, CreatePhysicalCardSale, Sources
<1>2. CASE \/ \E r \in DOMAIN requests : FulfillCardRequest(r)
           \/ \E u \in Members, value \in BOOLEAN : AdminSetMatroosJeugd(u, value)
           \/ UNCHANGED vars
  <2>1. UNCHANGED <<cards, log, orders>>
    BY <1>2 DEF FulfillCardRequest, AdminSetMatroosJeugd, vars
  <2>2. NoDelivery
    BY <2>1 DEF NoDelivery
  <2>. QED
    BY <2>1, <2>2, SameRowsNoPayment, PaymentsKept
<1>3. CASE \E r \in DOMAIN requests :
              AdminRejectCardRequest(r) \/ \E u \in Members : CancelCardRequestForUser(r, u)
  BY <1>3, WithdrawNoPayment, PaymentsKept DEF AdminRejectCardRequest, CancelCardRequestForUser
<1>4. CASE \E u \in Members, c \in DOMAIN cards \cup {Null}, q \in 1..Knipjes :
              CreateTostiOrder(u, c, q)
  BY <1>4, CreateTostiOrderNoPayment, PaymentsKept
<1>5. CASE \E o \in DOMAIN orders : DeliverTostiOrder(o)
  BY <1>5, DeliverPayments
<1>. QED
  BY <1>1, <1>2, <1>3, <1>4, <1>5, UseKnipjeNoPayment, EstimateNoPayment, MealNoPayment,
     UndoNoPayment, CancelNoPayment, PaymentsKept
  DEF Next, NextOnRows, NextOfMembers

LEMMA PaymentsInvariant == Spec => [](TypeOK /\ SalesOK /\ PaymentsOK)
<1>1. Init => PaymentsOK
  BY DEF Init, PaymentsOK
<1>2. TypeOK /\ SalesOK /\ (TypeOK /\ SalesOK)' /\ PaymentsOK /\ [Next]_vars => PaymentsOK'
  BY ClosedStep, PaymentStep
<1>. QED
  BY <1>1, <1>2, SalesInvariant, PTL DEF Spec

(* What PaymentsOK says of the lines that name an order *)
LEMMA PaymentsMatch ==
    ASSUME TypeOK, SalesOK, PaymentsOK
    PROVE  OrdersMatchLog
<1>1. ASSUME NEW o \in DOMAIN orders, NEW c \in DOMAIN cards, NEW i \in DOMAIN log[c],
             log[c][i].order = o
      PROVE  /\ Pays(log[c][i], c, o)
             /\ \A j \in DOMAIN log[c] : log[c][j].order = o => i = j
  <2>1. o # Null
    BY DEF TypeOK, Null
  <2>. QED
    BY <1>1, <2>1 DEF PaymentsOK
<1>2. ASSUME NEW o \in DOMAIN orders, NEW l \in OrderLines(o)
      PROVE  \E c \in DOMAIN cards : \E i \in DOMAIN log[c] :
                l = <<c, i>> /\ log[c][i].order = o
  BY DEF OrderLines
<1>3. ASSUME NEW o \in DOMAIN orders, orders[o].status = "delivered", orders[o].card # Null
      PROVE  /\ Cardinality(OrderLines(o)) = 1
             /\ \A l \in OrderLines(o) :
                   /\ l[1] = orders[o].card
                   /\ log[l[1]][l[2]].reason = "tosti_delivered"
                   /\ log[l[1]][l[2]].delta \in -orders[o].qty..0
                   /\ cards[l[1]].source = "online" =>
                         log[l[1]][l[2]].delta = -orders[o].qty
  <2>. PICK c : c = orders[o].card
    OBVIOUS
  <2>1. c \in DOMAIN cards
    BY <1>3 DEF SalesOK, OrdersHaveCards
  <2>2. PICK i \in DOMAIN log[c] : log[c][i].order = o
    BY <1>3 DEF PaymentsOK
  <2>3. Pays(log[c][i], c, o) /\ \A j \in DOMAIN log[c] : log[c][j].order = o => i = j
    BY <1>1, <2>1, <2>2
  <2>4. \A l \in OrderLines(o) : l = <<c, i>>
    <3>. SUFFICES ASSUME NEW l \in OrderLines(o) PROVE l = <<c, i>>
      OBVIOUS
    <3>1. PICK d \in DOMAIN cards : \E j \in DOMAIN log[d] : l = <<d, j>> /\ log[d][j].order = o
      BY <1>2
    <3>2. PICK j \in DOMAIN log[d] : l = <<d, j>> /\ log[d][j].order = o
      BY <3>1
    <3>3. d = c
      BY <1>1, <3>2 DEF Pays
    <3>. QED
      BY <2>3, <3>2, <3>3
  <2>5. <<c, i>> \in OrderLines(o)
    BY <2>1, <2>2 DEF OrderLines
  <2>6. OrderLines(o) = {<<c, i>>}
    BY <2>4, <2>5
  <2>7. Cardinality(OrderLines(o)) = 1
    BY <2>6, FS_Singleton
  <2>. QED
    BY <2>3, <2>4, <2>7 DEF Pays
<1>4. ASSUME NEW o \in DOMAIN orders, ~(orders[o].status = "delivered" /\ orders[o].card # Null)
      PROVE  OrderLines(o) = {}
  <2>. SUFFICES ASSUME NEW l \in OrderLines(o) PROVE FALSE
    OBVIOUS
  <2>1. PICK c \in DOMAIN cards : \E i \in DOMAIN log[c] : log[c][i].order = o
    BY <1>2
  <2>2. orders[o].status = "delivered" /\ orders[o].card = c
    BY <1>1, <2>1 DEF Pays
  <2>. QED
    BY <1>4, <2>2, AwaitingCard
<1>5. ASSUME NEW c \in DOMAIN cards, NEW i \in DOMAIN log[c], log[c][i].order # Null
      PROVE  log[c][i].order \in DOMAIN orders
  BY <1>5 DEF PaymentsOK
<1>. QED
  BY <1>3, <1>4, <1>5 DEF OrdersMatchLog

(* A tosti order is paid for at most once and only when it is delivered:     *)
(* its one line is on the card it was delivered from, an online card pays    *)
(* the exact quantity and a physical one at most that, and no undo, cancel   *)
(* or rejection makes a second line or takes the one there is away           *)
(* (tosti_orders.go, UndoCardTransaction).                                   *)
THEOREM OrdersPaidOnce == Spec => []OrdersMatchLog
  BY PaymentsMatch, PaymentsInvariant, PTL
=============================================================================
