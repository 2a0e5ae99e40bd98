--------------------------- MODULE CardStoreProps ---------------------------
(***************************************************************************)
(* What the knipjes administration of CardStore promises: the invariants   *)
(* and action properties that the runs check and CardStoreProofs proves.   *)
(***************************************************************************)
EXTENDS CardStore

LiveRequests(c) ==
    {r \in DOMAIN requests : requests[r].card = c /\ requests[r].status # "cancelled"}

(* Every table holds rows of its type; ids come from the sequences. *)
TypeOK ==
    /\ matroos \subseteq Members
    /\ lastCard \in 0..MaxCards
    /\ DOMAIN cards \subseteq 1..lastCard
    /\ cards \in [DOMAIN cards -> Card]
    /\ log \in [DOMAIN cards -> Seq(Line)]
    /\ requests \in Seq(Request)
    /\ lastOrder \in 0..MaxOrders
    /\ DOMAIN orders \subseteq 1..lastOrder
    /\ orders \in [DOMAIN orders -> Order]
    /\ meals \subseteq (DOMAIN cards) \X Days

-----------------------------------------------------------------------------
(* The logboek *)

(* The logboek explains every balance: it starts with the issue of a full  *)
(* card, each balance_after is the one before it plus delta, and the last  *)
(* one is the balance on the card (card_transactions.go, cards.go).        *)
Chained(lines, knip) ==
    /\ lines # << >>
    /\ lines[1] = Issued
    /\ \A i \in 2..Len(lines) : lines[i].balance = lines[i-1].balance + lines[i].delta
    /\ lines[Len(lines)].balance = knip

LedgerChain == \A c \in DOMAIN cards : Chained(log[c], cards[c].knip)

(* Undo links pair up: a line is reversed by the one line that reverses    *)
(* it, later, with the opposite delta, and undo lines and the issue are    *)
(* themselves never reversed (UndoCardTransaction).                        *)
UndoPaired(lines) ==
    \A i, j \in DOMAIN lines :
        /\ lines[j].reverses = i <=> lines[i].reversedBy = j
        /\ lines[j].reverses = i =>
              /\ i < j
              /\ lines[j].reason = "undo"
              /\ lines[i].reason \notin {"issued", "undo"}
              /\ lines[j].delta = -lines[i].delta

UndoLinks ==
    \A c \in DOMAIN cards :
        /\ UndoPaired(log[c])
        /\ \A i \in DOMAIN log[c] :
              /\ log[c][i].reason = "undo" => log[c][i].reverses \in DOMAIN log[c]
              /\ log[c][i].reversedBy # Null => log[c][i].reversedBy \in DOMAIN log[c]

(* An online card holds the real balance: what was issued less every       *)
(* deduction that was not undone, whatever the order of deductions and     *)
(* undos.  So undoing a deduction never hits ErrUndoOutOfRange there.      *)
Standing(lines) ==
    {i \in DOMAIN lines : lines[i].reason # "undo" /\ lines[i].reversedBy = Null}

OnlineBalance ==
    \A c \in DOMAIN cards : cards[c].source = "online" =>
        /\ cards[c].knip = MapThenSumSet(LAMBDA i : log[c][i].delta, Standing(log[c]))
        /\ \A i \in DOMAIN log[c] :
              Undoable(log[c][i]) => UndoInRange(c, i)

(* Meal registrations and the log lines that paid for them and were not    *)
(* undone correspond one to one, also after an undo and a registration     *)
(* anew for the same day (avondeten_meals.go, UndoCardTransaction).        *)
MealsMatchLog ==
    /\ \A m \in meals : \E i \in DOMAIN log[m[1]] : log[m[1]][i].meal = m[2]
    /\ \A c \in DOMAIN cards : \A i \in DOMAIN log[c] :
          /\ log[c][i].meal # Null => /\ <<c, log[c][i].meal>> \in meals
                                      /\ log[c][i].reason = "avondeten_meal"
          /\ log[c][i].reason = "avondeten_meal" =>
                (log[c][i].meal = Null <=> log[c][i].reversedBy # Null)
          /\ \A j \in DOMAIN log[c] :
                log[c][i].meal # Null /\ log[c][j].meal = log[c][i].meal => i = j

(* A tosti order is paid for at most once and only when it is delivered:   *)
(* its log line is on the card it was delivered from, an online card pays  *)
(* the exact quantity and a physical one at most that; only an order of a  *)
(* member without a physical card is delivered without a line.             *)
OrderLines(o) ==
    UNION {{<<c, i>> : i \in {j \in DOMAIN log[c] : log[c][j].order = o}} : c \in DOMAIN cards}

OrdersMatchLog ==
    /\ \A o \in DOMAIN orders :
          IF orders[o].status = "delivered" /\ orders[o].card # Null
          THEN /\ Cardinality(OrderLines(o)) = 1
               /\ \A l \in OrderLines(o) :
                     /\ l[1] = orders[o].card
                     /\ log[l[1]][l[2]].reason = "tosti_delivered"
                     /\ log[l[1]][l[2]].delta \in -orders[o].qty..0
                     /\ cards[l[1]].source = "online" =>
                           log[l[1]][l[2]].delta = -orders[o].qty
          ELSE OrderLines(o) = {}
    /\ \A c \in DOMAIN cards : \A i \in DOMAIN log[c] :
          log[c][i].order # Null => log[c][i].order \in DOMAIN orders

-----------------------------------------------------------------------------
(* Requests and cards *)

(* Eerst accorderen, dan actief: nothing was ever deducted from a card     *)
(* whose request is pending, so ErrCannotRejectKnipjesUsed and             *)
(* ErrCannotCancelTrustUsed cannot occur and a rejection loses no history. *)
InactiveUntouched ==
    \A c \in DOMAIN cards : AwaitsVerification(c) =>
        /\ cards[c].source = "online"
        /\ cards[c].knip = Knipjes
        /\ log[c] = <<Issued>>
        /\ \A o \in DOMAIN orders : orders[o].card = c => orders[o].status # "delivered"

(* Cards and sales correspond: a card belongs to exactly one request that  *)
(* is not cancelled, of its owner and kind, and such a request keeps its   *)
(* card; a cancelled request has none.                                     *)
CardsMatchRequests ==
    /\ \A c \in DOMAIN cards : \E r \in LiveRequests(c) :
          /\ requests[r].user = cards[c].owner
          /\ requests[r].kind = cards[c].kind
          /\ LiveRequests(c) = {r}
    /\ \A r \in DOMAIN requests :
          IF requests[r].status = "cancelled" THEN requests[r].card = Null
          ELSE requests[r].card \in DOMAIN cards

(* A member has at most one open request per kind.  Where two transactions *)
(* both pass the look of CreateCardRequest the partial unique index of     *)
(* migration 00010 decides; what else could break it is a merge of two     *)
(* members who each have one, which re-parents requests table by table and *)
(* is refused as a whole (users_lifecycle.go:283).                         *)
OnePendingPerKind ==
    \A r, s \in DOMAIN requests :
        /\ requests[r].status = "pending" /\ requests[s].status = "pending"
        /\ requests[r].user = requests[s].user /\ requests[r].kind = requests[s].kind
        => r = s

(* A pending order that names a card names a live online tosti card of the *)
(* member who placed it, also after rejections deleted other cards.        *)
PendingOrdersOnOwnCard ==
    \A o \in DOMAIN orders : orders[o].status = "pending" /\ orders[o].card # Null =>
        /\ orders[o].card \in DOMAIN cards
        /\ cards[orders[o].card].owner = orders[o].user
        /\ cards[orders[o].card].kind = "tosti"
        /\ cards[orders[o].card].source = "online"

-----------------------------------------------------------------------------
(* What a step may never do *)

(* The logboek is append-only: a step adds at most one line per card and   *)
(* of the older lines changes only the links, each reversal link once.     *)
LogAppendOnly ==
    [][\A c \in DOMAIN cards \cap DOMAIN cards' :
          /\ Len(log'[c]) \in {Len(log[c]), Len(log[c]) + 1}
          /\ \A i \in DOMAIN log[c] :
                /\ log'[c][i] = [log[c][i] EXCEPT !.meal = log'[c][i].meal,
                                                  !.reversedBy = log'[c][i].reversedBy]
                /\ log[c][i].reversedBy # Null => log'[c][i] = log[c][i]]_vars

(* A delivered order is history: no later cancel, reject or undo changes   *)
(* or removes it; a cancelled order is never delivered.                    *)
ClosedOrdersFinal ==
    [][\A o \in DOMAIN orders :
          /\ orders[o].status = "delivered" => o \in DOMAIN orders' /\ orders'[o] = orders[o]
          /\ orders[o].status = "cancelled" /\ o \in DOMAIN orders' => orders'[o] = orders[o]
      ]_vars

-----------------------------------------------------------------------------
(* README.md, Online kaarten: while a member orders on an online card,     *)
(* knipjes worden gereserveerd.  The pending orders on an online card never*)
(* claim more than the card holds.  UseKnipje ignores the reservation.     *)
OrdersReserveKnipjes ==
    \A c \in DOMAIN cards : cards[c].source = "online" =>
        PendingSum(cards[c].owner, c) <= cards[c].knip
=============================================================================
