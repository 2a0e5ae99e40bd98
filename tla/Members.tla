------------------------------- MODULE Members -------------------------------
(***************************************************************************)
(* The knipjes administration while members come, merge and go: CardStore  *)
(* composed with the accounts of MemberLife.  users_lifecycle.go moves the *)
(* rows of a member to another account, or to the placeholder that keeps   *)
(* the history of deleted members.                                         *)
(*                                                                         *)
(* AdminDeleteUser and AdminMergeLocalUserIntoGoogle hold the row of users *)
(* FOR UPDATE, which the foreign keys of a request, a sale or an order of  *)
(* that member wait for; with the row locks of CardStore they are atomic.  *)
(***************************************************************************)
EXTENDS CardStoreProps

VARIABLES
    life,       \* what each row of users is, see MemberLife
    disabled    \* rows with users.disabled_at

Life == INSTANCE MemberLife

People == Life!People
Existing == Life!Existing

allVars == <<vars, life, disabled>>

-----------------------------------------------------------------------------
(* The tables as one value, and what the statements of users_lifecycle.go  *)
(* do to it                                                                *)

Tables == [cards |-> cards, log |-> log, requests |-> requests,
           orders |-> orders, meals |-> meals]

(* DELETE FROM cards with its foreign keys *)
WithoutCards(db, C) ==
    [cards    |-> Restrict(db.cards, DOMAIN db.cards \ C),
     log      |-> Restrict(db.log, DOMAIN db.log \ C),
     requests |-> [r \in DOMAIN db.requests |->
                     [db.requests[r] EXCEPT !.card = IF @ \in C THEN Null ELSE @]],
     orders   |-> Restrict(db.orders, {o \in DOMAIN db.orders : db.orders[o].card \notin C}),
     meals    |-> {m \in db.meals : m[1] \notin C}]

PendingRequests(db, u) ==
    {r \in DOMAIN db.requests :
        db.requests[r].user = u /\ db.requests[r].status = "pending"}

(* Open requests are cancelled and their cards, never activated, dropped;  *)
(* the open orders that are left are cancelled.                            *)
OpenWorkCancelled_AllCards(db, u) ==
    LET withdrawn == WithoutCards(db, {c \in DOMAIN db.cards : db.cards[c].owner = u})
        pending == PendingRequests(db, u)
    IN  [withdrawn EXCEPT
           !.requests = [r \in DOMAIN @ |->
               IF r \in pending THEN [@[r] EXCEPT !.status = "cancelled"] ELSE @[r]],
           !.orders = [o \in DOMAIN @ |->
               IF @[o].user = u /\ @[o].status = "pending"
               THEN [@[o] EXCEPT !.status = "cancelled"] ELSE @[o]]]

OpenWorkCancelled_NoOrders(db, u) ==
    LET pending == PendingRequests(db, u)
        withdrawn == WithoutCards(db, {db.requests[r].card : r \in pending})
    IN  [withdrawn EXCEPT
           !.requests = [r \in DOMAIN @ |->
               IF r \in pending THEN [@[r] EXCEPT !.status = "cancelled"] ELSE @[r]]]

OpenWorkCancelled(db, u) ==
    LET pending == PendingRequests(db, u)
        withdrawn == WithoutCards(db, {db.requests[r].card : r \in pending})
    IN  [withdrawn EXCEPT
           !.requests = [r \in DOMAIN @ |->
               IF r \in pending THEN [@[r] EXCEPT !.status = "cancelled"] ELSE @[r]],
           !.orders = [o \in DOMAIN @ |->
               IF @[o].user = u /\ @[o].status = "pending"
               THEN [@[o] EXCEPT !.status = "cancelled"] ELSE @[o]]]

(* Every foreign key to users, discovered from the catalog *)
Reassigned_NotRequests(db, from, to) ==
    [db EXCEPT
       !.cards = [c \in DOMAIN @ |->
                    IF @[c].owner = from THEN [@[c] EXCEPT !.owner = to] ELSE @[c]],
       !.orders = [o \in DOMAIN @ |->
                    IF @[o].user = from THEN [@[o] EXCEPT !.user = to] ELSE @[o]]]

Reassigned(db, from, to) ==
    [db EXCEPT
       !.cards = [c \in DOMAIN @ |->
                    IF @[c].owner = from THEN [@[c] EXCEPT !.owner = to] ELSE @[c]],
       !.requests = [r \in DOMAIN @ |->
                    IF @[r].user = from THEN [@[r] EXCEPT !.user = to] ELSE @[r]],
       !.orders = [o \in DOMAIN @ |->
                    IF @[o].user = from THEN [@[o] EXCEPT !.user = to] ELSE @[o]]]

(* DELETE FROM users: what still refers to the row goes with it (CASCADE)  *)
WithoutUser(db, u) ==
    LET kept == WithoutCards(db, {c \in DOMAIN db.cards : db.cards[c].owner = u})
    IN  [kept EXCEPT
           !.requests = Restrict(@, {r \in DOMAIN @ : @[r].user # u}),
           !.orders = Restrict(@, {o \in DOMAIN @ : @[o].user # u})]

Become(db) ==
    /\ cards' = db.cards /\ log' = db.log /\ requests' = db.requests
    /\ orders' = db.orders /\ meals' = db.meals
    /\ UNCHANGED <<lastCard, lastOrder>>

-----------------------------------------------------------------------------

AdminDeleteUser(u, p) ==
    /\ Life!DeleteUser(u, p)
    /\ Become(WithoutUser(Reassigned(OpenWorkCancelled(Tables, u), u, p), u))
    /\ matroos' = matroos \ {u}

(* The unique index on open requests refuses the reassignment *)
MergeConflict_Never(source, target) == FALSE

MergeConflict(source, target) ==
    \E k \in Kinds : HasPending(source, k) /\ HasPending(target, k)

AdminMergeLocalUserIntoGoogle(source, target) ==
    /\ Life!MergeUsers(source, target)
    /\ ~MergeConflict(source, target)
    /\ Become(WithoutUser(Reassigned(Tables, source, target), source))
    /\ matroos' = IF source \in matroos THEN (matroos \ {source}) \cup {target} ELSE matroos

(* Requests and orders come from members with a session, which may be      *)
(* deactivated by the time the request runs; a sale at the kraam names any *)
(* row; the row with the placeholder's name gets no flag.                  *)
CardStep == NextOnRows \/ NextOfMembers(People, Existing, Life!Editable)

AccountStep ==
    \/ \E u \in Members, kind \in {"local", "google", "reserved"} : Life!CreateUser(u, kind)
    \/ \E u \in Members : Life!LinkGoogle(u)
    \/ \E u \in Members, value \in BOOLEAN : Life!AdminSetUserDisabled(u, value)

MembersInit == Init /\ Life!LifeInit /\ matroos = {}

MembersNext ==
    \/ CardStep /\ UNCHANGED <<life, disabled>>
    \/ AccountStep /\ UNCHANGED vars
    \/ \E u, p \in Members : AdminDeleteUser(u, p)
    \/ \E source, target \in Members : AdminMergeLocalUserIntoGoogle(source, target)

MembersSpec == MembersInit /\ [][MembersNext]_allVars

-----------------------------------------------------------------------------
(* What holds of the tables and the accounts together *)

(* No row is lost sight of: everything belongs to an account that exists,  *)
(* and open work to one that somebody can still act on, never to the       *)
(* placeholder that a deletion made, whatever was deleted or merged        *)
(* (reassignUserReferences).                                               *)
OwnersExist ==
    /\ matroos \subseteq Life!Editable
    /\ \A c \in DOMAIN cards : cards[c].owner \in Existing
    /\ \A r \in DOMAIN requests :
          requests[r].user \in IF requests[r].status = "pending" THEN People ELSE Existing
    /\ \A o \in DOMAIN orders :
          orders[o].user \in IF orders[o].status = "pending" THEN People ELSE Existing

(* Omzet and statistics do not change when accounts come, merge or go: an  *)
(* active card keeps its kind, source and logboek, a granted sale its kind *)
(* and card, a delivered order its quantity and card (README.md, Rollen),  *)
(* and all of a member's history stays with the member or passes to one    *)
(* heir (reassignUserReferences).                                          *)
Inherits(u, p) ==
    /\ \A c \in DOMAIN cards :
          cards[c].owner = u /\ ~AwaitsVerification(c) => cards'[c].owner = p
    /\ \A r \in DOMAIN requests :
          requests[r].user = u /\ requests[r].status = "fulfilled" => requests'[r].user = p
    /\ \A o \in DOMAIN orders :
          orders[o].user = u /\ orders[o].status = "delivered" => orders'[o].user = p

HistoryKept ==
    [][/\ \A c \in DOMAIN cards : ~AwaitsVerification(c) =>
             /\ c \in DOMAIN cards'
             /\ ~AwaitsVerification(c)'
             /\ cards'[c] = [cards[c] EXCEPT !.knip = cards'[c].knip, !.owner = cards'[c].owner]
             /\ life' # life => log'[c] = log[c] /\ cards'[c].knip = cards[c].knip
       /\ \A r \in DOMAIN requests : requests[r].status = "fulfilled" =>
             /\ r \in DOMAIN requests'
             /\ requests'[r] = [requests[r] EXCEPT !.user = requests'[r].user]
       /\ \A o \in DOMAIN orders : orders[o].status = "delivered" =>
             /\ o \in DOMAIN orders'
             /\ orders'[o] = [orders[o] EXCEPT !.user = orders'[o].user]
       /\ \A u \in Existing :
             IF u \in Existing' THEN Inherits(u, u) ELSE \E p \in Existing' : Inherits(u, p)
      ]_allVars
=============================================================================
