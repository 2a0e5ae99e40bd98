---------------------------- MODULE MembersProofs ----------------------------
(***************************************************************************)
(* Proofs about Members, for every number of accounts: what CardStore      *)
(* promises survives linking, merging and deleting accounts, every row     *)
(* keeps an owner, and history stays what it is.                           *)
(*                                                                         *)
(* The operators of users_lifecycle.go work on the tables as one record.   *)
(* One lemma per operator says what it does to the rows (PassedOn), and    *)
(* which parts of the first invariant, stated for such a record, it keeps. *)
(***************************************************************************)
EXTENDS Members, SalesProofs

(* The parts of the invariant, of the tables as a record *)
IsTables(db) == DOMAIN db = {"cards", "log", "requests", "orders", "meals"}

TypedTables(db) ==
    /\ IsTables(db)
    /\ DOMAIN db.cards \subseteq 1..lastCard
    /\ db.cards \in [DOMAIN db.cards -> Card]
    /\ db.log \in [DOMAIN db.cards -> Seq(Line)]
    /\ db.requests \in Seq(Request)
    /\ DOMAIN db.orders \subseteq 1..lastOrder
    /\ db.orders \in [DOMAIN db.orders -> Order]
    /\ db.meals \subseteq (DOMAIN db.cards) \X Days

ChainedTables(db) == \A c \in DOMAIN db.cards : Chained(db.log[c], db.cards[c].knip)

OwnedTables(db, people, existing) ==
    /\ \A c \in DOMAIN db.cards : db.cards[c].owner \in existing
    /\ \A r \in DOMAIN db.requests :
          /\ db.requests[r].user \in existing
          /\ db.requests[r].status = "pending" => db.requests[r].user \in people
    /\ \A o \in DOMAIN db.orders :
          /\ db.orders[o].user \in existing
          /\ db.orders[o].status = "pending" => db.orders[o].user \in people

-----------------------------------------------------------------------------
(* DELETE FROM cards *)

(* The rows that stay are the old ones, but for the cards of requests *)
LEMMA WithoutCardsRows ==
    ASSUME NEW db, TypedTables(db), NEW C
    PROVE  LET new == WithoutCards(db, C)
           IN  /\ DOMAIN new.cards = DOMAIN db.cards \ C
               /\ \A c \in DOMAIN new.cards :
                     new.cards[c] = db.cards[c] /\ new.log[c] = db.log[c]
               /\ DOMAIN new.requests = DOMAIN db.requests
               /\ \A r \in DOMAIN db.requests :
                     /\ new.requests[r] \in Request
                     /\ new.requests[r].user = db.requests[r].user
                     /\ new.requests[r].kind = db.requests[r].kind
                     /\ new.requests[r].status = db.requests[r].status
                     /\ new.requests[r].card =
                           IF db.requests[r].card \in C THEN Null ELSE db.requests[r].card
               /\ DOMAIN new.orders = {o \in DOMAIN db.orders : db.orders[o].card \notin C}
               /\ \A o \in DOMAIN new.orders : new.orders[o] = db.orders[o]
               /\ new.meals = {m \in db.meals : m[1] \notin C}
<1>. DEFINE new == WithoutCards(db, C)
            E == DOMAIN db.cards \ C
            F == {o \in DOMAIN db.orders : db.orders[o].card \notin C}
<1>1. DOMAIN db.log = DOMAIN db.cards /\ E \subseteq DOMAIN db.cards
  BY DEF TypedTables
<1>2. new.cards = Restrict(db.cards, E) /\ new.log = Restrict(db.log, E)
  BY <1>1 DEF WithoutCards
<1>3. new.orders = Restrict(db.orders, F) /\ new.meals = {m \in db.meals : m[1] \notin C}
  BY DEF WithoutCards
<1>4. new.requests = [r \in DOMAIN db.requests |->
                        [db.requests[r] EXCEPT !.card = IF @ \in C THEN Null ELSE @]]
  BY DEF WithoutCards
<1>. HIDE DEF new
<1>5. /\ DOMAIN new.cards = E
      /\ \A c \in E : new.cards[c] = db.cards[c] /\ new.log[c] = db.log[c]
  BY <1>2 DEF Restrict
<1>6. DOMAIN new.orders = F /\ \A o \in F : new.orders[o] = db.orders[o]
  BY <1>3 DEF Restrict
<1>7. ASSUME NEW r \in DOMAIN db.requests
      PROVE  /\ new.requests[r] \in Request
             /\ new.requests[r].user = db.requests[r].user
             /\ new.requests[r].kind = db.requests[r].kind
             /\ new.requests[r].status = db.requests[r].status
             /\ new.requests[r].card =
                   IF db.requests[r].card \in C THEN Null ELSE db.requests[r].card
  <2>. DEFINE cd == IF db.requests[r].card \in C THEN Null ELSE db.requests[r].card
  <2>1. db.requests[r] \in Request
    BY LenProperties, ElementOfSeq DEF TypedTables
  <2>2. cd \in Nat
    BY <2>1 DEF Request, Null
  <2>3. new.requests[r] = [db.requests[r] EXCEPT !.card = cd]
    BY <1>4
  <2>4. cd = IF db.requests[r].card \in C THEN Null ELSE db.requests[r].card
    OBVIOUS
  <2>. HIDE DEF cd
  <2>5. /\ new.requests[r] \in Request
        /\ new.requests[r].user = db.requests[r].user
        /\ new.requests[r].kind = db.requests[r].kind
        /\ new.requests[r].status = db.requests[r].status
        /\ new.requests[r].card = cd
    BY <2>1, <2>2, <2>3 DEF Request
  <2>. QED BY <2>4, <2>5
<1>8. DOMAIN new.requests = DOMAIN db.requests
  BY <1>4
<1>. QED BY <1>1, <1>3, <1>5, <1>6, <1>7, <1>8 DEF new

LEMMA WithoutCardsKeeps ==
    ASSUME NEW db, TypedTables(db), NEW C, NEW people, NEW existing
    PROVE  LET new == WithoutCards(db, C)
           IN  /\ TypedTables(new)
               /\ ChainedTables(db) => ChainedTables(new)
               /\ OwnedTables(db, people, existing) => OwnedTables(new, people, existing)
<1>. DEFINE new == WithoutCards(db, C)
<1>1. /\ DOMAIN new.cards \subseteq DOMAIN db.cards
      /\ \A c \in DOMAIN new.cards : new.cards[c] = db.cards[c] /\ new.log[c] = db.log[c]
      /\ DOMAIN new.requests = DOMAIN db.requests
      /\ \A r \in DOMAIN db.requests :
            /\ new.requests[r] \in Request
            /\ new.requests[r].user = db.requests[r].user
            /\ new.requests[r].status = db.requests[r].status
      /\ DOMAIN new.orders \subseteq DOMAIN db.orders
      /\ \A o \in DOMAIN new.orders : new.orders[o] = db.orders[o]
  BY WithoutCardsRows
<1>2. ChainedTables(db) => ChainedTables(new)
  <2>. HIDE DEF new
  <2>. QED BY <1>1 DEF ChainedTables
<1>3. OwnedTables(db, people, existing) => OwnedTables(new, people, existing)
  <2>. HIDE DEF new
  <2>. QED BY <1>1 DEF OwnedTables
<1>4. TypedTables(new)
  <2>. DEFINE E == DOMAIN db.cards \ C
              F == {o \in DOMAIN db.orders : db.orders[o].card \notin C}
  <2>1. /\ new.cards = Restrict(db.cards, E) /\ new.log = Restrict(db.log, E)
        /\ E \subseteq DOMAIN db.cards
    BY DEF WithoutCards, TypedTables
  <2>2. new.orders = Restrict(db.orders, F) /\ F \subseteq DOMAIN db.orders
    BY DEF WithoutCards
  <2>3. IsTables(new) /\ new.meals = {m \in db.meals : m[1] \notin C}
    BY DEF WithoutCards, IsTables
  <2>4. new.requests = [r \in DOMAIN db.requests |-> new.requests[r]]
    BY DEF WithoutCards
  <2>0. /\ db.cards \in [DOMAIN db.cards -> Card]
        /\ db.log \in [DOMAIN db.cards -> Seq(Line)]
        /\ db.orders \in [DOMAIN db.orders -> Order]
    BY DEF TypedTables
  <2>. HIDE DEF new, F
  <2>5. new.cards \in [E -> Card] /\ DOMAIN new.cards = E
    BY <2>1, <2>0 DEF Restrict
  <2>6. new.log \in [E -> Seq(Line)]
    BY <2>1, <2>0 DEF Restrict
  <2>7. new.orders \in [F -> Order] /\ DOMAIN new.orders = F
    BY <2>2, <2>0 DEF Restrict
  <2>8. new.requests \in Seq(Request)
    <3>1. Len(db.requests) \in Nat /\ DOMAIN db.requests = 1..Len(db.requests)
      BY LenProperties DEF TypedTables
    <3>2. new.requests \in [1..Len(db.requests) -> Request]
      BY <1>1, <2>4, <3>1
    <3>. QED BY <3>1, <3>2, FunctionIsSeq
  <2>9. new.meals \subseteq E \X Days
    BY <2>3 DEF TypedTables
  <2>10. E \subseteq 1..lastCard /\ F \subseteq 1..lastOrder
    BY DEF TypedTables, F
  <2>. HIDE DEF E, F
  <2>. QED BY <2>3, <2>5, <2>6, <2>7, <2>8, <2>9, <2>10 DEF TypedTables
<1>. QED BY <1>2, <1>3, <1>4
-----------------------------------------------------------------------------
(* Cancelling what is open *)

(* The rows of requests and orders that an UPDATE leaves well formed *)
LEMMA UpdatedTables ==
    ASSUME NEW db, TypedTables(db),
           NEW cs, DOMAIN cs = DOMAIN db.cards, cs \in [DOMAIN cs -> Card],
           NEW rs, DOMAIN rs = DOMAIN db.requests, rs \in [DOMAIN rs -> Request],
           NEW os, DOMAIN os = DOMAIN db.orders, os \in [DOMAIN os -> Order],
           NEW new, IsTables(new),
           new.cards = cs, new.log = db.log, new.requests = rs,
           new.orders = os, new.meals = db.meals
    PROVE  TypedTables(new)
<1>1. Len(db.requests) \in Nat /\ DOMAIN db.requests = 1..Len(db.requests)
  BY LenProperties DEF TypedTables
<1>2. rs \in Seq(Request)
  BY <1>1, FunctionIsSeq
<1>. QED BY <1>2 DEF TypedTables

LEMMA CancelledKeeps ==
    ASSUME NEW db, TypedTables(db), NEW u, NEW people, NEW existing
    PROVE  LET new == OpenWorkCancelled(db, u)
           IN  /\ TypedTables(new)
               /\ ChainedTables(db) => ChainedTables(new)
               /\ OwnedTables(db, people, existing) =>
                     OwnedTables(new, people \ {u}, existing)
<1>. DEFINE new == OpenWorkCancelled(db, u)
            pending == PendingRequests(db, u)
            w == WithoutCards(db, {db.requests[r].card : r \in pending})
            Req(r) == IF r \in pending THEN [w.requests[r] EXCEPT !.status = "cancelled"]
                                       ELSE w.requests[r]
            Ord(o) == IF w.orders[o].user = u /\ w.orders[o].status = "pending"
                      THEN [w.orders[o] EXCEPT !.status = "cancelled"] ELSE w.orders[o]
            rs == [r \in DOMAIN w.requests |-> Req(r)]
            os == [o \in DOMAIN w.orders |-> Ord(o)]
<1>1. /\ TypedTables(w)
      /\ ChainedTables(db) => ChainedTables(w)
      /\ OwnedTables(db, people, existing) => OwnedTables(w, people, existing)
  BY WithoutCardsKeeps
<1>2. /\ DOMAIN w.requests = DOMAIN db.requests
      /\ \A r \in DOMAIN db.requests :
            /\ w.requests[r].user = db.requests[r].user
            /\ w.requests[r].status = db.requests[r].status
  BY WithoutCardsRows
<1>3. new = [w EXCEPT !.requests = rs, !.orders = os]
  BY DEF OpenWorkCancelled
<1>4. pending = {r \in DOMAIN db.requests :
                    db.requests[r].user = u /\ db.requests[r].status = "pending"}
  BY DEF PendingRequests
<1>. HIDE DEF w, new, pending
<1>5. /\ IsTables(new)
      /\ new.cards = w.cards /\ new.log = w.log /\ new.meals = w.meals
      /\ new.requests = rs /\ new.orders = os
  <2>. HIDE DEF rs, os
  <2>1. IsTables(w)
    BY <1>1 DEF TypedTables
  <2>. QED BY <1>3, <2>1 DEF IsTables
<1>6. ASSUME NEW r \in DOMAIN w.requests
      PROVE  /\ Req(r) \in Request
             /\ Req(r).user = w.requests[r].user
             /\ Req(r).status = "pending" =>
                   w.requests[r].status = "pending" /\ w.requests[r].user # u
  <2>1. w.requests[r] \in Request
    BY <1>1, LenProperties, ElementOfSeq DEF TypedTables
  <2>2. CASE r \in pending
    BY <2>1, <2>2 DEF Request
  <2>3. CASE r \notin pending
    BY <1>2, <1>4, <2>1, <2>3
  <2>. QED BY <2>2, <2>3
<1>7. ASSUME NEW o \in DOMAIN w.orders
      PROVE  /\ Ord(o) \in Order
             /\ Ord(o).user = w.orders[o].user
             /\ Ord(o).status = "pending" =>
                   w.orders[o].status = "pending" /\ w.orders[o].user # u
  <2>1. w.orders[o] \in Order
    BY <1>1 DEF TypedTables
  <2>2. CASE w.orders[o].user = u /\ w.orders[o].status = "pending"
    BY <2>1, <2>2 DEF Order
  <2>3. CASE ~(w.orders[o].user = u /\ w.orders[o].status = "pending")
    BY <2>1, <2>3
  <2>. QED BY <2>2, <2>3
<1>. HIDE DEF Req, Ord
<1>8. /\ DOMAIN rs = DOMAIN w.requests /\ rs \in [DOMAIN rs -> Request]
      /\ DOMAIN os = DOMAIN w.orders /\ os \in [DOMAIN os -> Order]
  BY <1>6, <1>7
<1>9. /\ \A r \in DOMAIN rs : rs[r] = Req(r)
      /\ \A o \in DOMAIN os : os[o] = Ord(o)
  OBVIOUS
<1>. HIDE DEF rs, os
<1>10. TypedTables(new)
  <2>1. w.cards \in [DOMAIN w.cards -> Card]
    BY <1>1 DEF TypedTables
  <2>. QED BY <1>1, <1>5, <1>8, <2>1, UpdatedTables
<1>11. ChainedTables(w) => ChainedTables(new)
  BY <1>5 DEF ChainedTables
<1>12. OwnedTables(w, people, existing) => OwnedTables(new, people \ {u}, existing)
  BY <1>5, <1>6, <1>7, <1>8, <1>9 DEF OwnedTables
<1>. QED BY <1>1, <1>10, <1>11, <1>12 DEF new

-----------------------------------------------------------------------------
(* reassignUserReferences *)

LEMMA ReassignedKeeps ==
    ASSUME NEW db, TypedTables(db), NEW from, NEW to \in Members, from # to,
           NEW people, NEW existing, from \in people => to \in people
    PROVE  LET new == Reassigned(db, from, to)
           IN  /\ TypedTables(new)
               /\ \A r \in DOMAIN new.requests : new.requests[r].user # from
               /\ ChainedTables(db) => ChainedTables(new)
               /\ OwnedTables(db, people, existing) =>
                     OwnedTables(new, people \ {from}, (existing \ {from}) \cup {to})
<1>. DEFINE new == Reassigned(db, from, to)
            Crd(c) == IF db.cards[c].owner = from
                      THEN [db.cards[c] EXCEPT !.owner = to] ELSE db.cards[c]
            Req(r) == IF db.requests[r].user = from
                      THEN [db.requests[r] EXCEPT !.user = to] ELSE db.requests[r]
            Ord(o) == IF db.orders[o].user = from
                      THEN [db.orders[o] EXCEPT !.user = to] ELSE db.orders[o]
            cs == [c \in DOMAIN db.cards |-> Crd(c)]
            rs == [r \in DOMAIN db.requests |-> Req(r)]
            os == [o \in DOMAIN db.orders |-> Ord(o)]
            Moved(u) == IF u = from THEN to ELSE u
<1>1. new = [db EXCEPT !.cards = cs, !.requests = rs, !.orders = os]
  BY DEF Reassigned
<1>. HIDE DEF new
<1>2. /\ IsTables(new)
      /\ new.cards = cs /\ new.log = db.log /\ new.meals = db.meals
      /\ new.requests = rs /\ new.orders = os
  <2>. HIDE DEF cs, rs, os
  <2>1. IsTables(db)
    BY DEF TypedTables
  <2>. QED BY <1>1, <2>1 DEF IsTables
<1>3. ASSUME NEW c \in DOMAIN db.cards
      PROVE  /\ Crd(c) \in Card
             /\ Crd(c).owner = Moved(db.cards[c].owner)
             /\ Crd(c).knip = db.cards[c].knip
  <2>1. db.cards[c] \in Card
    BY DEF TypedTables
  <2>2. CASE db.cards[c].owner = from
    BY <2>1, <2>2 DEF Card
  <2>3. CASE db.cards[c].owner # from
    BY <2>1, <2>3
  <2>. QED BY <2>2, <2>3
<1>4. ASSUME NEW r \in DOMAIN db.requests
      PROVE  /\ Req(r) \in Request
             /\ Req(r).user = Moved(db.requests[r].user)
             /\ Req(r).status = db.requests[r].status
  <2>1. db.requests[r] \in Request
    BY LenProperties, ElementOfSeq DEF TypedTables
  <2>2. CASE db.requests[r].user = from
    BY <2>1, <2>2 DEF Request
  <2>3. CASE db.requests[r].user # from
    BY <2>1, <2>3
  <2>. QED BY <2>2, <2>3
<1>5. ASSUME NEW o \in DOMAIN db.orders
      PROVE  /\ Ord(o) \in Order
             /\ Ord(o).user = Moved(db.orders[o].user)
             /\ Ord(o).status = db.orders[o].status
  <2>1. db.orders[o] \in Order
    BY DEF TypedTables
  <2>2. CASE db.orders[o].user = from
    BY <2>1, <2>2 DEF Order
  <2>3. CASE db.orders[o].user # from
    BY <2>1, <2>3
  <2>. QED BY <2>2, <2>3
<1>. HIDE DEF Crd, Req, Ord
<1>6. /\ DOMAIN cs = DOMAIN db.cards /\ cs \in [DOMAIN cs -> Card]
      /\ DOMAIN rs = DOMAIN db.requests /\ rs \in [DOMAIN rs -> Request]
      /\ DOMAIN os = DOMAIN db.orders /\ os \in [DOMAIN os -> Order]
  BY <1>3, <1>4, <1>5
<1>7. /\ \A c \in DOMAIN cs : cs[c] = Crd(c)
      /\ \A r \in DOMAIN rs : rs[r] = Req(r)
      /\ \A o \in DOMAIN os : os[o] = Ord(o)
  OBVIOUS
<1>. HIDE DEF cs, rs, os
<1>8. TypedTables(new)
  BY <1>2, <1>6, UpdatedTables
<1>9. \A r \in DOMAIN new.requests : new.requests[r].user # from
  BY <1>2, <1>4, <1>6, <1>7
<1>10. ChainedTables(db) => ChainedTables(new)
  BY <1>2, <1>3, <1>6, <1>7 DEF ChainedTables
<1>11. OwnedTables(db, people, existing) =>
          OwnedTables(new, people \ {from}, (existing \ {from}) \cup {to})
  BY <1>2, <1>3, <1>4, <1>5, <1>6, <1>7 DEF OwnedTables
<1>. QED BY <1>8, <1>9, <1>10, <1>11 DEF new

-----------------------------------------------------------------------------
(* DELETE FROM users, when no request refers to the row any more *)

LEMMA WithoutUserKeeps ==
    ASSUME NEW db, TypedTables(db), NEW u, NEW people, NEW existing,
           \A r \in DOMAIN db.requests : db.requests[r].user # u
    PROVE  LET new == WithoutUser(db, u)
           IN  /\ TypedTables(new)
               /\ ChainedTables(db) => ChainedTables(new)
               /\ OwnedTables(db, people, existing) => OwnedTables(new, people, existing)
<1>. DEFINE new == WithoutUser(db, u)
            w == WithoutCards(db, {c \in DOMAIN db.cards : db.cards[c].owner = u})
            E == {r \in DOMAIN w.requests : w.requests[r].user # u}
            F == {o \in DOMAIN w.orders : w.orders[o].user # u}
            rs == Restrict(w.requests, E)
            os == Restrict(w.orders, F)
<1>1. /\ TypedTables(w)
      /\ ChainedTables(db) => ChainedTables(w)
      /\ OwnedTables(db, people, existing) => OwnedTables(w, people, existing)
  BY WithoutCardsKeeps
<1>2. /\ DOMAIN w.requests = DOMAIN db.requests
      /\ \A r \in DOMAIN db.requests :
            w.requests[r] \in Request /\ w.requests[r].user = db.requests[r].user
  BY WithoutCardsRows
<1>3. new = [w EXCEPT !.requests = rs, !.orders = os]
  BY DEF WithoutUser
<1>. HIDE DEF w, new
<1>4. /\ IsTables(new)
      /\ new.cards = w.cards /\ new.log = w.log /\ new.meals = w.meals
      /\ new.requests = rs /\ new.orders = os
  <2>. HIDE DEF rs, os
  <2>1. IsTables(w)
    BY <1>1 DEF TypedTables
  <2>. QED BY <1>3, <2>1 DEF IsTables
<1>5. E = DOMAIN db.requests
  BY <1>2
<1>6. DOMAIN rs = DOMAIN db.requests /\ \A r \in DOMAIN rs : rs[r] = w.requests[r]
  BY <1>5 DEF Restrict
<1>7. rs \in Seq(Request)
  <2>1. Len(db.requests) \in Nat /\ DOMAIN db.requests = 1..Len(db.requests)
    BY LenProperties DEF TypedTables
  <2>2. rs = [r \in DOMAIN db.requests |-> w.requests[r]]
    BY <1>5 DEF Restrict
  <2>3. rs \in [1..Len(db.requests) -> Request]
    BY <1>2, <2>1, <2>2
  <2>. QED BY <2>1, <2>3, FunctionIsSeq
<1>8. /\ DOMAIN os = F /\ F \subseteq DOMAIN w.orders
      /\ \A o \in F : os[o] = w.orders[o]
      /\ os \in [F -> Order]
  <2>1. w.orders \in [DOMAIN w.orders -> Order]
    BY <1>1 DEF TypedTables
  <2>. QED BY <2>1 DEF Restrict
<1>. HIDE DEF rs, os, E, F
<1>9. TypedTables(new)
  BY <1>1, <1>4, <1>7, <1>8 DEF TypedTables
<1>10. ChainedTables(w) => ChainedTables(new)
  BY <1>4 DEF ChainedTables
<1>11. OwnedTables(w, people, existing) => OwnedTables(new, people, existing)
  BY <1>2, <1>4, <1>6, <1>8 DEF OwnedTables
<1>. QED BY <1>1, <1>9, <1>10, <1>11 DEF new
-----------------------------------------------------------------------------
(* Accounts *)

LifeTyped == life \in [Members -> Life!Lives] /\ disabled \subseteq Members

LEMMA PeopleExist ==
    /\ Life!Editable \subseteq People
    /\ People \subseteq Existing
    /\ Existing \subseteq Members
BY DEF People, Existing, Life!People, Life!Existing, Life!Editable, Life!System, Life!Is

LEMMA LifeSame ==
    UNCHANGED <<life, disabled>> =>
        /\ People' = People
        /\ Existing' = Existing
        /\ Life!Editable' = Life!Editable
BY DEF People, Existing, Life!People, Life!Existing, Life!Editable, Life!System, Life!Is

(* Accounts only become more, and those that may be changed stay so *)
LEMMA LifeStep ==
    ASSUME LifeTyped, AccountStep
    PROVE  /\ LifeTyped'
           /\ Life!Editable \subseteq Life!Editable'
           /\ People \subseteq People'
           /\ Existing \subseteq Existing'
<1>1. CASE \E u \in Members, kind \in {"local", "google", "reserved"} : Life!CreateUser(u, kind)
  BY <1>1 DEF LifeTyped, Life!Lives, Life!CreateUser, People, Existing, Life!People, Life!Existing,
     Life!Editable, Life!System, Life!Is
<1>2. CASE \E u \in Members : Life!LinkGoogle(u)
  BY <1>2 DEF LifeTyped, Life!Lives, Life!LinkGoogle, People, Existing, Life!People, Life!Existing,
     Life!Editable, Life!System, Life!Is
<1>3. CASE \E u \in Members, value \in BOOLEAN : Life!AdminSetUserDisabled(u, value)
  <2>1. PICK u \in Members, value \in BOOLEAN : Life!AdminSetUserDisabled(u, value)
    BY <1>3
  <2>2. life' = life /\ disabled' \subseteq disabled \cup {u}
    BY <2>1 DEF Life!AdminSetUserDisabled
  <2>. QED BY <2>2 DEF LifeTyped, People, Existing, Life!People, Life!Existing,
     Life!Editable, Life!System, Life!Is
<1>. QED BY <1>1, <1>2, <1>3 DEF AccountStep

LEMMA DeletePlaces ==
    ASSUME LifeTyped, NEW u \in Members, NEW p \in Members, Life!DeleteUser(u, p)
    PROVE  /\ LifeTyped' /\ u # p /\ u \in People
           /\ Life!Editable' = Life!Editable \ {u}
           /\ People' = People \ {u}
           /\ Existing' = (Existing \ {u}) \cup {p}
<1>1. /\ life[u] \in {"local", "google"}
      /\ life[p] \in {"none", "placeholder", "reserved"}
      /\ life' = [life EXCEPT ![u] = "gone",
                              ![p] = IF Life!System = {} THEN "placeholder" ELSE @]
      /\ disabled' = (disabled \ {u}) \cup IF Life!System = {} THEN {p} ELSE {}
      /\ IF Life!System = {} THEN life[p] = "none" ELSE life[p] \in {"placeholder", "reserved"}
  BY DEF Life!DeleteUser, Life!IsHeir, Life!System, Life!Editable, Life!Is
<1>2. u # p
  BY <1>1
<1>3. LifeTyped'
  BY <1>1 DEF LifeTyped, Life!Lives
<1>4. /\ life' \in [Members -> Life!Lives]
      /\ life'[u] = "gone"
      /\ life'[p] = IF Life!System = {} THEN "placeholder" ELSE life[p]
      /\ \A v \in Members : v # u /\ v # p => life'[v] = life[v]
  BY <1>1, <1>2, <1>3 DEF LifeTyped
<1>5. /\ life'[p] \in {"placeholder", "reserved"}
      /\ life'[p] = "reserved" <=> life[p] = "reserved"
  BY <1>1, <1>4
<1>. QED BY <1>1, <1>2, <1>3, <1>4, <1>5 DEF People, Existing, Life!People, Life!Existing,
     Life!Editable, Life!System, Life!Is

LEMMA MergePlaces ==
    ASSUME LifeTyped, NEW s \in Members, NEW t \in Members, Life!MergeUsers(s, t)
    PROVE  /\ LifeTyped' /\ s # t /\ t \in People
           /\ Life!Editable' = Life!Editable \ {s} /\ t \in Life!Editable'
           /\ People' = People \ {s}
           /\ Existing' = (Existing \ {s}) \cup {t}
<1>1. /\ life[s] = "local" /\ life[t] = "google"
      /\ life' = [life EXCEPT ![s] = "gone"]
      /\ disabled' = disabled \ {s}
  BY DEF Life!MergeUsers
<1>2. s # t
  BY <1>1
<1>3. LifeTyped'
  BY <1>1 DEF LifeTyped, Life!Lives
<1>4. life'[s] = "gone" /\ \A v \in Members : v # s => life'[v] = life[v]
  BY <1>1 DEF LifeTyped
<1>. QED BY <1>1, <1>2, <1>3, <1>4 DEF People, Existing, Life!People, Life!Existing,
     Life!Editable, Life!System, Life!Is

-----------------------------------------------------------------------------
(* The tables as variables and as a record *)

LEMMA TablesHold ==
    /\ TypeOK => TypedTables(Tables)
    /\ LedgerChain <=> ChainedTables(Tables)
    /\ OwnersExist <=> matroos \subseteq Life!Editable /\ OwnedTables(Tables, People, Existing)
<1>1. /\ IsTables(Tables)
      /\ Tables.cards = cards /\ Tables.log = log /\ Tables.requests = requests
      /\ Tables.orders = orders /\ Tables.meals = meals
  BY DEF Tables, IsTables
<1>. HIDE DEF Tables
<1>2. TypeOK => TypedTables(Tables)
  BY <1>1 DEF TypeOK, TypedTables
<1>3. LedgerChain <=> ChainedTables(Tables)
  BY <1>1 DEF LedgerChain, ChainedTables
<1>4. OwnersExist <=> matroos \subseteq Life!Editable /\ OwnedTables(Tables, People, Existing)
  BY <1>1, PeopleExist DEF OwnersExist, OwnedTables
<1>. QED BY <1>2, <1>3, <1>4

LEMMA BecomeHolds ==
    ASSUME TypeOK, NEW db, TypedTables(db), ChainedTables(db), Become(db),
           OwnedTables(db, People', Existing'),
           matroos' \subseteq Life!Editable'
    PROVE  TypeOK' /\ LedgerChain' /\ OwnersExist'
<1>1. /\ cards' = db.cards /\ log' = db.log /\ requests' = db.requests
      /\ orders' = db.orders /\ meals' = db.meals
      /\ lastCard' = lastCard /\ lastOrder' = lastOrder
  BY DEF Become
<1>2. /\ People' \subseteq Existing' /\ Existing' \subseteq Members
      /\ Life!Editable' \subseteq Members
  BY DEF People, Existing, Life!People, Life!Existing, Life!Editable, Life!System, Life!Is
<1>3. TypeOK'
  BY <1>1, <1>2 DEF TypeOK, TypedTables
<1>4. LedgerChain'
  BY <1>1 DEF LedgerChain, ChainedTables
<1>5. OwnersExist'
  BY <1>1, <1>2 DEF OwnersExist, OwnedTables
<1>. QED BY <1>3, <1>4, <1>5
-----------------------------------------------------------------------------
(* Owners and the steps of CardStore *)

(* No row passes to somebody else and nothing is opened again *)
CardsKept ==
    /\ DOMAIN cards' \subseteq DOMAIN cards
    /\ \A c \in DOMAIN cards' : cards'[c].owner = cards[c].owner

RequestsKept ==
    /\ DOMAIN requests' \subseteq DOMAIN requests
    /\ \A r \in DOMAIN requests' :
          /\ requests'[r].user = requests[r].user
          /\ requests'[r].status = "pending" => requests[r].status = "pending"

OrdersKept ==
    /\ DOMAIN orders' \subseteq DOMAIN orders
    /\ \A o \in DOMAIN orders' :
          /\ orders'[o].user = orders[o].user
          /\ orders'[o].status = "pending" => orders[o].status = "pending"

LEMMA KeptOwners ==
    ASSUME OwnersExist, matroos' \subseteq Life!Editable', UNCHANGED <<life, disabled>>,
           CardsKept, RequestsKept, OrdersKept
    PROVE  OwnersExist'
<1>1. People' = People /\ Existing' = Existing
  BY LifeSame
<1>. QED BY <1>1, PeopleExist DEF OwnersExist, CardsKept, RequestsKept, OrdersKept

LEMMA IssueCardOwners ==
    ASSUME TypeOK, OwnersExist, UNCHANGED <<life, disabled>>,
           NEW k \in Kinds, NEW source \in Sources, NEW status \in {"pending", "fulfilled"},
           NEW u \in Existing, status = "pending" => u \in People,
           IssueCard(u, k, source, status)
    PROVE  OwnersExist'
<1>. DEFINE c == lastCard + 1
            row == [owner |-> u, kind |-> k, source |-> source, knip |-> Knipjes]
            req == [user |-> u, kind |-> k, card |-> c, status |-> status]
            n == Len(requests)
<1>1. /\ cards' = With(cards, c, row) /\ requests' = Append(requests, req)
      /\ UNCHANGED <<matroos, orders>>
  BY DEF IssueCard
<1>2. People' = People /\ Existing' = Existing /\ Life!Editable' = Life!Editable
  BY LifeSame
<1>3. /\ DOMAIN cards' = DOMAIN cards \cup {c} /\ cards'[c].owner = u
      /\ \A d \in DOMAIN cards : d # c => cards'[d] = cards[d]
  BY <1>1 DEF With
<1>4. req.user = u /\ req.status = status
  OBVIOUS
<1>5. requests \in Seq(Request) /\ req \in Request
  <2>1. c \in Nat /\ u \in Members
    BY PeopleExist DEF TypeOK
  <2>. QED BY <2>1 DEF TypeOK, Request
<1>. HIDE DEF req
<1>6. /\ n \in Nat /\ DOMAIN requests = 1..n /\ DOMAIN requests' = 1..(n + 1)
      /\ \A r \in 1..n : requests'[r] = requests[r]
      /\ requests'[n + 1] = req
  BY <1>1, <1>5, AppendedLine
<1>7. \A d \in DOMAIN cards' : cards'[d].owner \in Existing
  BY <1>3 DEF OwnersExist
<1>8. \A r \in DOMAIN requests' :
         requests'[r].user \in IF requests'[r].status = "pending" THEN People ELSE Existing
  <2>. SUFFICES ASSUME NEW r \in 1..(n + 1)
                PROVE  requests'[r].user \in
                          IF requests'[r].status = "pending" THEN People ELSE Existing
    BY <1>6
  <2>1. CASE r \in 1..n
    BY <1>6, <2>1 DEF OwnersExist
  <2>2. CASE r = n + 1
    BY <1>4, <1>6, <2>2
  <2>. QED BY <1>6, <2>1, <2>2
<1>. QED BY <1>1, <1>2, <1>7, <1>8 DEF OwnersExist

LEMMA CreateTostiOrderOwners ==
    ASSUME TypeOK, OwnersExist, UNCHANGED <<life, disabled>>,
           NEW u \in People, NEW c \in DOMAIN cards \cup {Null}, NEW q \in 1..Knipjes,
           CreateTostiOrder(u, c, q)
    PROVE  OwnersExist'
<1>. DEFINE o == lastOrder + 1
<1>1. /\ orders' = With(orders, o, [user |-> u, card |-> c, qty |-> q, status |-> "pending"])
      /\ UNCHANGED <<matroos, cards, requests>>
  BY DEF CreateTostiOrder, InsertTostiOrder
<1>2. People' = People /\ Existing' = Existing /\ Life!Editable' = Life!Editable
  BY LifeSame
<1>3. /\ DOMAIN orders' = DOMAIN orders \cup {o} /\ orders'[o].user = u
      /\ \A p \in DOMAIN orders : p # o => orders'[p] = orders[p]
  BY <1>1 DEF With
<1>. HIDE DEF o
<1>. QED BY <1>1, <1>2, <1>3, PeopleExist DEF OwnersExist

(* A withdrawn request leaves every owner and every pending row where it was *)
LEMMA WithdrawOwners ==
    ASSUME TypeOK, NEW r \in DOMAIN requests, WithdrawRequest(r)
    PROVE  CardsKept /\ RequestsKept /\ OrdersKept /\ matroos' = matroos
<1>. DEFINE c == requests[r].card
            Row(i) == [requests[i] EXCEPT
                         !.status = IF i = r THEN "cancelled" ELSE @,
                         !.card = IF @ = c THEN Null ELSE @]
<1>1. /\ requests' = [i \in DOMAIN requests |-> Row(i)]
      /\ cards' = Restrict(cards, DOMAIN cards \ {c})
      /\ orders' = Restrict(orders, {o \in DOMAIN orders : orders[o].card # c})
      /\ matroos' = matroos
  BY DEF WithdrawRequest
<1>2. ASSUME NEW i \in DOMAIN requests
      PROVE  Row(i).user = requests[i].user
             /\ (Row(i).status = "pending" => requests[i].status = "pending")
  <2>. DEFINE st == IF i = r THEN "cancelled" ELSE requests[i].status
              cd == IF requests[i].card = c THEN Null ELSE requests[i].card
  <2>1. requests[i] \in Request
    BY LenProperties, ElementOfSeq DEF TypeOK
  <2>2. Row(i) = [requests[i] EXCEPT !.status = st, !.card = cd]
    OBVIOUS
  <2>3. st = "pending" => requests[i].status = "pending"
    OBVIOUS
  <2>. HIDE DEF st, cd, Row
  <2>. QED BY <2>1, <2>2, <2>3 DEF Request
<1>. HIDE DEF Row, c
<1>3. RequestsKept
  BY <1>1, <1>2 DEF RequestsKept
<1>4. CardsKept
  BY <1>1 DEF CardsKept, Restrict
<1>5. OrdersKept
  BY <1>1 DEF OrdersKept, Restrict
<1>. QED BY <1>1, <1>3, <1>4, <1>5

(* A new status other than pending, with or without another card *)
LEMMA OrderStatusOwners ==
    ASSUME TypeOK, NEW o \in DOMAIN orders, NEW status, status # "pending", NEW c,
           \/ orders' = [orders EXCEPT ![o].status = status]
           \/ orders' = [orders EXCEPT ![o].status = status, ![o].card = c]
    PROVE  OrdersKept
<1>1. \A p \in DOMAIN orders : orders[p] \in Order
  BY DEF TypeOK
<1>2. ASSUME orders' = [orders EXCEPT ![o].status = status]
      PROVE  OrdersKept
  BY <1>1, <1>2 DEF OrdersKept, Order
<1>3. ASSUME orders' = [orders EXCEPT ![o].status = status, ![o].card = c]
      PROVE  OrdersKept
  BY <1>1, <1>3 DEF OrdersKept, Order
<1>. QED BY <1>2, <1>3

(* The row operations whose row names no new member leave every owner in place *)
LEMMA RowStepOwners ==
    ASSUME TypeOK, OwnersExist, NextOnRows, UNCHANGED <<life, disabled>>
    PROVE  OwnersExist'
<1>. DEFINE Kept == CardsKept /\ RequestsKept /\ OrdersKept /\ matroos' = matroos
<1>1. ASSUME Kept PROVE OwnersExist'
  <2>1. matroos' \subseteq Life!Editable'
    BY <1>1, LifeSame DEF OwnersExist
  <2>. QED BY <1>1, <2>1, KeptOwners
<1>2. UNCHANGED cards => CardsKept
  BY DEF CardsKept
<1>3. UNCHANGED requests => RequestsKept
  BY DEF RequestsKept
<1>4. UNCHANGED orders => OrdersKept
  BY DEF OrdersKept
<1>5. ASSUME NEW c \in DOMAIN cards, NEW line \in Line, Book(c, line)
      PROVE  CardsKept
  <2>. DEFINE balance == line.balance
  <2>1. cards' = [cards EXCEPT ![c].knip = balance]
    BY <1>5 DEF Book
  <2>. HIDE DEF balance
  <2>2. \A d \in DOMAIN cards : cards[d] \in Card
    BY DEF TypeOK
  <2>. QED BY <2>1, <2>2 DEF CardsKept, Card
<1>. HIDE DEF Kept
<1>6. CASE \E r \in DOMAIN requests : FulfillCardRequest(r)
  <2>1. PICK r \in DOMAIN requests : FulfillCardRequest(r)
    BY <1>6
  <2>2. \A s \in DOMAIN requests : requests[s] \in Request
    BY LenProperties, ElementOfSeq DEF TypeOK
  <2>3. /\ requests' = [requests EXCEPT ![r].status = "fulfilled"]
        /\ UNCHANGED <<matroos, cards, orders>>
    BY <2>1 DEF FulfillCardRequest
  <2>4. RequestsKept
    BY <2>2, <2>3 DEF RequestsKept, Request
  <2>. QED BY <1>1, <1>2, <1>4, <2>3, <2>4 DEF Kept
<1>7. CASE \E r \in DOMAIN requests : AdminRejectCardRequest(r)
  BY <1>1, <1>7, WithdrawOwners DEF Kept, AdminRejectCardRequest
<1>8. CASE \E c \in DOMAIN cards : UseKnipje(c)
  <2>1. PICK c \in DOMAIN cards : UseKnipje(c)
    BY <1>8
  <2>2. CardsKept
    BY <1>5, <2>1, UseKnipjeLine DEF UseKnipje
  <2>3. UNCHANGED <<matroos, requests, orders>>
    BY <2>1 DEF UseKnipje
  <2>. QED BY <1>1, <1>3, <1>4, <2>2, <2>3 DEF Kept
<1>9. CASE \E c \in DOMAIN cards, value \in 0..Knipjes : SetPhysicalCardEstimate(c, value)
  <2>1. PICK c \in DOMAIN cards, value \in 0..Knipjes : SetPhysicalCardEstimate(c, value)
    BY <1>9
  <2>2. CardsKept
    BY <1>5, <2>1, EstimateLine DEF SetPhysicalCardEstimate
  <2>3. UNCHANGED <<matroos, requests, orders>>
    BY <2>1 DEF SetPhysicalCardEstimate
  <2>. QED BY <1>1, <1>3, <1>4, <2>2, <2>3 DEF Kept
<1>10. CASE \E day \in Days, S \in SUBSET DOMAIN cards : RegisterAvondetenMealsForDate(day, S)
  <2>1. PICK day \in Days, S \in SUBSET DOMAIN cards : RegisterAvondetenMealsForDate(day, S)
    BY <1>10
  <2>2. cards' = [c \in DOMAIN cards |->
                    IF c \in S THEN [cards[c] EXCEPT !.knip = @ - 1] ELSE cards[c]]
    BY <2>1 DEF RegisterAvondetenMealsForDate
  <2>3. \A c \in DOMAIN cards : [cards[c] EXCEPT !.knip = @ - 1].owner = cards[c].owner
    BY DEF TypeOK, Card
  <2>4. CardsKept
    BY <2>2, <2>3 DEF CardsKept
  <2>5. UNCHANGED <<matroos, requests, orders>>
    BY <2>1 DEF RegisterAvondetenMealsForDate
  <2>. QED BY <1>1, <1>3, <1>4, <2>4, <2>5 DEF Kept
<1>11. CASE \E c \in DOMAIN cards : \E i \in DOMAIN log[c] : UndoCardTransaction(c, i)
  <2>1. PICK c \in DOMAIN cards : \E i \in DOMAIN log[c] : UndoCardTransaction(c, i)
    BY <1>11
  <2>2. PICK i \in DOMAIN log[c] : UndoCardTransaction(c, i)
    BY <2>1
  <2>3. /\ cards' = [cards EXCEPT ![c].knip = UndoBalance(c, i)]
        /\ UNCHANGED <<matroos, requests, orders>>
    BY <2>2 DEF UndoCardTransaction
  <2>4. \A d \in DOMAIN cards : cards[d] \in Card
    BY DEF TypeOK
  <2>5. CardsKept
    BY <2>3, <2>4 DEF CardsKept, Card
  <2>. QED BY <1>1, <1>3, <1>4, <2>3, <2>5 DEF Kept
<1>12. CASE \E o \in DOMAIN orders : CancelTostiOrder(o)
  <2>1. PICK o \in DOMAIN orders : CancelTostiOrder(o)
    BY <1>12
  <2>2. OrdersKept /\ UNCHANGED <<matroos, cards, requests>>
    BY <2>1, OrderStatusOwners DEF CancelTostiOrder
  <2>. QED BY <1>1, <1>2, <1>3, <2>2 DEF Kept
<1>13. CASE \E o \in DOMAIN orders : DeliverTostiOrder(o)
  <2>1. PICK o \in DOMAIN orders : DeliverTostiOrder(o)
    BY <1>13
  <2>2. CASE \E c \in DOMAIN cards : DeliverFromCard(o, c)
    <3>1. PICK c \in DOMAIN cards : DeliverFromCard(o, c)
      BY <2>2
    <3>2. CardsKept
      BY <1>5, <3>1, DeliveryLine
    <3>3. OrdersKept /\ UNCHANGED <<matroos, requests>>
      BY <3>1, OrderStatusOwners DEF DeliverFromCard, MarkDelivered
    <3>. QED BY <1>1, <1>3, <3>2, <3>3 DEF Kept
  <2>3. CASE /\ MarkDelivered(o, Null)
             /\ UNCHANGED <<matroos, cards, lastCard, log, requests, lastOrder, meals>>
    <3>1. OrdersKept
      BY <2>3, OrderStatusOwners DEF MarkDelivered
    <3>. QED BY <1>1, <1>2, <1>3, <2>3, <3>1 DEF Kept
  <2>. QED BY <2>1, <2>2, <2>3, DeliveryCases
<1>. QED BY <1>6, <1>7, <1>8, <1>9, <1>10, <1>11, <1>12, <1>13 DEF NextOnRows

LEMMA MemberStepOwners ==
    ASSUME TypeOK, OwnersExist, NextOfMembers(People, Existing, Life!Editable),
           UNCHANGED <<life, disabled>>
    PROVE  OwnersExist'
<1>1. CASE \E u \in People, k \in Kinds : CreateCardRequest(u, k)
  BY <1>1, PeopleExist, IssueCardOwners DEF CreateCardRequest, Sources
<1>2. CASE \E u \in Existing, k \in Kinds : CreatePhysicalCardSale(u, k)
  BY <1>2, IssueCardOwners DEF CreatePhysicalCardSale, Sources
<1>3. CASE \E r \in DOMAIN requests, u \in People : CancelCardRequestForUser(r, u)
  <2>1. PICK r \in DOMAIN requests : WithdrawRequest(r)
    BY <1>3 DEF CancelCardRequestForUser
  <2>2. CardsKept /\ RequestsKept /\ OrdersKept /\ matroos' = matroos
    BY <2>1, WithdrawOwners
  <2>3. matroos' \subseteq Life!Editable'
    BY <2>2, LifeSame DEF OwnersExist
  <2>. QED BY <2>2, <2>3, KeptOwners
<1>4. CASE \E u \in People, c \in DOMAIN cards \cup {Null}, q \in 1..Knipjes :
              CreateTostiOrder(u, c, q)
  BY <1>4, CreateTostiOrderOwners
<1>5. CASE \E u \in Life!Editable, value \in BOOLEAN : AdminSetMatroosJeugd(u, value)
  BY <1>5 DEF AdminSetMatroosJeugd, OwnersExist, People, Existing, Life!People,
     Life!Existing, Life!Editable, Life!System, Life!Is
<1>. QED BY <1>1, <1>2, <1>3, <1>4, <1>5 DEF NextOfMembers

LEMMA CardStepIsNext == CardStep => Next
BY PeopleExist DEF CardStep, Next, NextOfMembers

-----------------------------------------------------------------------------
(* The invariant *)

MembersInv == LifeTyped /\ TypeOK /\ LedgerChain /\ OwnersExist

LEMMA DeleteStep ==
    ASSUME MembersInv, NEW u \in Members, NEW p \in Members, AdminDeleteUser(u, p)
    PROVE  MembersInv'
<1>. DEFINE cancelled == OpenWorkCancelled(Tables, u)
            moved == Reassigned(cancelled, u, p)
            left == WithoutUser(moved, u)
            others == People \ {u}
            places == (Existing \ {u}) \cup {p}
<1>1. /\ TypedTables(Tables) /\ ChainedTables(Tables)
      /\ OwnedTables(Tables, People, Existing) /\ matroos \subseteq Life!Editable
  BY TablesHold DEF MembersInv
<1>2. /\ LifeTyped' /\ u # p /\ u \in People
      /\ Life!Editable' = Life!Editable \ {u}
      /\ People' = others /\ Existing' = places
  BY DeletePlaces DEF MembersInv, AdminDeleteUser
<1>3. Become(left) /\ matroos' = matroos \ {u}
  BY DEF AdminDeleteUser
<1>4. /\ TypedTables(cancelled) /\ ChainedTables(cancelled)
      /\ OwnedTables(cancelled, others, Existing)
  BY <1>1, CancelledKeeps
<1>. HIDE DEF cancelled
<1>5. others \ {u} = others /\ u \notin others
  OBVIOUS
<1>6. /\ TypedTables(moved) /\ ChainedTables(moved)
      /\ \A r \in DOMAIN moved.requests : moved.requests[r].user # u
      /\ OwnedTables(moved, others \ {u}, places)
  <2>. HIDE DEF others
  <2>. QED BY <1>2, <1>4, <1>5, ReassignedKeeps
<1>. HIDE DEF moved
<1>7. /\ TypedTables(left) /\ ChainedTables(left)
      /\ OwnedTables(left, others, places)
  BY <1>5, <1>6, WithoutUserKeeps
<1>. HIDE DEF left
<1>8. matroos' \subseteq Life!Editable'
  BY <1>1, <1>2, <1>3
<1>. QED BY <1>2, <1>3, <1>7, <1>8, BecomeHolds DEF MembersInv

LEMMA MergeStep ==
    ASSUME MembersInv, NEW s \in Members, NEW t \in Members,
           AdminMergeLocalUserIntoGoogle(s, t)
    PROVE  MembersInv'
<1>. DEFINE moved == Reassigned(Tables, s, t)
            left == WithoutUser(moved, s)
            others == People \ {s}
            places == (Existing \ {s}) \cup {t}
<1>1. /\ TypedTables(Tables) /\ ChainedTables(Tables)
      /\ OwnedTables(Tables, People, Existing) /\ matroos \subseteq Life!Editable
  BY TablesHold DEF MembersInv
<1>2. /\ LifeTyped' /\ s # t /\ t \in People
      /\ Life!Editable' = Life!Editable \ {s} /\ t \in Life!Editable'
      /\ People' = others /\ Existing' = places
  BY MergePlaces DEF MembersInv, AdminMergeLocalUserIntoGoogle
<1>3. /\ Become(left)
      /\ matroos' = IF s \in matroos THEN (matroos \ {s}) \cup {t} ELSE matroos
  BY DEF AdminMergeLocalUserIntoGoogle
<1>4. /\ TypedTables(moved) /\ ChainedTables(moved)
      /\ \A r \in DOMAIN moved.requests : moved.requests[r].user # s
      /\ OwnedTables(moved, others, places)
  BY <1>1, <1>2, ReassignedKeeps
<1>. HIDE DEF moved
<1>5. /\ TypedTables(left) /\ ChainedTables(left)
      /\ OwnedTables(left, others, places)
  BY <1>4, WithoutUserKeeps
<1>. HIDE DEF left
<1>6. matroos' \subseteq Life!Editable'
  BY <1>1, <1>2, <1>3
<1>. QED BY <1>2, <1>3, <1>5, <1>6, BecomeHolds DEF MembersInv

LEMMA MembersStep == MembersInv /\ [MembersNext]_allVars => MembersInv'
<1>. SUFFICES ASSUME MembersInv, [MembersNext]_allVars PROVE MembersInv'
  OBVIOUS
<1>1. CASE CardStep /\ UNCHANGED <<life, disabled>>
  <2>1. TypeOK' /\ LedgerChain'
    BY <1>1, CardStepIsNext, TypeStep, LedgerStep DEF MembersInv
  <2>2. OwnersExist'
    BY <1>1, RowStepOwners, MemberStepOwners DEF CardStep, MembersInv
  <2>3. LifeTyped'
    BY <1>1 DEF MembersInv, LifeTyped
  <2>. QED BY <2>1, <2>2, <2>3 DEF MembersInv
<1>2. CASE AccountStep /\ UNCHANGED vars
  <2>1. /\ LifeTyped' /\ Life!Editable \subseteq Life!Editable'
        /\ People \subseteq People' /\ Existing \subseteq Existing'
    BY <1>2, LifeStep DEF MembersInv
  <2>2. TypeOK' /\ LedgerChain'
    BY <1>2, TypeStep, LedgerStep DEF MembersInv
  <2>3. OwnersExist'
    BY <1>2, <2>1 DEF MembersInv, OwnersExist, vars
  <2>. QED BY <2>1, <2>2, <2>3 DEF MembersInv
<1>3. CASE \E u, p \in Members : AdminDeleteUser(u, p)
  BY <1>3, DeleteStep
<1>4. CASE \E s, t \in Members : AdminMergeLocalUserIntoGoogle(s, t)
  BY <1>4, MergeStep
<1>5. CASE UNCHANGED allVars
  <2>1. TypeOK' /\ LedgerChain'
    BY <1>5, TypeStep, LedgerStep DEF MembersInv, allVars
  <2>2. LifeTyped'
    BY <1>5 DEF MembersInv, LifeTyped, allVars
  <2>3. OwnersExist'
    BY <1>5, LifeSame DEF MembersInv, OwnersExist, allVars, vars
  <2>. QED BY <2>1, <2>2, <2>3 DEF MembersInv
<1>. QED BY <1>1, <1>2, <1>3, <1>4, <1>5 DEF MembersNext

LEMMA MembersStart == MembersInit => MembersInv
<1>. SUFFICES ASSUME MembersInit PROVE MembersInv
  OBVIOUS
<1>1. TypeOK
  BY InitType DEF MembersInit
<1>2. LedgerChain /\ OwnersExist
  BY DEF MembersInit, Init, LedgerChain, OwnersExist
<1>3. LifeTyped
  BY DEF MembersInit, Life!LifeInit, LifeTyped, Life!Lives
<1>. QED BY <1>1, <1>2, <1>3 DEF MembersInv

(* Whatever accounts are linked, merged or deleted among the operations of *)
(* the knipjes administration: no card, request, order or jeugd flag is    *)
(* ever left with an account that does not exist, and no open request or   *)
(* order with the placeholder, which nobody can act for.                   *)
THEOREM NothingOrphaned == MembersSpec => []OwnersExist
<1>1. MembersInv => OwnersExist
  BY DEF MembersInv
<1>. QED BY <1>1, MembersStart, MembersStep, PTL DEF MembersSpec

(* Merging and deleting accounts leave every card with a logboek that      *)
(* explains its balance, and all tables well formed (users_lifecycle.go    *)
(* moves cards and never touches a balance).                               *)
THEOREM LedgerSurvives == MembersSpec => [](TypeOK /\ LedgerChain)
<1>1. MembersInv => TypeOK /\ LedgerChain
  BY DEF MembersInv
<1>. QED BY <1>1, MembersStart, MembersStep, PTL DEF MembersSpec
-----------------------------------------------------------------------------
(* What becomes of the rows of an account that goes                        *)
(*                                                                         *)
(* Deleting and merging come to the same: requests R are withdrawn with    *)
(* their cards, the rows of one account pass to another, and of what is    *)
(* left nothing changes but that open orders may be cancelled.             *)

Heir(v, from, to) == IF v = from THEN to ELSE v

CardsOf(db, R) == {db.requests[r].card : r \in R}

CardsPassed(db, new, from, to, gone) ==
    /\ DOMAIN new.cards = DOMAIN db.cards \ gone
    /\ \A c \in DOMAIN new.cards :
          /\ new.cards[c].owner = Heir(db.cards[c].owner, from, to)
          /\ new.cards[c].kind = db.cards[c].kind
          /\ new.cards[c].source = db.cards[c].source
          /\ new.cards[c].knip = db.cards[c].knip
          /\ new.log[c] = db.log[c]

RequestsPassed(db, new, from, to, R, gone) ==
    /\ DOMAIN new.requests = DOMAIN db.requests
    /\ \A r \in DOMAIN db.requests :
          /\ new.requests[r].user = Heir(db.requests[r].user, from, to)
          /\ new.requests[r].kind = db.requests[r].kind
          /\ new.requests[r].status = IF r \in R THEN "cancelled" ELSE db.requests[r].status
          /\ new.requests[r].card =
                IF db.requests[r].card \in gone THEN Null ELSE db.requests[r].card

OrdersPassed(db, new, from, to, gone) ==
    /\ DOMAIN new.orders = {o \in DOMAIN db.orders : db.orders[o].card \notin gone}
    /\ \A o \in DOMAIN new.orders :
          /\ new.orders[o].user = Heir(db.orders[o].user, from, to)
          /\ new.orders[o].card = db.orders[o].card
          /\ new.orders[o].qty = db.orders[o].qty
          /\ \/ new.orders[o].status = db.orders[o].status
             \/ db.orders[o].status = "pending" /\ new.orders[o].status = "cancelled"

PassedOn(db, new, from, to, R) ==
    LET gone == CardsOf(db, R)
    IN  /\ CardsPassed(db, new, from, to, gone)
        /\ RequestsPassed(db, new, from, to, R, gone)
        /\ OrdersPassed(db, new, from, to, gone)
        /\ new.meals = {m \in db.meals : m[1] \notin gone}

LEMMA NoCardsOf == \A db : CardsOf(db, {}) = {}
BY DEF CardsOf

(* One statement after the other *)
LEMMA PassedTwice ==
    ASSUME NEW db, NEW mid, NEW new, NEW a, NEW b, NEW c, NEW d, NEW from, NEW to, NEW R,
           PassedOn(db, mid, a, b, R), PassedOn(mid, new, c, d, {}),
           \A v : Heir(Heir(v, a, b), c, d) = Heir(v, from, to)
    PROVE  PassedOn(db, new, from, to, R)
<1>. PICK gone : gone = CardsOf(db, R)
  OBVIOUS
<1>1. /\ CardsPassed(db, mid, a, b, gone) /\ RequestsPassed(db, mid, a, b, R, gone)
      /\ OrdersPassed(db, mid, a, b, gone) /\ mid.meals = {m \in db.meals : m[1] \notin gone}
  BY DEF PassedOn
<1>2. /\ CardsPassed(mid, new, c, d, {}) /\ RequestsPassed(mid, new, c, d, {}, {})
      /\ OrdersPassed(mid, new, c, d, {}) /\ new.meals = {m \in mid.meals : m[1] \notin {}}
  BY NoCardsOf DEF PassedOn
<1>3. CardsPassed(db, new, from, to, gone)
  BY <1>1, <1>2 DEF CardsPassed
<1>4. RequestsPassed(db, new, from, to, R, gone)
  BY <1>1, <1>2 DEF RequestsPassed
<1>5. OrdersPassed(db, new, from, to, gone)
  BY <1>1, <1>2 DEF OrdersPassed
<1>6. new.meals = {m \in db.meals : m[1] \notin gone}
  BY <1>1, <1>2
<1>. QED BY <1>3, <1>4, <1>5, <1>6 DEF PassedOn

LEMMA CancelledPasses ==
    ASSUME NEW db, TypedTables(db), NEW u
    PROVE  PassedOn(db, OpenWorkCancelled(db, u), u, u, PendingRequests(db, u))
<1>. DEFINE new == OpenWorkCancelled(db, u)
            R == PendingRequests(db, u)
            gone == {db.requests[r].card : r \in R}
            w == WithoutCards(db, gone)
            Req(r) == IF r \in R THEN [w.requests[r] EXCEPT !.status = "cancelled"]
                                 ELSE w.requests[r]
            Ord(o) == IF w.orders[o].user = u /\ w.orders[o].status = "pending"
                      THEN [w.orders[o] EXCEPT !.status = "cancelled"] ELSE w.orders[o]
            rs == [r \in DOMAIN w.requests |-> Req(r)]
            os == [o \in DOMAIN w.orders |-> Ord(o)]
<1>0. CardsOf(db, R) = gone
  BY DEF CardsOf
<1>1. new = [w EXCEPT !.requests = rs, !.orders = os]
  BY DEF OpenWorkCancelled
<1>. HIDE DEF R, gone
<1>2. /\ DOMAIN w.cards = DOMAIN db.cards \ gone
      /\ \A c \in DOMAIN w.cards : w.cards[c] = db.cards[c] /\ w.log[c] = db.log[c]
      /\ DOMAIN w.requests = DOMAIN db.requests
      /\ \A r \in DOMAIN db.requests :
            /\ w.requests[r] \in Request
            /\ w.requests[r].user = db.requests[r].user
            /\ w.requests[r].kind = db.requests[r].kind
            /\ w.requests[r].status = db.requests[r].status
            /\ w.requests[r].card =
                  IF db.requests[r].card \in gone THEN Null ELSE db.requests[r].card
      /\ DOMAIN w.orders = {o \in DOMAIN db.orders : db.orders[o].card \notin gone}
      /\ \A o \in DOMAIN w.orders : w.orders[o] = db.orders[o]
      /\ w.meals = {m \in db.meals : m[1] \notin gone}
  BY WithoutCardsRows
<1>3. TypedTables(w)
  BY WithoutCardsKeeps
<1>. HIDE DEF w, new
<1>4. /\ new.cards = w.cards /\ new.log = w.log /\ new.meals = w.meals
      /\ new.requests = rs /\ new.orders = os
  <2>. HIDE DEF rs, os
  <2>. QED BY <1>1, <1>3 DEF TypedTables, IsTables
<1>5. ASSUME NEW r \in DOMAIN db.requests
      PROVE  /\ Req(r).user = db.requests[r].user
             /\ Req(r).kind = db.requests[r].kind
             /\ Req(r).status = IF r \in R THEN "cancelled" ELSE db.requests[r].status
             /\ Req(r).card = IF db.requests[r].card \in gone THEN Null ELSE db.requests[r].card
  <2>. PICK q \in Request : q = w.requests[r]
    BY <1>2
  <2>1. CASE r \in R
    BY <1>2, <2>1 DEF Request
  <2>2. CASE r \notin R
    BY <1>2, <2>2
  <2>. QED BY <2>1, <2>2
<1>6. ASSUME NEW o \in DOMAIN w.orders
      PROVE  /\ Ord(o).user = db.orders[o].user
             /\ Ord(o).card = db.orders[o].card
             /\ Ord(o).qty = db.orders[o].qty
             /\ \/ Ord(o).status = db.orders[o].status
                \/ db.orders[o].status = "pending" /\ Ord(o).status = "cancelled"
  <2>. PICK q \in Order : q = w.orders[o] /\ q = db.orders[o]
    BY <1>2, <1>3 DEF TypedTables
  <2>. QED BY DEF Order
<1>. HIDE DEF Req, Ord
<1>7. /\ DOMAIN rs = DOMAIN db.requests /\ \A r \in DOMAIN db.requests : rs[r] = Req(r)
      /\ DOMAIN os = DOMAIN w.orders /\ \A o \in DOMAIN w.orders : os[o] = Ord(o)
  BY <1>2
<1>. HIDE DEF rs, os
<1>8. CardsPassed(db, new, u, u, gone)
  BY <1>2, <1>4 DEF CardsPassed, Heir
<1>9. RequestsPassed(db, new, u, u, R, gone)
  BY <1>4, <1>5, <1>7 DEF RequestsPassed, Heir
<1>10. OrdersPassed(db, new, u, u, gone)
  BY <1>2, <1>4, <1>6, <1>7 DEF OrdersPassed, Heir
<1>11. PassedOn(db, new, u, u, R)
  BY <1>0, <1>2, <1>4, <1>8, <1>9, <1>10 DEF PassedOn
<1>. QED BY <1>11 DEF new, R

LEMMA ReassignedPasses ==
    ASSUME NEW db, TypedTables(db), NEW from, NEW to \in Members
    PROVE  PassedOn(db, Reassigned(db, from, to), from, to, {})
<1>. DEFINE new == Reassigned(db, from, to)
            Crd(c) == IF db.cards[c].owner = from
                      THEN [db.cards[c] EXCEPT !.owner = to] ELSE db.cards[c]
            Req(r) == IF db.requests[r].user = from
                      THEN [db.requests[r] EXCEPT !.user = to] ELSE db.requests[r]
            Ord(o) == IF db.orders[o].user = from
                      THEN [db.orders[o] EXCEPT !.user = to] ELSE db.orders[o]
            cs == [c \in DOMAIN db.cards |-> Crd(c)]
            rs == [r \in DOMAIN db.requests |-> Req(r)]
            os == [o \in DOMAIN db.orders |-> Ord(o)]
<1>1. new = [db EXCEPT !.cards = cs, !.requests = rs, !.orders = os]
  BY DEF Reassigned
<1>. HIDE DEF new
<1>2. /\ new.cards = cs /\ new.log = db.log /\ new.meals = db.meals
      /\ new.requests = rs /\ new.orders = os
  <2>. HIDE DEF cs, rs, os
  <2>. QED BY <1>1 DEF TypedTables, IsTables
<1>3. ASSUME NEW c \in DOMAIN db.cards
      PROVE  /\ Crd(c).owner = Heir(db.cards[c].owner, from, to)
             /\ Crd(c).kind = db.cards[c].kind
             /\ Crd(c).source = db.cards[c].source
             /\ Crd(c).knip = db.cards[c].knip
  <2>. PICK q \in Card : q = db.cards[c]
    BY DEF TypedTables
  <2>. QED BY DEF Card, Heir
<1>4. ASSUME NEW r \in DOMAIN db.requests
      PROVE  /\ Req(r).user = Heir(db.requests[r].user, from, to)
             /\ Req(r).kind = db.requests[r].kind
             /\ Req(r).status = db.requests[r].status
             /\ Req(r).card = db.requests[r].card
  <2>. PICK q \in Request : q = db.requests[r]
    BY LenProperties, ElementOfSeq DEF TypedTables
  <2>. QED BY DEF Request, Heir
<1>5. ASSUME NEW o \in DOMAIN db.orders
      PROVE  /\ Ord(o).user = Heir(db.orders[o].user, from, to)
             /\ Ord(o).card = db.orders[o].card
             /\ Ord(o).qty = db.orders[o].qty
             /\ Ord(o).status = db.orders[o].status
  <2>. PICK q \in Order : q = db.orders[o]
    BY DEF TypedTables
  <2>. QED BY DEF Order, Heir
<1>. HIDE DEF Crd, Req, Ord
<1>6. /\ DOMAIN cs = DOMAIN db.cards /\ \A c \in DOMAIN db.cards : cs[c] = Crd(c)
      /\ DOMAIN rs = DOMAIN db.requests /\ \A r \in DOMAIN db.requests : rs[r] = Req(r)
      /\ DOMAIN os = DOMAIN db.orders /\ \A o \in DOMAIN db.orders : os[o] = Ord(o)
  OBVIOUS
<1>. HIDE DEF cs, rs, os
<1>7. CardsPassed(db, new, from, to, {})
  BY <1>2, <1>3, <1>6 DEF CardsPassed
<1>8. RequestsPassed(db, new, from, to, {}, {})
  BY <1>2, <1>4, <1>6 DEF RequestsPassed
<1>9. OrdersPassed(db, new, from, to, {})
  BY <1>2, <1>5, <1>6 DEF OrdersPassed
<1>10. PassedOn(db, new, from, to, {})
  BY <1>2, <1>7, <1>8, <1>9, NoCardsOf DEF PassedOn
<1>. QED BY <1>10 DEF new

(* DELETE FROM users finds nothing that refers to the row *)
LEMMA WithoutUserPasses ==
    ASSUME NEW db, TypedTables(db), NEW u,
           \A c \in DOMAIN db.cards : db.cards[c].owner # u,
           \A r \in DOMAIN db.requests : db.requests[r].user # u,
           \A o \in DOMAIN db.orders : db.orders[o].user # u
    PROVE  PassedOn(db, WithoutUser(db, u), u, u, {})
<1>. DEFINE new == WithoutUser(db, u)
            C == {c \in DOMAIN db.cards : db.cards[c].owner = u}
            w == WithoutCards(db, C)
            E == {r \in DOMAIN w.requests : w.requests[r].user # u}
            F == {o \in DOMAIN w.orders : w.orders[o].user # u}
            rs == Restrict(w.requests, E)
            os == Restrict(w.orders, F)
<1>0. C = {}
  OBVIOUS
<1>1. new = [w EXCEPT !.requests = rs, !.orders = os]
  BY DEF WithoutUser
<1>. HIDE DEF C
<1>2. /\ DOMAIN w.cards = DOMAIN db.cards
      /\ \A c \in DOMAIN w.cards : w.cards[c] = db.cards[c] /\ w.log[c] = db.log[c]
      /\ DOMAIN w.requests = DOMAIN db.requests
      /\ \A r \in DOMAIN db.requests :
            /\ w.requests[r].user = db.requests[r].user
            /\ w.requests[r].kind = db.requests[r].kind
            /\ w.requests[r].status = db.requests[r].status
            /\ w.requests[r].card = db.requests[r].card
      /\ DOMAIN w.orders = DOMAIN db.orders
      /\ \A o \in DOMAIN w.orders : w.orders[o] = db.orders[o]
      /\ w.meals = db.meals
  <2>1. /\ DOMAIN w.cards = DOMAIN db.cards \ C
        /\ \A c \in DOMAIN w.cards : w.cards[c] = db.cards[c] /\ w.log[c] = db.log[c]
        /\ DOMAIN w.requests = DOMAIN db.requests
        /\ \A r \in DOMAIN db.requests :
              /\ w.requests[r].user = db.requests[r].user
              /\ w.requests[r].kind = db.requests[r].kind
              /\ w.requests[r].status = db.requests[r].status
              /\ w.requests[r].card =
                    IF db.requests[r].card \in C THEN Null ELSE db.requests[r].card
        /\ DOMAIN w.orders = {o \in DOMAIN db.orders : db.orders[o].card \notin C}
        /\ \A o \in DOMAIN w.orders : w.orders[o] = db.orders[o]
        /\ w.meals = {m \in db.meals : m[1] \notin C}
    BY WithoutCardsRows
  <2>. HIDE DEF w
  <2>. QED BY <1>0, <2>1
<1>3. IsTables(w)
  BY WithoutCardsKeeps DEF TypedTables
<1>. HIDE DEF w, new
<1>4. /\ new.cards = w.cards /\ new.log = w.log /\ new.meals = w.meals
      /\ new.requests = rs /\ new.orders = os
  <2>. HIDE DEF rs, os
  <2>. QED BY <1>1, <1>3 DEF IsTables
<1>5. E = DOMAIN w.requests /\ F = DOMAIN w.orders
  BY <1>2
<1>6. /\ DOMAIN rs = DOMAIN w.requests /\ \A r \in DOMAIN w.requests : rs[r] = w.requests[r]
      /\ DOMAIN os = DOMAIN w.orders /\ \A o \in DOMAIN w.orders : os[o] = w.orders[o]
  BY <1>5 DEF Restrict
<1>. HIDE DEF rs, os
<1>7. CardsPassed(db, new, u, u, {})
  BY <1>2, <1>4 DEF CardsPassed, Heir
<1>8. RequestsPassed(db, new, u, u, {}, {})
  BY <1>2, <1>4, <1>6 DEF RequestsPassed, Heir
<1>9. OrdersPassed(db, new, u, u, {})
  BY <1>2, <1>4, <1>6 DEF OrdersPassed, Heir
<1>10. PassedOn(db, new, u, u, {})
  BY <1>2, <1>4, <1>7, <1>8, <1>9, NoCardsOf DEF PassedOn
<1>. QED BY <1>10 DEF new

(* The two handlers of users_lifecycle.go *)

LEMMA BecomePasses ==
    ASSUME NEW new, Become(new), NEW from, NEW to, NEW R, PassedOn(Tables, new, from, to, R)
    PROVE  PassedOn(Tables, Tables', from, to, R)
<1>1. /\ Tables'.cards = new.cards /\ Tables'.log = new.log
      /\ Tables'.requests = new.requests
      /\ Tables'.orders = new.orders /\ Tables'.meals = new.meals
  BY DEF Become, Tables
<1>. HIDE DEF Tables
<1>. QED BY <1>1 DEF PassedOn, CardsPassed, RequestsPassed, OrdersPassed

LEMMA DeletePasses ==
    ASSUME MembersInv, NEW u \in Members, NEW p \in Members, AdminDeleteUser(u, p)
    PROVE  PassedOn(Tables, Tables', u, p, PendingRequests(Tables, u))
<1>. DEFINE cancelled == OpenWorkCancelled(Tables, u)
            moved == Reassigned(cancelled, u, p)
            left == WithoutUser(moved, u)
            R == PendingRequests(Tables, u)
<1>1. TypedTables(Tables) /\ u # p
  BY TablesHold, DeletePlaces DEF MembersInv, AdminDeleteUser
<1>2. Become(left)
  BY DEF AdminDeleteUser
<1>3. TypedTables(cancelled) /\ PassedOn(Tables, cancelled, u, u, R)
  BY <1>1, CancelledKeeps, CancelledPasses
<1>. HIDE DEF cancelled, R
<1>4. TypedTables(moved) /\ PassedOn(cancelled, moved, u, p, {})
  BY <1>1, <1>3, ReassignedKeeps, ReassignedPasses
<1>. HIDE DEF moved
<1>5. PassedOn(Tables, moved, u, p, R)
  BY <1>3, <1>4, PassedTwice DEF Heir
<1>6. /\ \A c \in DOMAIN moved.cards : moved.cards[c].owner # u
      /\ \A r \in DOMAIN moved.requests : moved.requests[r].user # u
      /\ \A o \in DOMAIN moved.orders : moved.orders[o].user # u
  BY <1>1, <1>5 DEF PassedOn, CardsPassed, RequestsPassed, OrdersPassed, Heir
<1>7. PassedOn(moved, left, u, u, {})
  BY <1>4, <1>6, WithoutUserPasses
<1>. HIDE DEF left
<1>8. PassedOn(Tables, left, u, p, R)
  BY <1>5, <1>7, PassedTwice DEF Heir
<1>. QED BY <1>2, <1>8, BecomePasses DEF R

LEMMA MergePasses ==
    ASSUME MembersInv, NEW s \in Members, NEW t \in Members,
           AdminMergeLocalUserIntoGoogle(s, t)
    PROVE  PassedOn(Tables, Tables', s, t, {})
<1>. DEFINE moved == Reassigned(Tables, s, t)
            left == WithoutUser(moved, s)
<1>1. TypedTables(Tables) /\ s # t
  BY TablesHold, MergePlaces DEF MembersInv, AdminMergeLocalUserIntoGoogle
<1>2. Become(left)
  BY DEF AdminMergeLocalUserIntoGoogle
<1>3. TypedTables(moved) /\ PassedOn(Tables, moved, s, t, {})
  BY <1>1, ReassignedKeeps, ReassignedPasses
<1>. HIDE DEF moved
<1>4. /\ \A c \in DOMAIN moved.cards : moved.cards[c].owner # s
      /\ \A r \in DOMAIN moved.requests : moved.requests[r].user # s
      /\ \A o \in DOMAIN moved.orders : moved.orders[o].user # s
  BY <1>1, <1>3 DEF PassedOn, CardsPassed, RequestsPassed, OrdersPassed, Heir
<1>5. PassedOn(moved, left, s, s, {})
  BY <1>3, <1>4, WithoutUserPasses
<1>. HIDE DEF left
<1>6. PassedOn(Tables, left, s, t, {})
  BY <1>3, <1>5, PassedTwice DEF Heir
<1>. QED BY <1>2, <1>6, BecomePasses

-----------------------------------------------------------------------------
(* What the knipjes administration promises outlives the account           *)

(* The withdrawn requests are open, and of those that stay open no two of  *)
(* one kind come to the same heir.                                         *)
OpenFree(from, to, R) ==
    /\ R \subseteq DOMAIN requests
    /\ \A r \in R : requests[r].status = "pending"
    /\ \A r, s \in DOMAIN requests \ R :
          /\ requests[r].status = "pending" /\ requests[s].status = "pending"
          /\ requests[r].kind = requests[s].kind
          /\ Heir(requests[r].user, from, to) = Heir(requests[s].user, from, to)
          => requests[r].user = requests[s].user

(* The columns of the rows after the step, without the cards that are gone *)
RowsPassed(from, to, R, gone) ==
    /\ \A c : c \in gone <=> \E r \in R : requests[r].card = c
    /\ DOMAIN cards' = DOMAIN cards \ gone
    /\ \A c \in DOMAIN cards' :
          /\ cards'[c].owner = Heir(cards[c].owner, from, to)
          /\ cards'[c].kind = cards[c].kind
          /\ cards'[c].source = cards[c].source
          /\ cards'[c].knip = cards[c].knip
          /\ log'[c] = log[c]
    /\ DOMAIN requests' = DOMAIN requests
    /\ \A r \in DOMAIN requests :
          /\ requests'[r].user = Heir(requests[r].user, from, to)
          /\ requests'[r].kind = requests[r].kind
          /\ requests'[r].status = IF r \in R THEN "cancelled" ELSE requests[r].status
          /\ requests'[r].card = IF requests[r].card \in gone THEN Null ELSE requests[r].card
    /\ DOMAIN orders' = {o \in DOMAIN orders : orders[o].card \notin gone}
    /\ \A o \in DOMAIN orders' :
          /\ orders'[o].user = Heir(orders[o].user, from, to)
          /\ orders'[o].card = orders[o].card
          /\ orders'[o].qty = orders[o].qty
          /\ \/ orders'[o].status = orders[o].status
             \/ orders[o].status = "pending" /\ orders'[o].status = "cancelled"
    /\ meals' = {m \in meals : m[1] \notin gone}

LEMMA PassedRows ==
    ASSUME NEW from, NEW to, NEW R, PassedOn(Tables, Tables', from, to, R)
    PROVE  \E gone : RowsPassed(from, to, R, gone)
<1>1. /\ Tables.cards = cards /\ Tables.log = log /\ Tables.requests = requests
      /\ Tables.orders = orders /\ Tables.meals = meals
      /\ Tables'.cards = cards' /\ Tables'.log = log' /\ Tables'.requests = requests'
      /\ Tables'.orders = orders' /\ Tables'.meals = meals'
  BY DEF Tables
<1>. HIDE DEF Tables
<1>. PICK gone : gone = CardsOf(Tables, R)
  OBVIOUS
<1>2. \A c : c \in gone <=> \E r \in R : requests[r].card = c
  BY <1>1 DEF CardsOf
<1>3. /\ CardsPassed(Tables, Tables', from, to, gone)
      /\ RequestsPassed(Tables, Tables', from, to, R, gone)
      /\ OrdersPassed(Tables, Tables', from, to, gone)
      /\ Tables'.meals = {m \in Tables.meals : m[1] \notin gone}
  BY DEF PassedOn
<1>4. RowsPassed(from, to, R, gone)
  BY <1>1, <1>2, <1>3 DEF CardsPassed, RequestsPassed, OrdersPassed, RowsPassed
<1>. QED BY <1>4

(* A card of a request that is withdrawn is the card of no other request   *)
LEMMA GoneAwaits ==
    ASSUME TypeOK, SalesOK, NEW from, NEW to, NEW R, NEW gone,
           RowsPassed(from, to, R, gone), OpenFree(from, to, R), NEW c \in gone
    PROVE  /\ AwaitsVerification(c) /\ c \in DOMAIN cards
           /\ \A r \in LiveRequests(c) : r \in R
<1>. PICK r \in R : requests[r].card = c
  BY DEF RowsPassed
<1>1. r \in LiveRequests(c) /\ AwaitsVerification(c)
  BY DEF OpenFree, LiveRequests, AwaitsVerification
<1>2. c \in DOMAIN cards
  BY <1>1, AwaitingCard
<1>3. \A s \in LiveRequests(c) : s = r
  BY <1>1, <1>2 DEF SalesOK, CardsMatchRequests
<1>. QED BY <1>1, <1>2, <1>3

LEMMA PassedSales ==
    ASSUME TypeOK, SalesOK, NEW from, NEW to, NEW R, NEW gone,
           RowsPassed(from, to, R, gone), OpenFree(from, to, R)
    PROVE  SalesOK'
<1>1. /\ DOMAIN requests' = DOMAIN requests /\ R \subseteq DOMAIN requests
      /\ \A r \in DOMAIN requests :
            /\ requests'[r].user = Heir(requests[r].user, from, to)
            /\ requests'[r].kind = requests[r].kind
            /\ requests'[r].status = IF r \in R THEN "cancelled" ELSE requests[r].status
            /\ requests'[r].card = IF requests[r].card \in gone THEN Null ELSE requests[r].card
  BY DEF RowsPassed, OpenFree
<1>2. /\ DOMAIN cards' = DOMAIN cards \ gone
      /\ \A c \in DOMAIN cards' :
            /\ cards'[c].owner = Heir(cards[c].owner, from, to)
            /\ cards'[c].kind = cards[c].kind
            /\ cards'[c].source = cards[c].source
            /\ cards'[c].knip = cards[c].knip
            /\ log'[c] = log[c]
  BY DEF RowsPassed
<1>3. /\ DOMAIN orders' = {o \in DOMAIN orders : orders[o].card \notin gone}
      /\ \A o \in DOMAIN orders' :
            /\ orders'[o].user = Heir(orders[o].user, from, to)
            /\ orders'[o].card = orders[o].card
            /\ \/ orders'[o].status = orders[o].status
               \/ orders[o].status = "pending" /\ orders'[o].status = "cancelled"
  BY DEF RowsPassed
<1>4. \A r \in R : requests[r].card \in gone
  BY DEF RowsPassed
<1>5. Null \notin DOMAIN cards /\ Null \notin gone
  BY AwaitingCard, GoneAwaits
<1>6. ASSUME NEW c \in DOMAIN cards'
      PROVE  /\ LiveRequests(c)' = LiveRequests(c)
             /\ AwaitsVerification(c)' => AwaitsVerification(c)
  <2>1. c \in DOMAIN cards /\ c \notin gone /\ c # Null
    BY <1>2, <1>5, <1>6
  <2>2. \A r \in DOMAIN requests :
           /\ requests'[r].card = c <=> requests[r].card = c
           /\ requests[r].card = c => requests'[r].status = requests[r].status
    BY <1>1, <1>4, <2>1
  <2>. QED BY <1>1, <2>2 DEF LiveRequests, AwaitsVerification
<1>7. CardsMatchRequests'
  <2>1. ASSUME NEW c \in DOMAIN cards'
        PROVE  \E r \in LiveRequests(c)' : /\ requests'[r].user = cards'[c].owner
                                           /\ requests'[r].kind = cards'[c].kind
                                           /\ LiveRequests(c)' = {r}
    <3>1. PICK r \in LiveRequests(c) : /\ requests[r].user = cards[c].owner
                                       /\ requests[r].kind = cards[c].kind
                                       /\ LiveRequests(c) = {r}
      BY <1>2, <2>1 DEF SalesOK, CardsMatchRequests
    <3>2. r \in DOMAIN requests
      BY DEF LiveRequests
    <3>. QED BY <1>1, <1>2, <1>6, <2>1, <3>1, <3>2
  <2>2. ASSUME NEW r \in DOMAIN requests'
        PROVE  IF requests'[r].status = "cancelled" THEN requests'[r].card = Null
               ELSE requests'[r].card \in DOMAIN cards'
    <3>1. CASE requests[r].status = "cancelled"
      BY <1>1, <2>2, <3>1 DEF SalesOK, CardsMatchRequests
    <3>2. CASE r \in R
      BY <1>1, <1>4, <2>2, <3>2
    <3>3. CASE requests[r].status # "cancelled" /\ r \notin R
      <4>1. requests[r].card \in DOMAIN cards
        BY <1>1, <2>2, <3>3 DEF SalesOK, CardsMatchRequests
      <4>2. r \in LiveRequests(requests[r].card)
        BY <1>1, <2>2, <3>3 DEF LiveRequests
      <4>3. requests[r].card \notin gone
        BY <3>3, <4>2, GoneAwaits
      <4>. QED BY <1>1, <1>2, <2>2, <3>3, <4>1, <4>3
    <3>. QED BY <3>1, <3>2, <3>3
  <2>. QED BY <2>1, <2>2 DEF CardsMatchRequests
<1>8. OnePendingPerKind'
  <2>1. \A r, s \in DOMAIN requests \ R :
          /\ requests[r].status = "pending" /\ requests[s].status = "pending"
          /\ requests[r].kind = requests[s].kind
          /\ Heir(requests[r].user, from, to) = Heir(requests[s].user, from, to)
          => requests[r].user = requests[s].user
    BY DEF OpenFree
  <2>2. \A r, s \in DOMAIN requests :
          /\ requests[r].status = "pending" /\ requests[s].status = "pending"
          /\ requests[r].user = requests[s].user /\ requests[r].kind = requests[s].kind
          => r = s
    BY DEF SalesOK, OnePendingPerKind
  <2>3. \A r \in DOMAIN requests' :
           requests'[r].status = "pending" => r \in DOMAIN requests \ R /\ requests[r].status = "pending"
    BY <1>1
  <2>. QED BY <1>1, <2>1, <2>2, <2>3 DEF OnePendingPerKind
<1>9. InactiveUntouched'
  <2>. SUFFICES ASSUME NEW c \in DOMAIN cards', AwaitsVerification(c)'
                PROVE  /\ cards'[c].source = "online"
                       /\ cards'[c].knip = Knipjes
                       /\ log'[c] = <<Issued>>
                       /\ \A o \in DOMAIN orders' : orders'[o].card = c => orders'[o].status # "delivered"
    BY DEF InactiveUntouched
  <2>1. c \in DOMAIN cards /\ AwaitsVerification(c)
    BY <1>2, <1>6
  <2>2. /\ cards[c].source = "online" /\ cards[c].knip = Knipjes /\ log[c] = <<Issued>>
        /\ \A o \in DOMAIN orders : orders[o].card = c => orders[o].status # "delivered"
    BY <2>1 DEF SalesOK, InactiveUntouched
  <2>. QED BY <1>2, <1>3, <2>2
<1>10. PendingOrdersOnOwnCard'
  <2>. SUFFICES ASSUME NEW o \in DOMAIN orders', orders'[o].status = "pending", orders'[o].card # Null
                PROVE  /\ orders'[o].card \in DOMAIN cards'
                       /\ cards'[orders'[o].card].owner = orders'[o].user
                       /\ cards'[orders'[o].card].kind = "tosti"
                       /\ cards'[orders'[o].card].source = "online"
    BY DEF PendingOrdersOnOwnCard
  <2>1. o \in DOMAIN orders /\ orders[o].status = "pending" /\ orders'[o].card = orders[o].card
    BY <1>3
  <2>2. /\ orders[o].card \in DOMAIN cards
        /\ cards[orders[o].card].owner = orders[o].user
        /\ cards[orders[o].card].kind = "tosti"
        /\ cards[orders[o].card].source = "online"
    BY <2>1 DEF SalesOK, PendingOrdersOnOwnCard
  <2>. QED BY <1>2, <1>3, <2>1, <2>2
<1>11. OrdersHaveCards'
  BY <1>2, <1>3 DEF SalesOK, OrdersHaveCards
<1>. QED BY <1>7, <1>8, <1>9, <1>10, <1>11 DEF SalesOK

(* The logboek of a card that stays is not touched, nor are its meals      *)
LEMMA PassedBooks ==
    ASSUME TypeOK, LogsOK, OnlineOK, NEW from, NEW to, NEW R, NEW gone,
           RowsPassed(from, to, R, gone)
    PROVE  LogsOK' /\ OnlineOK'
<1>1. /\ DOMAIN cards' = DOMAIN cards \ gone
      /\ \A c \in DOMAIN cards' : /\ cards'[c].source = cards[c].source
                                  /\ cards'[c].knip = cards[c].knip
                                  /\ log'[c] = log[c]
      /\ meals' = {m \in meals : m[1] \notin gone}
  BY DEF RowsPassed
<1>2. \A c \in DOMAIN cards' : MealDays(c)' = MealDays(c)
  BY <1>1 DEF MealDays
<1>3. LogsOK'
  BY <1>1, <1>2 DEF LogsOK
<1>4. OnlineOK'
  BY <1>1 DEF OnlineOK
<1>. QED BY <1>3, <1>4

(* No delivered order goes, so what was paid stays paid                    *)
LEMMA PassedPayments ==
    ASSUME TypeOK, SalesOK, PaymentsOK, NEW from, NEW to, NEW R, NEW gone,
           RowsPassed(from, to, R, gone)
    PROVE  PaymentsOK'
<1>1. /\ DOMAIN cards' = DOMAIN cards \ gone
      /\ \A c \in DOMAIN cards' : cards'[c].source = cards[c].source /\ log'[c] = log[c]
      /\ DOMAIN orders' = {o \in DOMAIN orders : orders[o].card \notin gone}
      /\ \A o \in DOMAIN orders' :
            /\ orders'[o].card = orders[o].card /\ orders'[o].qty = orders[o].qty
            /\ \/ orders'[o].status = orders[o].status
               \/ orders[o].status = "pending" /\ orders'[o].status = "cancelled"
  BY DEF RowsPassed
<1>2. ASSUME NEW c \in DOMAIN cards', NEW i \in DOMAIN log'[c], log'[c][i].order # Null
      PROVE  /\ log'[c][i].order \in DOMAIN orders'
             /\ Pays(log[c][i], c, log[c][i].order)'
             /\ \A j \in DOMAIN log'[c] : log'[c][j].order = log'[c][i].order => i = j
  <2>. PICK o : o = log'[c][i].order
    OBVIOUS
  <2>1. c \in DOMAIN cards /\ c \notin gone /\ log'[c] = log[c]
    BY <1>1, <1>2
  <2>2. /\ o \in DOMAIN orders /\ Pays(log[c][i], c, o)
        /\ \A j \in DOMAIN log[c] : log[c][j].order = o => i = j
    BY <1>2, <2>1 DEF PaymentsOK
  <2>3. o \in DOMAIN orders' /\ orders'[o].card = c /\ orders'[o].qty = orders[o].qty
        /\ orders'[o].status = "delivered"
    BY <1>1, <2>1, <2>2 DEF Pays
  <2>4. Pays(log[c][i], c, o)'
    BY <1>1, <2>1, <2>2, <2>3 DEF Pays
  <2>. QED BY <2>1, <2>2, <2>3, <2>4
<1>3. ASSUME NEW o \in DOMAIN orders', orders'[o].status = "delivered", orders'[o].card # Null
      PROVE  \E i \in DOMAIN log'[orders'[o].card] : log'[orders'[o].card][i].order = o
  <2>. PICK c : c = orders[o].card
    OBVIOUS
  <2>1. o \in DOMAIN orders /\ orders[o].status = "delivered" /\ orders'[o].card = c /\ c \notin gone
    BY <1>1, <1>3
  <2>2. \E i \in DOMAIN log[c] : log[c][i].order = o
    BY <1>3, <2>1 DEF PaymentsOK
  <2>3. c \in DOMAIN cards
    BY <1>3, <2>1 DEF SalesOK, OrdersHaveCards
  <2>. QED BY <1>1, <2>1, <2>2, <2>3
<1>. QED BY <1>2, <1>3 DEF PaymentsOK

-----------------------------------------------------------------------------
(* The invariant with the books and the sales                              *)

BooksInv == SalesOK /\ LogsOK /\ OnlineOK /\ PaymentsOK

LEMMA DeleteFree == \A u, p : OpenFree(u, p, PendingRequests(Tables, u))
<1>1. Tables.requests = requests
  BY DEF Tables
<1>. HIDE DEF Tables
<1>. QED BY <1>1 DEF OpenFree, PendingRequests, Heir

LEMMA MergeFree ==
    ASSUME TypeOK, NEW s, NEW t, ~MergeConflict(s, t)
    PROVE  OpenFree(s, t, {})
<1>1. \A r \in DOMAIN requests : requests[r].kind \in Kinds
  BY RequestTypes DEF Request
<1>. QED BY <1>1 DEF OpenFree, MergeConflict, HasPending, Heir

LEMMA PassedInv ==
    ASSUME TypeOK, BooksInv, NEW from, NEW to, NEW R,
           PassedOn(Tables, Tables', from, to, R), OpenFree(from, to, R)
    PROVE  BooksInv'
<1>. PICK gone : RowsPassed(from, to, R, gone)
  BY PassedRows
<1>. QED BY PassedSales, PassedBooks, PassedPayments DEF BooksInv

LEMMA BooksStep == MembersInv /\ BooksInv /\ [MembersNext]_allVars => BooksInv'
<1>. SUFFICES ASSUME MembersInv, BooksInv, [MembersNext]_allVars PROVE BooksInv'
  OBVIOUS
<1>1. ASSUME [Next]_vars PROVE BooksInv'
  <2>1. SalesOK' /\ ClosedStay
    BY <1>1, SalesStep, ClosedStep DEF MembersInv, BooksInv
  <2>2. LogsOK'
    BY <1>1, LogStep DEF MembersInv, BooksInv, LogGood
  <2>3. OnlineOK'
    BY <1>1, OnlineStep DEF MembersInv, BooksInv
  <2>4. PaymentsOK'
    BY <1>1, <2>1, PaymentStep DEF MembersInv, BooksInv
  <2>. QED BY <2>1, <2>2, <2>3, <2>4 DEF BooksInv
<1>2. CASE CardStep /\ UNCHANGED <<life, disabled>>
  BY <1>1, <1>2, CardStepIsNext
<1>3. CASE AccountStep /\ UNCHANGED vars
  BY <1>1, <1>3
<1>4. CASE \E u, p \in Members : AdminDeleteUser(u, p)
  <2>. PICK u \in Members, p \in Members : AdminDeleteUser(u, p)
    BY <1>4
  <2>. QED BY DeletePasses, DeleteFree, PassedInv DEF MembersInv
<1>5. CASE \E s, t \in Members : AdminMergeLocalUserIntoGoogle(s, t)
  <2>. PICK s \in Members, t \in Members : AdminMergeLocalUserIntoGoogle(s, t)
    BY <1>5
  <2>1. OpenFree(s, t, {})
    BY MergeFree DEF MembersInv, AdminMergeLocalUserIntoGoogle
  <2>. QED BY <2>1, MergePasses, PassedInv DEF MembersInv
<1>6. CASE UNCHANGED allVars
  BY <1>1, <1>6 DEF allVars
<1>. QED BY <1>2, <1>3, <1>4, <1>5, <1>6 DEF MembersNext

LEMMA BooksInvariant == MembersSpec => [](MembersInv /\ BooksInv)
<1>1. MembersInit => BooksInv
  BY DEF MembersInit, Init, BooksInv, SalesOK, CardsMatchRequests, OnePendingPerKind,
     InactiveUntouched, PendingOrdersOnOwnCard, OrdersHaveCards, LogsOK, OnlineOK, PaymentsOK
<1>. QED BY <1>1, MembersStart, MembersStep, BooksStep, PTL DEF MembersSpec

(* Whatever accounts are merged and deleted, a card belongs to exactly one *)
(* sale, of its owner and kind, a member never has two open requests of    *)
(* one kind, although a merge puts those of two accounts together, and     *)
(* what is open is untouched and on its owner's own card.                  *)
THEOREM SalesSurvive ==
    MembersSpec => [](/\ CardsMatchRequests /\ OnePendingPerKind
                      /\ InactiveUntouched /\ PendingOrdersOnOwnCard)
<1>1. BooksInv => /\ CardsMatchRequests /\ OnePendingPerKind
                  /\ InactiveUntouched /\ PendingOrdersOnOwnCard
  BY DEF BooksInv, SalesOK
<1>. QED BY <1>1, BooksInvariant, PTL

(* Nor does it change what the logboek says: undo links and meals still    *)
(* match their lines, an online card holds what stands, and a delivered    *)
(* order is paid for by its one line.                                      *)
THEOREM BooksSurvive ==
    MembersSpec => [](UndoLinks /\ MealsMatchLog /\ OnlineBalance /\ OrdersMatchLog)
<1>1. MembersInv /\ BooksInv => UndoLinks /\ MealsMatchLog /\ OnlineBalance /\ OrdersMatchLog
  BY LogsLinked, LogsMatchMeals, LogsBalance, PaymentsMatch DEF MembersInv, BooksInv
<1>. QED BY <1>1, BooksInvariant, PTL

-----------------------------------------------------------------------------
(* History stays: every step passes it on, from one account to its heir or *)
(* from each to itself.                                                    *)

HistoryPasses(from, to) ==
    /\ \A c \in DOMAIN cards : ~AwaitsVerification(c) =>
          /\ c \in DOMAIN cards' /\ AwaitsVerification(c)' = FALSE
          /\ cards'[c].owner = Heir(cards[c].owner, from, to)
          /\ cards'[c].kind = cards[c].kind
          /\ cards'[c].source = cards[c].source
    /\ \A r \in DOMAIN requests : requests[r].status = "fulfilled" =>
          /\ r \in DOMAIN requests'
          /\ requests'[r].user = Heir(requests[r].user, from, to)
          /\ requests'[r].kind = requests[r].kind
          /\ requests'[r].card = requests[r].card
          /\ requests'[r].status = requests[r].status
    /\ \A o \in DOMAIN orders : orders[o].status = "delivered" =>
          /\ o \in DOMAIN orders'
          /\ orders'[o].user = Heir(orders[o].user, from, to)
          /\ orders'[o].card = orders[o].card
          /\ orders'[o].qty = orders[o].qty
          /\ orders'[o].status = orders[o].status
    /\ life' # life => \A c \in DOMAIN cards : ~AwaitsVerification(c) =>
                          log'[c] = log[c] /\ cards'[c].knip = cards[c].knip
    /\ \A u \in Existing : IF u \in Existing' THEN Heir(u, from, to) = u
                           ELSE Heir(u, from, to) \in Existing'

HistoryStep ==
    /\ \A c \in DOMAIN cards : ~AwaitsVerification(c) =>
          /\ c \in DOMAIN cards'
          /\ ~AwaitsVerification(c)'
          /\ cards'[c] = [cards[c] EXCEPT !.knip = cards'[c].knip, !.owner = cards'[c].owner]
          /\ life' # life => log'[c] = log[c] /\ cards'[c].knip = cards[c].knip
    /\ \A r \in DOMAIN requests : requests[r].status = "fulfilled" =>
          /\ r \in DOMAIN requests'
          /\ requests'[r] = [requests[r] EXCEPT !.user = requests'[r].user]
    /\ \A o \in DOMAIN orders : orders[o].status = "delivered" =>
          /\ o \in DOMAIN orders'
          /\ orders'[o] = [orders[o] EXCEPT !.user = orders'[o].user]
    /\ \A u \in Existing :
          IF u \in Existing' THEN Inherits(u, u) ELSE \E p \in Existing' : Inherits(u, p)

LEMMA HistoryHolds ==
    ASSUME TypeOK, TypeOK', NEW from, NEW to, HistoryPasses(from, to)
    PROVE  HistoryStep
<1>1. ASSUME NEW c \in DOMAIN cards, ~AwaitsVerification(c)
      PROVE  /\ c \in DOMAIN cards'
             /\ ~AwaitsVerification(c)'
             /\ cards'[c] = [cards[c] EXCEPT !.knip = cards'[c].knip, !.owner = cards'[c].owner]
             /\ life' # life => log'[c] = log[c] /\ cards'[c].knip = cards[c].knip
  <2>1. /\ c \in DOMAIN cards' /\ AwaitsVerification(c)' = FALSE
        /\ cards'[c].kind = cards[c].kind /\ cards'[c].source = cards[c].source
        /\ life' # life => log'[c] = log[c] /\ cards'[c].knip = cards[c].knip
    BY <1>1 DEF HistoryPasses
  <2>. PICK old \in Card : old = cards[c]
    BY DEF TypeOK
  <2>. PICK new \in Card : new = cards'[c]
    BY <2>1 DEF TypeOK
  <2>2. new = [old EXCEPT !.knip = new.knip, !.owner = new.owner]
    BY <2>1 DEF Card
  <2>. QED BY <2>1, <2>2
<1>2. ASSUME NEW r \in DOMAIN requests, requests[r].status = "fulfilled"
      PROVE  /\ r \in DOMAIN requests'
             /\ requests'[r] = [requests[r] EXCEPT !.user = requests'[r].user]
  <2>1. /\ r \in DOMAIN requests' /\ requests'[r].kind = requests[r].kind
        /\ requests'[r].card = requests[r].card /\ requests'[r].status = requests[r].status
    BY <1>2 DEF HistoryPasses
  <2>. PICK old \in Request : old = requests[r]
    BY LenProperties, ElementOfSeq DEF TypeOK
  <2>. PICK new \in Request : new = requests'[r]
    BY <2>1, LenProperties, ElementOfSeq DEF TypeOK
  <2>2. new = [old EXCEPT !.user = new.user]
    BY <2>1 DEF Request
  <2>. QED BY <2>1, <2>2
<1>3. ASSUME NEW o \in DOMAIN orders, orders[o].status = "delivered"
      PROVE  /\ o \in DOMAIN orders'
             /\ orders'[o] = [orders[o] EXCEPT !.user = orders'[o].user]
  <2>1. /\ o \in DOMAIN orders' /\ orders'[o].card = orders[o].card
        /\ orders'[o].qty = orders[o].qty /\ orders'[o].status = orders[o].status
    BY <1>3 DEF HistoryPasses
  <2>. PICK old \in Order : old = orders[o]
    BY DEF TypeOK
  <2>. PICK new \in Order : new = orders'[o]
    BY <2>1 DEF TypeOK
  <2>2. new = [old EXCEPT !.user = new.user]
    BY <2>1 DEF Order
  <2>. QED BY <2>1, <2>2
<1>4. ASSUME NEW u \in Existing
      PROVE  IF u \in Existing' THEN Inherits(u, u) ELSE \E p \in Existing' : Inherits(u, p)
  <2>1. Inherits(u, Heir(u, from, to))
    BY DEF HistoryPasses, Inherits
  <2>2. IF u \in Existing' THEN Heir(u, from, to) = u ELSE Heir(u, from, to) \in Existing'
    BY DEF HistoryPasses
  <2>. QED BY <2>1, <2>2
<1>. QED BY <1>1, <1>2, <1>3, <1>4 DEF HistoryStep

LEMMA PassedHistory ==
    ASSUME TypeOK, SalesOK, NEW from, NEW to, NEW R,
           PassedOn(Tables, Tables', from, to, R), OpenFree(from, to, R),
           from # to, from \notin Existing', to \in Existing',
           Existing \ {from} \subseteq Existing'
    PROVE  HistoryPasses(from, to)
<1>. PICK gone : RowsPassed(from, to, R, gone)
  BY PassedRows
<1>1. \A c \in gone : AwaitsVerification(c) /\ c \in DOMAIN cards /\ \A r \in LiveRequests(c) : r \in R
  BY GoneAwaits
<1>2. \A c \in DOMAIN cards : ~AwaitsVerification(c) =>
          /\ c \in DOMAIN cards' /\ AwaitsVerification(c)' = FALSE
          /\ cards'[c].owner = Heir(cards[c].owner, from, to)
          /\ cards'[c].kind = cards[c].kind
          /\ cards'[c].source = cards[c].source
          /\ log'[c] = log[c] /\ cards'[c].knip = cards[c].knip
  <2>. SUFFICES ASSUME NEW c \in DOMAIN cards, ~AwaitsVerification(c)
                PROVE  /\ c \in DOMAIN cards' /\ AwaitsVerification(c)' = FALSE
                       /\ cards'[c].owner = Heir(cards[c].owner, from, to)
                       /\ cards'[c].kind = cards[c].kind
                       /\ cards'[c].source = cards[c].source
                       /\ log'[c] = log[c] /\ cards'[c].knip = cards[c].knip
    OBVIOUS
  <2>1. c \in DOMAIN cards' /\ c # Null
    BY <1>1, AwaitingCard DEF RowsPassed
  <2>2. \A r \in DOMAIN requests' : requests'[r].card = c /\ requests'[r].status = "pending" =>
           r \in DOMAIN requests /\ requests[r].card = c /\ requests[r].status = "pending"
    BY <2>1 DEF RowsPassed
  <2>3. AwaitsVerification(c)' = FALSE
    BY <2>2 DEF AwaitsVerification
  <2>. QED BY <2>1, <2>3 DEF RowsPassed
<1>3. \A r \in DOMAIN requests : requests[r].status = "fulfilled" =>
          /\ r \in DOMAIN requests'
          /\ requests'[r].user = Heir(requests[r].user, from, to)
          /\ requests'[r].kind = requests[r].kind
          /\ requests'[r].card = requests[r].card
          /\ requests'[r].status = requests[r].status
  <2>. SUFFICES ASSUME NEW r \in DOMAIN requests, requests[r].status = "fulfilled"
                PROVE  /\ r \in DOMAIN requests'
                       /\ requests'[r].user = Heir(requests[r].user, from, to)
                       /\ requests'[r].kind = requests[r].kind
                       /\ requests'[r].card = requests[r].card
                       /\ requests'[r].status = requests[r].status
    OBVIOUS
  <2>1. r \notin R
    BY DEF OpenFree
  <2>2. requests[r].card \notin gone
    BY <1>1, <2>1 DEF LiveRequests
  <2>. QED BY <2>1, <2>2 DEF RowsPassed
<1>4. \A o \in DOMAIN orders : orders[o].status = "delivered" =>
          /\ o \in DOMAIN orders'
          /\ orders'[o].user = Heir(orders[o].user, from, to)
          /\ orders'[o].card = orders[o].card
          /\ orders'[o].qty = orders[o].qty
          /\ orders'[o].status = orders[o].status
  <2>. SUFFICES ASSUME NEW o \in DOMAIN orders, orders[o].status = "delivered"
                PROVE  /\ o \in DOMAIN orders'
                       /\ orders'[o].user = Heir(orders[o].user, from, to)
                       /\ orders'[o].card = orders[o].card
                       /\ orders'[o].qty = orders[o].qty
                       /\ orders'[o].status = orders[o].status
    OBVIOUS
  <2>1. orders[o].card \notin gone
    BY <1>1 DEF SalesOK, InactiveUntouched
  <2>. QED BY <2>1 DEF RowsPassed
<1>5. \A u \in Existing : IF u \in Existing' THEN Heir(u, from, to) = u
                          ELSE Heir(u, from, to) \in Existing'
  BY DEF Heir
<1>. QED BY <1>2, <1>3, <1>4, <1>5 DEF HistoryPasses

LEMMA CardHistory ==
    ASSUME TypeOK, SalesOK, [Next]_vars, UNCHANGED life
    PROVE  HistoryPasses(Null, Null)
<1>1. AccordedStay /\ ClosedStay
  <2>1. CASE Next
    BY <2>1, SalesStep, ClosedStep
  <2>2. CASE UNCHANGED vars
    BY <2>2, SalesStep, ClosedStep
  <2>. QED BY <2>1, <2>2
<1>2. Existing' = Existing
  BY DEF Existing, Life!Existing, Life!Editable, Life!System, Life!Is
<1>. QED BY <1>1, <1>2 DEF HistoryPasses, AccordedStay, ClosedStay, Heir

LEMMA AccountHistory ==
    ASSUME LifeTyped, AccountStep, UNCHANGED vars
    PROVE  HistoryPasses(Null, Null)
<1>1. Existing \subseteq Existing'
  BY LifeStep
<1>2. \A c : AwaitsVerification(c)' = AwaitsVerification(c)
  BY DEF AwaitsVerification, vars
<1>. QED BY <1>1, <1>2 DEF HistoryPasses, Heir, vars

LEMMA MembersHistory ==
    ASSUME MembersInv, MembersInv', BooksInv, MembersNext
    PROVE  HistoryStep
<1>1. TypeOK /\ TypeOK' /\ SalesOK /\ LifeTyped
  BY DEF MembersInv, BooksInv
<1>2. CASE CardStep /\ UNCHANGED <<life, disabled>>
  BY <1>1, <1>2, CardStepIsNext, CardHistory, HistoryHolds
<1>3. CASE AccountStep /\ UNCHANGED vars
  BY <1>1, <1>3, AccountHistory, HistoryHolds
<1>4. CASE \E u, p \in Members : AdminDeleteUser(u, p)
  <2>. PICK u \in Members, p \in Members : AdminDeleteUser(u, p)
    BY <1>4
  <2>1. u # p /\ Existing' = (Existing \ {u}) \cup {p}
    BY <1>1, DeletePlaces DEF AdminDeleteUser
  <2>2. PassedOn(Tables, Tables', u, p, PendingRequests(Tables, u))
    BY DeletePasses
  <2>3. HistoryPasses(u, p)
    BY <1>1, <2>1, <2>2, DeleteFree, PassedHistory
  <2>. QED BY <1>1, <2>3, HistoryHolds
<1>5. CASE \E s, t \in Members : AdminMergeLocalUserIntoGoogle(s, t)
  <2>. PICK s \in Members, t \in Members : AdminMergeLocalUserIntoGoogle(s, t)
    BY <1>5
  <2>1. s # t /\ Existing' = (Existing \ {s}) \cup {t}
    BY <1>1, MergePlaces DEF AdminMergeLocalUserIntoGoogle
  <2>2. PassedOn(Tables, Tables', s, t, {})
    BY MergePasses
  <2>3. OpenFree(s, t, {})
    BY <1>1, MergeFree DEF AdminMergeLocalUserIntoGoogle
  <2>4. HistoryPasses(s, t)
    BY <1>1, <2>1, <2>2, <2>3, PassedHistory
  <2>. QED BY <1>1, <2>4, HistoryHolds
<1>. QED BY <1>2, <1>3, <1>4, <1>5 DEF MembersNext

(* Omzet and statistics do not change when accounts come, merge or go: an  *)
(* accorded card, a granted sale and a delivered order stay what they are  *)
(* in every step, only their owner may change, and then all that a member  *)
(* leaves passes to one heir (users_lifecycle.go, reassignUserReferences). *)
THEOREM HistoryStays == MembersSpec => HistoryKept
<1>1. MembersInv /\ MembersInv' /\ BooksInv /\ [MembersNext]_allVars => [HistoryStep]_allVars
  BY MembersHistory
<1>2. MembersSpec => [][HistoryStep]_allVars
  BY <1>1, BooksInvariant, PTL DEF MembersSpec
<1>. QED BY <1>2 DEF HistoryKept, HistoryStep
=============================================================================
