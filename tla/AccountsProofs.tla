--------------------------- MODULE AccountsProofs ---------------------------
(***************************************************************************)
(* For any number of identities, usernames, browsers, calls in flight and  *)
(* rows: accounts keep their identities, nobody touches the placeholder    *)
(* that a deletion made, and the rows live the lives of MemberLife.        *)
(*                                                                         *)
(* The invariant has a part for the rows and one for the calls. Actions do *)
(* one of five things to the rows; a lemma for each says what it keeps.    *)
(***************************************************************************)
EXTENDS Accounts, TLAPS

(* The placeholder is as DeleteUser made it *)
Untouched == \A u \in DOMAIN users : Placeholder(u) => users[u] = PlaceholderRow

RowsInv ==
    /\ lastUser \in 0..MaxUsers
    /\ DOMAIN users \subseteq 1..lastUser
    /\ users \in [DOMAIN users -> User]
    /\ Identities
    /\ Untouched

(* What a call has in hand fits the rows: the row whose address it is about  *)
(* to write is locked and stays, one it is to write a password in was never  *)
(* the placeholder.                                                          *)
CallOK(k) ==
    /\ k \in Call
    /\ k.at \in {"update", "link", "insert", "address"} => k.arg \in Subs
    /\ k.at = "address" => OwnLocalUser(k.user)
    /\ k.at \in {"patch", "newpassword"} => k.user \in 1..lastUser /\ ~Placeholder(k.user)

CallsInv ==
    /\ session \in [Browsers -> 0..lastUser]
    /\ calls \in [Calls -> Call]
    /\ \A c \in Calls : CallOK(calls[c])

IInv == RowsInv /\ CallsInv

-----------------------------------------------------------------------------
(* What a step may do to the rows *)

(* What calls in flight rely on *)
Stays ==
    /\ lastUser' \in Nat /\ lastUser <= lastUser'
    /\ \A u : Locked(u) /\ OwnLocalUser(u) => OwnLocalUser(u)'
    /\ \A u \in 1..lastUser : ~Placeholder(u) => ~Placeholder(u)'

LifeStep == [Life!LifeNext]_(Life!lifeVars)

PlaceholderStays ==
    \A u \in DOMAIN users : Placeholder(u) => u \in DOMAIN users' /\ users'[u] = users[u]

Good == RowsInv' /\ Stays /\ LifeStep /\ PlaceholderStays

(* The life of a row, case by case *)
LEMMA LifeIs ==
    ASSUME RowsInv, NEW u \in Ids
    PROVE  /\ LifeOf(u) = "none" <=> u > lastUser
           /\ LifeOf(u) = "gone" <=> u <= lastUser /\ u \notin DOMAIN users
           /\ LifeOf(u) = "placeholder" <=> Placeholder(u)
           /\ LifeOf(u) = "reserved" <=> Reserved(u)
           /\ LifeOf(u) = "local" <=> OwnLocalUser(u)
           /\ LifeOf(u) = "google" <=> u \in DOMAIN users /\ users[u].login = None
           /\ LifeOf(u) \in {"none", "gone", "placeholder", "reserved", "local", "google"}
<1>1. u \in Nat /\ lastUser \in Nat /\ (u \in DOMAIN users => u <= lastUser)
  BY MaxUsersAssumption DEF RowsInv, Ids
<1>2. CASE u > lastUser
  <2>1. LifeOf(u) = "none"
    BY <1>1, <1>2 DEF LifeOf, Placeholder, Reserved, IsSystem, LocalUser
  <2>. QED
    BY <1>1, <1>2, <2>1 DEF OwnLocalUser, LocalUser, Placeholder, Reserved, IsSystem
<1>3. CASE u <= lastUser /\ u \notin DOMAIN users
  <2>1. LifeOf(u) = "gone"
    BY <1>1, <1>3 DEF LifeOf, Placeholder, Reserved, IsSystem, LocalUser
  <2>. QED
    BY <1>1, <1>3, <2>1 DEF OwnLocalUser, LocalUser, Placeholder, Reserved, IsSystem
<1>4. CASE Placeholder(u)
  <2>1. LifeOf(u) = "placeholder"
    BY <1>1, <1>4 DEF LifeOf, Placeholder, Reserved, IsSystem, LocalUser, None, PlaceholderName
  <2>. QED
    BY <1>1, <1>4, <2>1 DEF OwnLocalUser, LocalUser, Placeholder, Reserved, IsSystem,
       None, PlaceholderName
<1>5. CASE Reserved(u)
  <2>1. LifeOf(u) = "reserved"
    BY <1>1, <1>5 DEF LifeOf, Placeholder, Reserved, IsSystem, LocalUser, None, PlaceholderName
  <2>. QED
    BY <1>1, <1>5, <2>1 DEF OwnLocalUser, LocalUser, Placeholder, Reserved, IsSystem,
       None, PlaceholderName
<1>6. CASE OwnLocalUser(u)
  <2>1. LifeOf(u) = "local"
    BY <1>1, <1>6 DEF LifeOf, Placeholder, Reserved, IsSystem, LocalUser, OwnLocalUser
  <2>. QED
    BY <1>1, <1>6, <2>1 DEF OwnLocalUser, LocalUser, Placeholder, Reserved, IsSystem
<1>7. CASE u \in DOMAIN users /\ users[u].login = None
  <2>1. LifeOf(u) = "google"
    BY <1>1, <1>7 DEF LifeOf, Placeholder, Reserved, IsSystem, LocalUser, None, PlaceholderName
  <2>. QED
    BY <1>1, <1>7, <2>1 DEF OwnLocalUser, LocalUser, Placeholder, Reserved, IsSystem,
       None, PlaceholderName
<1>. QED
  BY <1>1, <1>2, <1>3, <1>4, <1>5, <1>6, <1>7
  DEF OwnLocalUser, LocalUser, Placeholder, Reserved, IsSystem

(* No row has the placeholder's name when it is not taken *)
LEMMA NoPlaceholder ==
    ASSUME RowsInv
    PROVE  LoginTaken(PlaceholderName) <=> Life!System # {}
<1>1. \A v \in DOMAIN users : v \in Ids
  BY MaxUsersAssumption DEF RowsInv, Ids
<1>2. \A v \in Ids : LifeOf(v) \in {"placeholder", "reserved"} <=> IsSystem(v)
  BY LifeIs DEF Placeholder, Reserved
<1>. QED
  BY <1>1, <1>2 DEF LoginTaken, Life!System, Life!Is, IsSystem

-----------------------------------------------------------------------------
(* The five things a step does to the rows *)

(* A row is its columns *)
LEMMA SameRow ==
    ASSUME NEW r \in User, NEW s \in User,
           r.sub = s.sub, r.login = s.login, r.email = s.email, r.hash = s.hash,
           r.admin = s.admin, r.must = s.must, r.disabled = s.disabled
    PROVE  r = s
  BY DEF User

(* Nothing *)
LEMMA SameRows ==
    ASSUME RowsInv, users' = users, lastUser' = lastUser
    PROVE  Good
<1>1. RowsInv'
  BY DEF RowsInv, Identities, Untouched, Placeholder, IsSystem
<1>2. \A u : /\ LocalUser(u)' = LocalUser(u) /\ IsSystem(u)' = IsSystem(u)
             /\ Placeholder(u)' = Placeholder(u) /\ Reserved(u)' = Reserved(u)
  BY DEF LocalUser, IsSystem, Placeholder, Reserved
<1>3. Stays
  BY <1>2, MaxUsersAssumption DEF Stays, OwnLocalUser, RowsInv
<1>4. PlaceholderStays
  BY DEF PlaceholderStays
<1>5. \A u : LifeOf(u)' = LifeOf(u)
  BY <1>2 DEF LifeOf
<1>6. UNCHANGED Life!lifeVars
  BY <1>5 DEF Life!lifeVars
<1>. QED
  BY <1>1, <1>3, <1>4, <1>6 DEF Good, LifeStep

(* A row of somebody changes, but neither its identity nor its username      *)
LEMMA ChangedRow ==
    ASSUME RowsInv, NEW u \in DOMAIN users, NEW row \in User,
           row.sub = users[u].sub, row.login = users[u].login,
           row.hash = None <=> users[u].hash = None,
           row.hash = "invalid" \/ users[u].hash = "invalid" =>
               row = users[u] \/ ~IsSystem(u),
           users' = [users EXCEPT ![u] = row], lastUser' = lastUser
    PROVE  /\ RowsInv' /\ Stays /\ PlaceholderStays
           /\ \A v \in Ids : LifeOf(v)' = LifeOf(v)
<1>1. DOMAIN users' = DOMAIN users
  OBVIOUS
<1>2. \A v \in DOMAIN users : users'[v] = IF v = u THEN row ELSE users[v]
  OBVIOUS
<1>3. \A v \in DOMAIN users : /\ users'[v].sub = users[v].sub
                              /\ users'[v].login = users[v].login
                              /\ users'[v].hash = None <=> users[v].hash = None
                              /\ IsSystem(v) => (users'[v].hash = "invalid" <=>
                                                 users[v].hash = "invalid")
                              /\ Placeholder(v) => users'[v] = users[v]
  BY <1>2 DEF Placeholder
<1>4. users' \in [DOMAIN users' -> User]
  BY <1>1, <1>2 DEF RowsInv
<1>5. Identities'
  BY <1>1, <1>3 DEF RowsInv, Identities
<1>7. \A v : /\ LocalUser(v)' = LocalUser(v) /\ IsSystem(v)' = IsSystem(v)
             /\ Placeholder(v)' = Placeholder(v) /\ Reserved(v)' = Reserved(v)
  BY <1>1, <1>3 DEF LocalUser, IsSystem, Placeholder, Reserved
<1>6. Untouched'
  BY <1>1, <1>3, <1>7 DEF RowsInv, Untouched
<1>8. \A v : OwnLocalUser(v)' = OwnLocalUser(v)
  BY <1>7, <1>1, <1>3 DEF LocalUser, OwnLocalUser
<1>9. Stays
  BY <1>7, <1>8, MaxUsersAssumption DEF Stays, RowsInv
<1>10. PlaceholderStays
  BY <1>1, <1>3 DEF PlaceholderStays
<1>11. \A v \in Ids : LifeOf(v)' = LifeOf(v)
  BY <1>1, <1>7 DEF LifeOf
<1>. QED
  BY <1>1, <1>4, <1>5, <1>6, <1>9, <1>10, <1>11 DEF RowsInv

(* The rows that are deactivated *)
Disabled == {u \in DOMAIN users : users[u].disabled}

(* ... and its activation stays *)
LEMMA UpdatedRow ==
    ASSUME RowsInv, NEW u \in DOMAIN users, NEW row \in User,
           row.sub = users[u].sub, row.login = users[u].login,
           row.hash = None <=> users[u].hash = None,
           row.hash = "invalid" \/ users[u].hash = "invalid" =>
               row = users[u] \/ ~IsSystem(u),
           row.disabled = users[u].disabled,
           users' = [users EXCEPT ![u] = row], lastUser' = lastUser
    PROVE  Good
<1>1. /\ RowsInv' /\ Stays /\ PlaceholderStays
      /\ \A v \in Ids : LifeOf(v)' = LifeOf(v)
  BY ChangedRow
<1>2. \A v \in DOMAIN users : users'[v].disabled = users[v].disabled
  OBVIOUS
<1>3. Disabled' = Disabled
  BY <1>2 DEF Disabled
<1>4. UNCHANGED Life!lifeVars
  BY <1>1, <1>3 DEF Life!lifeVars, Disabled
<1>. QED
  BY <1>1, <1>4 DEF Good, LifeStep

(* ... or its activation changes, the placeholder's excepted                 *)
LEMMA ActivatedRow ==
    ASSUME RowsInv, NEW u \in DOMAIN users, NEW value \in BOOLEAN,
           ~value => ~IsSystem(u),
           users' = [users EXCEPT ![u] = [users[u] EXCEPT !.disabled = value]],
           lastUser' = lastUser
    PROVE  Good
<1>. DEFINE row == [users[u] EXCEPT !.disabled = value]
<1>1. users[u] \in User
  BY DEF RowsInv
<1>2. /\ row \in User
      /\ row.sub = users[u].sub /\ row.login = users[u].login /\ row.hash = users[u].hash
  BY <1>1 DEF User
<1>3. row.disabled = value
  BY <1>1 DEF User
<1>4. Placeholder(u) => row = users[u]
  <2>. SUFFICES ASSUME Placeholder(u) PROVE row = users[u]
    OBVIOUS
  <2>1. users[u] = PlaceholderRow /\ value = TRUE
    BY DEF RowsInv, Untouched, Placeholder
  <2>2. users[u].disabled = TRUE
    BY <2>1 DEF PlaceholderRow
  <2>3. row.admin = users[u].admin /\ row.must = users[u].must /\ row.email = users[u].email
    BY <1>1 DEF User
  <2>. QED
    BY <1>1, <1>2, <1>3, <2>1, <2>2, <2>3, SameRow
<1>5. users' = [users EXCEPT ![u] = row]
  OBVIOUS
<1>. HIDE DEF row
<1>6. /\ RowsInv' /\ Stays /\ PlaceholderStays
      /\ \A v \in Ids : LifeOf(v)' = LifeOf(v)
  BY <1>2, <1>4, <1>5, ChangedRow DEF Placeholder
<1>7. \A v \in DOMAIN users : users'[v].disabled = IF v = u THEN value ELSE users[v].disabled
  BY <1>3, <1>5
<1>8. DOMAIN users' = DOMAIN users
  BY <1>5
<1>9. Disabled' = IF value THEN Disabled \cup {u} ELSE Disabled \ {u}
  <2>1. CASE value
    BY <1>7, <1>8, <2>1 DEF Disabled
  <2>2. CASE ~value
    BY <1>7, <1>8, <2>2 DEF Disabled
  <2>. QED
    BY <2>1, <2>2
<1>10. u \in Ids
  BY MaxUsersAssumption DEF RowsInv, Ids
<1>11. LifeOf(u) \in {"placeholder", "reserved", "local", "google"}
  BY <1>10, LifeIs, MaxUsersAssumption DEF RowsInv
<1>12. ~value => LifeOf(u) \in {"local", "google"}
  BY <1>10, <1>11, LifeIs DEF Placeholder, Reserved
<1>13. u \in IF value THEN Life!Existing ELSE Life!Editable
  BY <1>10, <1>11, <1>12 DEF Life!Existing, Life!Editable, Life!System, Life!Is
<1>14. Life!AdminSetUserDisabled(u, value)
  BY <1>6, <1>9, <1>13 DEF Life!AdminSetUserDisabled, Disabled
<1>15. Life!LifeNext
  BY <1>10, <1>14 DEF Life!LifeNext
<1>. QED
  BY <1>6, <1>15 DEF Good, LifeStep

(* A local account becomes that of a Google identity                         *)
LEMMA LinkedRow ==
    ASSUME RowsInv, NEW u \in DOMAIN users, NEW g \in Subs, NEW row \in User,
           OwnLocalUser(u), ~Locked(u), ~users[u].disabled, ~row.disabled,
           WithSub(g) = {},
           row.sub = g, row.login = None, row.hash = None,
           users' = [users EXCEPT ![u] = row], lastUser' = lastUser
    PROVE  Good
<1>1. DOMAIN users' = DOMAIN users
  OBVIOUS
<1>2. \A v \in DOMAIN users : users'[v] = IF v = u THEN row ELSE users[v]
  OBVIOUS
<1>3. users' \in [DOMAIN users' -> User]
  BY <1>1, <1>2 DEF RowsInv
<1>4. g # None
  BY NamesAssumption
<1>5. Identities'
  <2>1. \A v \in DOMAIN users : users[v].sub # g
    BY DEF WithSub
  <2>2. \A v \in DOMAIN users' :
          IF users'[v].sub = None THEN users'[v].login # None /\ users'[v].hash # None
          ELSE users'[v].login = None /\ users'[v].hash = None
    BY <1>1, <1>2, <1>4 DEF RowsInv, Identities
  <2>3. \A v, w \in DOMAIN users' :
          /\ users'[v].sub = users'[w].sub /\ users'[v].sub # None => v = w
          /\ users'[v].login = users'[w].login /\ users'[v].login # None => v = w
    BY <1>1, <1>2, <2>1 DEF RowsInv, Identities
  <2>. QED
    BY <2>2, <2>3 DEF Identities
<1>6. Untouched'
  BY <1>1, <1>2 DEF RowsInv, Untouched, Placeholder, IsSystem, None, PlaceholderName
<1>7. RowsInv'
  BY <1>1, <1>3, <1>5, <1>6 DEF RowsInv
<1>8. Stays
  <2>1. \A v : Locked(v) /\ OwnLocalUser(v) => OwnLocalUser(v)'
    BY <1>1, <1>2 DEF OwnLocalUser, LocalUser
  <2>2. \A v \in 1..lastUser : ~Placeholder(v) => ~Placeholder(v)'
    BY <1>1, <1>2 DEF Placeholder, IsSystem, None, PlaceholderName
  <2>. QED
    BY <2>1, <2>2, MaxUsersAssumption DEF Stays, RowsInv
<1>9. PlaceholderStays
  BY <1>1, <1>2 DEF PlaceholderStays, Placeholder, IsSystem, OwnLocalUser
<1>10. u \in Ids
  BY MaxUsersAssumption DEF RowsInv, Ids
<1>11. \A v \in Ids \ {u} : LifeOf(v)' = LifeOf(v)
  BY <1>1, <1>2 DEF LifeOf, LocalUser, Placeholder, Reserved, IsSystem
<1>12. LifeOf(u) = "local"
  BY <1>10, LifeIs
<1>13. LifeOf(u)' = "google"
  BY <1>1, <1>2, <1>10, MaxUsersAssumption DEF LifeOf, LocalUser,
     Placeholder, Reserved, IsSystem, RowsInv, None, PlaceholderName
<1>14. Disabled' = Disabled
  BY <1>1, <1>2 DEF Disabled
<1>15. Life!LinkGoogle(u)
  <2>. DEFINE life == [v \in Ids |-> LifeOf(v)]
  <2>1. life' = [life EXCEPT ![u] = "google"]
    BY <1>10, <1>11, <1>13
  <2>2. life[u] = "local"
    BY <1>10, <1>12
  <2>. QED
    BY <1>14, <2>1, <2>2 DEF Life!LinkGoogle, Disabled
<1>16. Life!LifeNext
  BY <1>10, <1>15 DEF Life!LifeNext
<1>. QED
  BY <1>7, <1>8, <1>9, <1>16 DEF Good, LifeStep

(* A row is inserted, with a username that no other row has                  *)
LEMMA InsertedRow ==
    ASSUME RowsInv, NEW row \in User, Insert(users, row),
           IF row.sub = None THEN row.login # None /\ row.hash # None
           ELSE row.login = None /\ row.hash = None,
           row.sub # None => WithSub(row.sub) = {},
           row.login # None => ~LoginTaken(row.login),
           row.login = PlaceholderName /\ row.hash = "invalid" => row = PlaceholderRow
    PROVE  /\ RowsInv' /\ Stays /\ PlaceholderStays
           /\ DOMAIN users' = DOMAIN users \cup {lastUser + 1}
           /\ lastUser + 1 \in Ids /\ lastUser + 1 \notin DOMAIN users
           /\ lastUser' = lastUser + 1
           /\ users'[lastUser + 1] = row
           /\ \A v \in DOMAIN users : users'[v] = users[v]
           /\ \A v \in Ids \ {lastUser + 1} : LifeOf(v)' = LifeOf(v)
<1>. DEFINE n == lastUser + 1
<1>1. /\ lastUser \in Nat /\ n \in Nat /\ lastUser < MaxUsers /\ lastUser' = n
      /\ n \notin DOMAIN users /\ n \in Ids
  BY MaxUsersAssumption DEF RowsInv, Insert, Ids
<1>2. /\ DOMAIN users' = DOMAIN users \cup {n}
      /\ \A v \in DOMAIN users' : users'[v] = IF v = n THEN row ELSE users[v]
  BY DEF Insert
<1>3. users'[n] = row /\ \A v \in DOMAIN users : users'[v] = users[v]
  BY <1>1, <1>2
<1>4. DOMAIN users' \subseteq 1..lastUser' /\ lastUser' \in 0..MaxUsers
  BY <1>1, <1>2, MaxUsersAssumption DEF RowsInv
<1>5. users' \in [DOMAIN users' -> User]
  <2>1. users' = [v \in DOMAIN users' |-> users'[v]]
    BY DEF Insert
  <2>2. \A v \in DOMAIN users' : users'[v] \in User
    BY <1>2, <1>3 DEF RowsInv
  <2>. QED
    BY <2>1, <2>2
<1>6. Identities'
  <2>1. \A v \in DOMAIN users : row.sub # None => users[v].sub # row.sub
    BY DEF WithSub
  <2>2. \A v \in DOMAIN users : row.login # None => users[v].login # row.login
    BY DEF LoginTaken
  <2>3. \A v \in DOMAIN users' :
          IF users'[v].sub = None THEN users'[v].login # None /\ users'[v].hash # None
          ELSE users'[v].login = None /\ users'[v].hash = None
    BY <1>2, <1>3 DEF RowsInv, Identities
  <2>4. \A v, w \in DOMAIN users' :
          /\ users'[v].sub = users'[w].sub /\ users'[v].sub # None => v = w
          /\ users'[v].login = users'[w].login /\ users'[v].login # None => v = w
    BY <1>2, <1>3, <2>1, <2>2 DEF RowsInv, Identities
  <2>. QED
    BY <2>3, <2>4 DEF Identities
<1>7. Untouched'
  BY <1>2, <1>3 DEF RowsInv, Untouched, Placeholder, IsSystem
<1>8. RowsInv'
  BY <1>4, <1>5, <1>6, <1>7 DEF RowsInv
<1>9. \A v : v # n => /\ LocalUser(v)' = LocalUser(v) /\ IsSystem(v)' = IsSystem(v)
                      /\ Placeholder(v)' = Placeholder(v) /\ Reserved(v)' = Reserved(v)
  BY <1>2, <1>3 DEF LocalUser, IsSystem, Placeholder, Reserved
<1>10. \A v : v # n => OwnLocalUser(v)' = OwnLocalUser(v)
  BY <1>2, <1>3 DEF LocalUser, OwnLocalUser
<1>11. Stays
  <2>1. \A v : OwnLocalUser(v) => v # n
    BY <1>1 DEF OwnLocalUser, LocalUser
  <2>2. \A v \in 1..lastUser : v # n
    BY <1>1
  <2>. QED
    BY <1>1, <1>9, <1>10, <2>1, <2>2 DEF Stays
<1>12. PlaceholderStays
  BY <1>2, <1>3 DEF PlaceholderStays
<1>13. ASSUME NEW v \in Ids \ {n} PROVE LifeOf(v)' = LifeOf(v)
  <2>1. /\ (v > lastUser') = (v > lastUser)
        /\ (v <= lastUser') = (v <= lastUser)
        /\ (v \in DOMAIN users') = (v \in DOMAIN users)
    BY <1>1, <1>2, MaxUsersAssumption DEF Ids
  <2>2. /\ LocalUser(v)' = LocalUser(v) /\ IsSystem(v)' = IsSystem(v)
        /\ Placeholder(v)' = Placeholder(v) /\ Reserved(v)' = Reserved(v)
    BY <1>9
  <2>. QED
    BY <2>1, <2>2, Zenon DEF LifeOf
<1>. QED
  BY <1>1, <1>2, <1>3, <1>8, <1>11, <1>12, <1>13

(* ... of somebody                                                            *)
LEMMA NewRow ==
    ASSUME RowsInv, NEW row \in User, Insert(users, row),
           IF row.sub = None THEN row.login # None /\ row.hash # None
           ELSE row.login = None /\ row.hash = None,
           row.sub # None => WithSub(row.sub) = {},
           row.login # None => ~LoginTaken(row.login),
           row.hash # "invalid", ~row.disabled
    PROVE  Good
<1>. DEFINE kind == CASE row.login = None -> "google"
                      [] row.login = PlaceholderName -> "reserved"
                      [] OTHER -> "local"
            life == [v \in Ids |-> LifeOf(v)]
<1>. PICK n \in Ids : n = lastUser + 1
  BY InsertedRow
<1>1. /\ RowsInv' /\ Stays /\ PlaceholderStays
      /\ DOMAIN users' = DOMAIN users \cup {n}
      /\ n \in Ids /\ n \notin DOMAIN users /\ lastUser' = n /\ users'[n] = row
      /\ \A v \in DOMAIN users : users'[v] = users[v]
      /\ \A v \in Ids \ {n} : LifeOf(v)' = LifeOf(v)
  BY InsertedRow
<1>2. LifeOf(n) = "none"
  BY <1>1, LifeIs, MaxUsersAssumption DEF RowsInv
<1>3. LifeOf(n)' = kind
  <2>1. n \in Nat /\ ~(n > lastUser') /\ n <= lastUser' /\ n \in DOMAIN users'
    BY <1>1, MaxUsersAssumption DEF Ids
  <2>2. /\ ~Placeholder(n)' /\ (Reserved(n)' <=> row.login = PlaceholderName)
        /\ (IsSystem(n)' <=> row.login = PlaceholderName)
        /\ (LocalUser(n)' <=> row.login # None)
    BY <1>1, <2>1 DEF Placeholder, Reserved, IsSystem, LocalUser
  <2>. QED
    BY <2>1, <2>2 DEF LifeOf, None, PlaceholderName
<1>4. Disabled' = Disabled
  BY <1>1 DEF Disabled
<1>7. kind \in {"local", "google", "reserved"}
  OBVIOUS
<1>10. kind = "reserved" => Life!System = {}
  BY NoPlaceholder DEF None, PlaceholderName
<1>. HIDE DEF kind
<1>5. life' = [life EXCEPT ![n] = kind]
  BY <1>1, <1>3
<1>6. life[n] = "none"
  BY <1>1, <1>2
<1>8. Life!CreateUser(n, kind)
  BY <1>4, <1>5, <1>6, <1>7, <1>10 DEF Life!CreateUser, Disabled
<1>9. Life!LifeNext
  BY <1>1, <1>7, <1>8 DEF Life!LifeNext
<1>. QED
  BY <1>1, <1>9 DEF Good, LifeStep

(* A row goes, but not the placeholder's, and none whose address is being    *)
(* written                                                                   *)
LEMMA RemovedRow ==
    ASSUME RowsInv, NEW u \in DOMAIN users, ~IsSystem(u), ~Locked(u),
           users' = Restrict(users, DOMAIN users \ {u}), lastUser' = lastUser
    PROVE  /\ RowsInv' /\ Stays /\ PlaceholderStays
           /\ DOMAIN users' = DOMAIN users \ {u}
           /\ \A v \in DOMAIN users \ {u} : users'[v] = users[v]
           /\ \A v \in Ids \ {u} : LifeOf(v)' = LifeOf(v)
           /\ LifeOf(u)' = "gone"
<1>1. /\ DOMAIN users' = DOMAIN users \ {u}
      /\ \A v \in DOMAIN users \ {u} : users'[v] = users[v]
      /\ users' = [v \in DOMAIN users' |-> users'[v]]
  BY DEF Restrict
<1>2. RowsInv'
  <2>1. users' \in [DOMAIN users' -> User]
    BY <1>1 DEF RowsInv
  <2>2. \A v \in DOMAIN users' : v \in DOMAIN users /\ users'[v] = users[v]
    BY <1>1
  <2>3. \A v \in DOMAIN users' :
          IF users'[v].sub = None THEN users'[v].login # None /\ users'[v].hash # None
          ELSE users'[v].login = None /\ users'[v].hash = None
    BY <2>2 DEF RowsInv, Identities
  <2>4. \A v, w \in DOMAIN users' :
          /\ users'[v].sub = users'[w].sub /\ users'[v].sub # None => v = w
          /\ users'[v].login = users'[w].login /\ users'[v].login # None => v = w
    <3>1. \A v, w \in DOMAIN users :
            /\ users[v].sub = users[w].sub /\ users[v].sub # None => v = w
            /\ users[v].login = users[w].login /\ users[v].login # None => v = w
      BY DEF RowsInv, Identities
    <3>. TAKE v, w \in DOMAIN users'
    <3>2. /\ v \in DOMAIN users /\ users'[v] = users[v]
          /\ w \in DOMAIN users /\ users'[w] = users[w]
      BY <2>2
    <3>. QED
      BY <3>1, <3>2
  <2>5. Identities'
    BY <2>3, <2>4 DEF Identities
  <2>6. Untouched'
    BY <2>2 DEF RowsInv, Untouched, Placeholder, IsSystem
  <2>. QED
    BY <1>1, <2>1, <2>5, <2>6 DEF RowsInv
<1>3. \A v : v # u => /\ LocalUser(v)' = LocalUser(v) /\ IsSystem(v)' = IsSystem(v)
                      /\ Placeholder(v)' = Placeholder(v) /\ Reserved(v)' = Reserved(v)
  BY <1>1 DEF LocalUser, IsSystem, Placeholder, Reserved
<1>4. \A v : v # u => OwnLocalUser(v)' = OwnLocalUser(v)
  BY <1>1 DEF LocalUser, OwnLocalUser
<1>5. ~IsSystem(u)' /\ ~Placeholder(u)' /\ ~Reserved(u)'
  BY <1>1 DEF IsSystem, Placeholder, Reserved
<1>6. Stays
  BY <1>3, <1>4, <1>5, MaxUsersAssumption DEF Stays, RowsInv
<1>7. PlaceholderStays
  BY <1>1 DEF PlaceholderStays, Placeholder
<1>8. ASSUME NEW v \in Ids \ {u} PROVE LifeOf(v)' = LifeOf(v)
  <2>1. (v \in DOMAIN users') = (v \in DOMAIN users)
    BY <1>1
  <2>2. /\ LocalUser(v)' = LocalUser(v) /\ IsSystem(v)' = IsSystem(v)
        /\ Placeholder(v)' = Placeholder(v) /\ Reserved(v)' = Reserved(v)
    BY <1>3
  <2>. QED
    BY <2>1, <2>2, Zenon DEF LifeOf
<1>9. LifeOf(u)' = "gone"
  <2>1. u <= lastUser' /\ ~(u > lastUser') /\ u \notin DOMAIN users'
    BY <1>1, MaxUsersAssumption DEF RowsInv
  <2>. QED
    BY <2>1, <1>5 DEF LifeOf, LocalUser
<1>. QED
  BY <1>1, <1>2, <1>6, <1>7, <1>8, <1>9

(* A local account is merged into that of a Google identity                  *)
LEMMA MergedRow ==
    ASSUME RowsInv, NEW u \in DOMAIN users, NEW v \in DOMAIN users,
           OwnLocalUser(u), ~Locked(u), users[v].sub # None,
           users' = Restrict(users, DOMAIN users \ {u}), lastUser' = lastUser
    PROVE  Good
<1>. DEFINE life == [w \in Ids |-> LifeOf(w)]
<1>1. ~IsSystem(u)
  BY DEF OwnLocalUser, IsSystem
<1>2. /\ RowsInv' /\ Stays /\ PlaceholderStays
      /\ DOMAIN users' = DOMAIN users \ {u}
      /\ \A w \in DOMAIN users \ {u} : users'[w] = users[w]
      /\ \A w \in Ids \ {u} : LifeOf(w)' = LifeOf(w)
      /\ LifeOf(u)' = "gone"
  BY <1>1, RemovedRow
<1>3. u \in Ids /\ v \in Ids
  BY MaxUsersAssumption DEF RowsInv, Ids
<1>4. LifeOf(u) = "local"
  BY <1>3, LifeIs
<1>5. LifeOf(v) = "google"
  BY <1>3, LifeIs DEF RowsInv, Identities
<1>6. Disabled' = Disabled \ {u}
  BY <1>2 DEF Disabled
<1>7. life' = [life EXCEPT ![u] = "gone"]
  BY <1>2, <1>3
<1>8. Life!MergeUsers(u, v)
  BY <1>3, <1>4, <1>5, <1>6, <1>7 DEF Life!MergeUsers, Disabled
<1>9. Life!LifeNext
  BY <1>3, <1>8 DEF Life!LifeNext
<1>. QED
  BY <1>2, <1>9 DEF Good, LifeStep

(* A deactivated account is deleted when some row has the placeholder's name  *)
LEMMA DeletedRow ==
    ASSUME RowsInv, NEW u \in DOMAIN users, MayDelete(u), ~Locked(u),
           LoginTaken(PlaceholderName),
           users' = Restrict(users, DOMAIN users \ {u}), lastUser' = lastUser
    PROVE  Good
<1>. DEFINE life == [w \in Ids |-> LifeOf(w)]
<1>1. ~IsSystem(u) /\ users[u].disabled
  BY DEF MayDelete
<1>2. /\ RowsInv' /\ Stays /\ PlaceholderStays
      /\ DOMAIN users' = DOMAIN users \ {u}
      /\ \A w \in DOMAIN users \ {u} : users'[w] = users[w]
      /\ \A w \in Ids \ {u} : LifeOf(w)' = LifeOf(w)
      /\ LifeOf(u)' = "gone"
  BY <1>1, RemovedRow
<1>3. PICK p \in DOMAIN users : users[p].login = PlaceholderName
  BY DEF LoginTaken
<1>4. u \in Ids /\ p \in Ids /\ p # u
  BY <1>1, <1>3, MaxUsersAssumption DEF RowsInv, Ids, IsSystem
<1>5. LifeOf(u) \in {"local", "google"}
  BY <1>1, <1>4, LifeIs, MaxUsersAssumption DEF Placeholder, Reserved, RowsInv
<1>6. LifeOf(p) \in {"placeholder", "reserved"}
  BY <1>3, <1>4, LifeIs DEF Placeholder, Reserved, IsSystem
<1>7. p \in Life!System /\ Life!System # {}
  BY <1>4, <1>6 DEF Life!System, Life!Is
<1>8. Disabled' = Disabled \ {u}
  BY <1>2 DEF Disabled
<1>9. life' = [life EXCEPT ![u] = "gone", ![p] = life[p]]
  BY <1>2, <1>4
<1>10. Life!IsHeir(p)
  BY <1>7 DEF Life!IsHeir
<1>11. u \in Life!Editable /\ u \in Disabled
  BY <1>1, <1>4, <1>5 DEF Life!Editable, Life!Is, Disabled
<1>12. Life!DeleteUser(u, p)
  BY <1>4, <1>7, <1>8, <1>9, <1>10, <1>11 DEF Life!DeleteUser, Disabled
<1>13. Life!LifeNext
  BY <1>4, <1>12 DEF Life!LifeNext
<1>. QED
  BY <1>2, <1>13 DEF Good, LifeStep
(* The first deletion makes the placeholder                                   *)
LEMMA FirstDeletion ==
    ASSUME RowsInv, NEW u \in DOMAIN users, MayDelete(u), ~Locked(u),
           ~LoginTaken(PlaceholderName),
           Insert(Restrict(users, DOMAIN users \ {u}), PlaceholderRow)
    PROVE  Good
<1>. DEFINE life == [w \in Ids |-> LifeOf(w)]
<1>1. /\ lastUser \in Nat /\ lastUser + 1 \in Ids /\ lastUser' = lastUser + 1
      /\ lastUser + 1 \notin DOMAIN users /\ lastUser' \in 0..MaxUsers
      /\ DOMAIN users' = (DOMAIN users \ {u}) \cup {lastUser + 1}
      /\ users' = [v \in DOMAIN users' |-> users'[v]]
      /\ users'[lastUser + 1] = PlaceholderRow
      /\ \A v \in DOMAIN users \ {u} : users'[v] = users[v]
  BY MaxUsersAssumption DEF RowsInv, Insert, Ids, Restrict
<1>. PICK p \in Ids : p = lastUser + 1
  BY <1>1
<1>2. /\ lastUser' = p /\ p \notin DOMAIN users
      /\ DOMAIN users' = (DOMAIN users \ {u}) \cup {p}
      /\ \A v \in DOMAIN users' : users'[v] = IF v = p THEN PlaceholderRow ELSE users[v]
      /\ \A v \in DOMAIN users' : v = p \/ v \in DOMAIN users
  BY <1>1
<1>3. /\ PlaceholderRow \in User /\ PlaceholderRow.disabled
      /\ PlaceholderRow.sub = None /\ PlaceholderRow.login = PlaceholderName
      /\ PlaceholderRow.login # None /\ PlaceholderRow.hash # None
      /\ PlaceholderRow.hash = "invalid"
  BY DEF PlaceholderRow, User, None, PlaceholderName
<1>4. ~IsSystem(u) /\ users[u].disabled /\ u \in Ids /\ u # p
  BY <1>2, MaxUsersAssumption DEF MayDelete, RowsInv, Ids
<1>5. \A v \in DOMAIN users : users[v].login # PlaceholderName
  BY DEF LoginTaken
<1>. HIDE DEF PlaceholderRow
<1>6. RowsInv'
  <2>1. users' \in [DOMAIN users' -> User]
    BY <1>1, <1>2, <1>3 DEF RowsInv
  <2>2. \A v \in DOMAIN users' :
          IF users'[v].sub = None THEN users'[v].login # None /\ users'[v].hash # None
          ELSE users'[v].login = None /\ users'[v].hash = None
    BY <1>2, <1>3 DEF RowsInv, Identities
  <2>3. \A v, w \in DOMAIN users' :
          /\ users'[v].sub = users'[w].sub /\ users'[v].sub # None => v = w
          /\ users'[v].login = users'[w].login /\ users'[v].login # None => v = w
    BY <1>2, <1>3, <1>5 DEF RowsInv, Identities
  <2>4. Identities'
    BY <2>2, <2>3 DEF Identities
  <2>5. Untouched'
    BY <1>2, <1>5 DEF Untouched, Placeholder, IsSystem
  <2>6. DOMAIN users' \subseteq 1..lastUser'
    BY <1>1, <1>2 DEF RowsInv
  <2>. QED
    BY <1>1, <2>1, <2>4, <2>5, <2>6 DEF RowsInv
<1>7. \A v : v # u /\ v # p => /\ (v \in DOMAIN users') = (v \in DOMAIN users)
                               /\ LocalUser(v)' = LocalUser(v) /\ IsSystem(v)' = IsSystem(v)
                               /\ Placeholder(v)' = Placeholder(v) /\ Reserved(v)' = Reserved(v)
  BY <1>2 DEF LocalUser, IsSystem, Placeholder, Reserved
<1>8. \A v : v # u /\ v # p => OwnLocalUser(v)' = OwnLocalUser(v)
  BY <1>2 DEF LocalUser, OwnLocalUser
<1>9. /\ ~Placeholder(u)' /\ ~Reserved(u)' /\ ~IsSystem(u)' /\ ~LocalUser(u)'
      /\ u \notin DOMAIN users'
  BY <1>2, <1>4 DEF Placeholder, Reserved, IsSystem, LocalUser
<1>10. Stays
  <2>1. \A v : OwnLocalUser(v) => v # p
    BY <1>2 DEF OwnLocalUser, LocalUser
  <2>2. \A v \in 1..lastUser : v # p
    BY <1>1
  <2>. QED
    BY <1>1, <1>7, <1>8, <1>9, <2>1, <2>2 DEF Stays
<1>11. PlaceholderStays
  BY <1>5 DEF PlaceholderStays, Placeholder, IsSystem
<1>12. ASSUME NEW v \in Ids \ {u, p} PROVE LifeOf(v)' = LifeOf(v)
  <2>1. /\ (v > lastUser') = (v > lastUser)
        /\ (v <= lastUser') = (v <= lastUser)
    BY <1>1, MaxUsersAssumption DEF Ids
  <2>2. /\ (v \in DOMAIN users') = (v \in DOMAIN users)
        /\ LocalUser(v)' = LocalUser(v) /\ IsSystem(v)' = IsSystem(v)
        /\ Placeholder(v)' = Placeholder(v) /\ Reserved(v)' = Reserved(v)
    BY <1>7
  <2>. QED
    BY <2>1, <2>2, Zenon DEF LifeOf
<1>13. LifeOf(u)' = "gone"
  <2>1. u <= lastUser' /\ ~(u > lastUser')
    BY <1>1, <1>4, MaxUsersAssumption DEF RowsInv
  <2>. QED
    BY <2>1, <1>9 DEF LifeOf
<1>14. LifeOf(p)' = "placeholder"
  <2>1. p \in Nat /\ ~(p > lastUser') /\ p <= lastUser' /\ p \in DOMAIN users'
    BY <1>2, MaxUsersAssumption DEF Ids
  <2>2. IsSystem(p)' /\ LocalUser(p)' /\ Placeholder(p)' /\ ~Reserved(p)'
    BY <1>2, <1>3, <2>1 DEF Placeholder, Reserved, IsSystem, LocalUser
  <2>. QED
    BY <2>1, <2>2 DEF LifeOf
<1>15. LifeOf(p) = "none"
  BY <1>1, LifeIs
<1>16. LifeOf(u) \in {"local", "google"}
  BY <1>4, LifeIs, MaxUsersAssumption DEF Placeholder, Reserved, RowsInv
<1>17. Disabled' = (Disabled \ {u}) \cup {p}
  BY <1>2, <1>3 DEF Disabled
<1>18. life' = [life EXCEPT ![u] = "gone", ![p] = "placeholder"]
  BY <1>12, <1>13, <1>14, <1>4
<1>19. Life!System = {} /\ Life!IsHeir(p)
  BY <1>15, NoPlaceholder DEF Life!IsHeir
<1>20. u \in Life!Editable /\ u \in Disabled
  BY <1>4, <1>16 DEF Life!Editable, Life!Is, Disabled
<1>21. Life!DeleteUser(u, p)
  BY <1>17, <1>18, <1>19, <1>20 DEF Life!DeleteUser, Disabled
<1>22. Life!LifeNext
  BY <1>4, <1>21 DEF Life!LifeNext
<1>. QED
  BY <1>6, <1>10, <1>11, <1>22 DEF Good, LifeStep
-----------------------------------------------------------------------------
(* What a step does to the calls and the sessions *)

SessionOK == session \in [Browsers -> 0..lastUser]

Fine == Good /\ CallsInv'

(* A call in flight keeps fitting the rows *)
LEMMA CallStaysOK ==
    ASSUME IInv, Stays, NEW d \in Calls
    PROVE  CallOK(calls[d])'  \/ calls'[d] # calls[d]
<1>. SUFFICES ASSUME calls'[d] = calls[d] PROVE CallOK(calls[d])'
  OBVIOUS
<1>. DEFINE k == calls[d]
<1>1. CallOK(k)
  BY DEF IInv, CallsInv
<1>2. k.at = "address" => OwnLocalUser(k.user)'
  BY <1>1 DEF CallOK, Stays, Locked
<1>3. k.at \in {"patch", "newpassword"} => k.user \in 1..lastUser' /\ ~Placeholder(k.user)'
  BY <1>1, MaxUsersAssumption DEF CallOK, Stays, IInv, RowsInv
<1>. QED
  BY <1>1, <1>2, <1>3 DEF CallOK

(* One call goes on, or ends *)
LEMMA CallGoes ==
    ASSUME IInv, Good, NEW c \in Calls, NEW k, CallOK(k)',
           calls' = [calls EXCEPT ![c] = k], SessionOK'
    PROVE  Fine
<1>1. /\ calls' \in [Calls -> Call]
      /\ calls'[c] = k /\ \A d \in Calls \ {c} : calls'[d] = calls[d]
  BY DEF IInv, CallsInv, CallOK
<1>2. ASSUME NEW d \in Calls PROVE CallOK(calls[d])'
  <2>1. CASE d = c
    BY <1>1, <2>1
  <2>2. CASE d # c
    BY <1>1, <2>2, CallStaysOK DEF Good
  <2>. QED
    BY <2>1, <2>2
<1>3. CallsInv'
  BY <1>1, <1>2 DEF CallsInv, SessionOK
<1>. QED
  BY <1>3 DEF Fine

(* Sessions stay while ids only grow, and new ones are of ids given out      *)
LEMMA SessionStays ==
    ASSUME IInv, Good, session' = session
    PROVE  SessionOK'
  BY MaxUsersAssumption DEF IInv, RowsInv, CallsInv, SessionOK, Good, Stays

LEMMA SessionSet ==
    ASSUME IInv, Good, NEW b, NEW u \in 0..lastUser', session' = [session EXCEPT ![b] = u]
    PROVE  SessionOK'
<1>1. session \in [Browsers -> 0..lastUser']
  BY MaxUsersAssumption DEF IInv, RowsInv, CallsInv, Good, Stays
<1>. QED
  BY <1>1 DEF SessionOK

LEMMA IdleOK == CallOK(Idle)'
  BY MaxUsersAssumption DEF CallOK, Idle, Call, Stages, None, Nobody

(* The call ends *)
LEMMA CallEnds ==
    ASSUME IInv, Good, NEW c \in Calls, Ends(c), session' = session
    PROVE  Fine
<1>1. calls' = [calls EXCEPT ![c] = Idle]
  BY DEF Ends
<1>. QED
  BY <1>1, IdleOK, SessionStays, CallGoes

(* ... with a session *)
LEMMA CallLogsIn ==
    ASSUME IInv, Good, NEW c \in Calls, NEW u \in 0..lastUser', LoggedIn(c, u)
    PROVE  Fine
<1>1. SessionOK'
  BY SessionSet DEF LoggedIn
<1>2. calls' = [calls EXCEPT ![c] = Idle]
  BY DEF Ends, LoggedIn
<1>. QED
  BY <1>1, <1>2, IdleOK, CallGoes

(* The rows stay as they are *)
LEMMA NothingGood ==
    ASSUME IInv, Nothing
    PROVE  Good
  BY SameRows DEF Nothing, IInv
-----------------------------------------------------------------------------
(* The steps one by one: logging in *)

LEMMA Admitted ==
    ASSUME IInv, Nothing, session' = session, NEW c \in Calls, calls[c] = Idle,
           NEW k \in Call, k.at \in {"update", "login", "admin", "password"},
           k.at = "update" => k.arg \in Subs,
           calls' = [calls EXCEPT ![c] = k]
    PROVE  Fine
<1>1. CallOK(k)'
  BY DEF CallOK
<1>2. calls[c].at # "admin"
  BY DEF Idle
<1>. QED
  BY <1>1, <1>2, NothingGood, SessionStays, CallGoes

LEMMA GoogleCallbackFine ==
    ASSUME IInv, NEW b \in Browsers, NEW g \in Subs, GoogleCallback(b, g)
    PROVE  Fine
<1>. DEFINE k == [at |-> "update", by |-> b, user |-> Nobody, arg |-> g]
<1>1. k \in Call /\ k.at = "update" /\ k.arg = g
  BY MaxUsersAssumption DEF Call, Stages, Nobody
<1>. HIDE DEF k
<1>2. PICK c \in Calls : /\ calls[c] = Idle /\ calls' = [calls EXCEPT ![c] = k]
                         /\ UNCHANGED <<users, lastUser, session>>
  BY DEF GoogleCallback, k
<1>. QED
  BY <1>1, <1>2, Admitted DEF Nothing

LEMMA APILocalLoginFine ==
    ASSUME IInv, NEW b \in Browsers, NEW u \in DOMAIN users, APILocalLogin(b, u)
    PROVE  Fine
<1>. DEFINE k == [at |-> "login", by |-> b, user |-> u, arg |-> None]
<1>1. k \in Call /\ k.at = "login"
  BY MaxUsersAssumption DEF Call, Stages, IInv, RowsInv
<1>. HIDE DEF k
<1>2. PICK c \in Calls : /\ calls[c] = Idle /\ calls' = [calls EXCEPT ![c] = k]
                         /\ UNCHANGED <<users, lastUser, session>>
  BY DEF APILocalLogin, k
<1>. QED
  BY <1>1, <1>2, Admitted DEF Nothing

LEMMA AdmitFine ==
    ASSUME IInv, NEW b \in Browsers, NEW stage \in {"admin", "password"}, Admit(b, stage)
    PROVE  Fine
<1>. DEFINE k == [at |-> stage, by |-> b, user |-> session[b], arg |-> None]
<1>1. k \in Call /\ k.at = stage
  BY MaxUsersAssumption DEF Call, Stages, IInv, RowsInv, CallsInv
<1>. HIDE DEF k
<1>2. PICK c \in Calls : /\ calls[c] = Idle /\ calls' = [calls EXCEPT ![c] = k]
                         /\ UNCHANGED <<users, lastUser, session>>
  BY DEF Admit, k
<1>. QED
  BY <1>1, <1>2, Admitted DEF Nothing

(* Cookies go *)
LEMMA LoggedOutFine ==
    ASSUME IInv, NEW b \in Browsers, session' = [session EXCEPT ![b] = Nobody],
           UNCHANGED <<users, lastUser, calls>>
    PROVE  Fine
<1>1. Good
  BY SameRows DEF IInv
<1>2. Nobody \in 0..lastUser'
  BY MaxUsersAssumption DEF IInv, RowsInv, Nobody
<1>3. SessionOK'
  BY <1>1, <1>2, SessionSet
<1>4. \A c \in Calls : CallOK(calls[c])'
  BY <1>1, CallStaysOK DEF Good
<1>5. CallsInv'
  BY <1>3, <1>4 DEF IInv, CallsInv, SessionOK
<1>. QED
  BY <1>1, <1>5 DEF Fine

(* A call that only goes on to another stage, with the same in hand          *)
LEMMA NextStage ==
    ASSUME IInv, Nothing, session' = session, NEW c \in Calls, NEW stage \in Stages,
           stage \in {"link", "insert"} => calls[c].at \in {"update", "link"},
           stage = "newpassword" => /\ calls[c].user \in 1..lastUser
                                    /\ ~Placeholder(calls[c].user),
           stage \in {"link", "insert", "newpassword"},
           Goes(c, stage)
    PROVE  Fine
<1>1. calls[c] \in Call /\ CallOK(calls[c])
  BY DEF IInv, CallsInv
<1>. PICK k \in Call : k = [calls[c] EXCEPT !.at = stage]
  BY <1>1 DEF Call
<1>2. k.at = stage /\ k.user = calls[c].user /\ k.arg = calls[c].arg
  BY <1>1 DEF Call
<1>3. calls' = [calls EXCEPT ![c] = k]
  BY DEF Goes
<1>4. CallOK(k)'
  BY <1>1, <1>2 DEF CallOK, Nothing, Placeholder, IsSystem
<1>. QED
  BY <1>3, <1>4, NothingGood, SessionStays, CallGoes
LEMMA UpsertUpdateFine ==
    ASSUME IInv, NEW c \in Calls, UpsertUpdate(c)
    PROVE  Fine
<1>. DEFINE g == calls[c].arg
<1>1. calls[c].at = "update" /\ g \in Subs
  BY DEF UpsertUpdate, IInv, CallsInv, CallOK
<1>2. ASSUME NEW u \in WithSub(g), ~users[u].disabled,
             Update(u, [users[u] EXCEPT !.email = g, !.admin = @ \/ g \in Bootstrap]),
             LoggedIn(c, u)
      PROVE  Fine
  <2>. DEFINE row == [users[u] EXCEPT !.email = g, !.admin = @ \/ g \in Bootstrap]
  <2>1. /\ u \in DOMAIN users /\ users[u] \in User /\ users[u].sub = g
        /\ u \in 0..lastUser' /\ lastUser' = lastUser
    BY <1>2, MaxUsersAssumption DEF WithSub, IInv, RowsInv, Update
  <2>2. users[u].login = None
    BY <1>1, <2>1, NamesAssumption DEF IInv, RowsInv, Identities
  <2>3. /\ row \in User /\ row.sub = users[u].sub /\ row.login = users[u].login
        /\ row.hash = users[u].hash /\ row.disabled = users[u].disabled
    BY <1>1, <2>1 DEF User
  <2>4. users' = [users EXCEPT ![u] = row]
    BY <1>2 DEF Update
  <2>. HIDE DEF row
  <2>5. Good
    BY <2>1, <2>2, <2>3, <2>4, UpdatedRow DEF IInv, IsSystem, None, PlaceholderName
  <2>. QED
    BY <1>1, <1>2, <2>1, <2>5, CallLogsIn
<1>3. CASE Nothing /\ Ends(c) /\ UNCHANGED session
  BY <1>1, <1>3, NothingGood, CallEnds
<1>4. CASE Goes(c, "link") /\ Nothing /\ UNCHANGED session
  BY <1>1, <1>4, NextStage DEF Stages
<1>. QED
  BY <1>2, <1>3, <1>4 DEF UpsertUpdate

LEMMA UpsertLinkFine ==
    ASSUME IInv, NEW c \in Calls, UpsertLink(c)
    PROVE  Fine
<1>. DEFINE g == calls[c].arg
<1>1. calls[c].at = "link" /\ g \in Subs
  BY DEF UpsertLink, IInv, CallsInv, CallOK
<1>2. ASSUME NEW u \in PreparedFor(g), WithSub(g) = {}, MayLink(u),
             Update(u, [GoogleRow(g) EXCEPT !.admin = @ \/ users[u].admin,
                                            !.disabled = users[u].disabled]),
             LoggedIn(c, u)
      PROVE  Fine
  <2>. DEFINE row == [GoogleRow(g) EXCEPT !.admin = @ \/ users[u].admin,
                                         !.disabled = users[u].disabled]
  <2>1. /\ u \in DOMAIN users /\ users[u] \in User /\ OwnLocalUser(u)
        /\ u \in 0..lastUser' /\ lastUser' = lastUser
    BY <1>2, MaxUsersAssumption DEF PreparedFor, IInv, RowsInv, Update
  <2>2. GoogleRow(g) \in User
    BY <1>1 DEF GoogleRow, User
  <2>3. /\ row \in User /\ row.sub = g /\ row.login = None
        /\ row.hash = None /\ row.disabled = users[u].disabled
    BY <1>1, <2>1, <2>2 DEF GoogleRow, User
  <2>4. users' = [users EXCEPT ![u] = row] /\ ~Locked(u) /\ ~users[u].disabled
    BY <1>2 DEF Update, MayLink
  <2>. HIDE DEF row
  <2>5. Good
    BY <1>1, <1>2, <2>1, <2>3, <2>4, LinkedRow DEF IInv
  <2>. QED
    BY <1>1, <1>2, <2>1, <2>5, CallLogsIn
<1>3. CASE Goes(c, "insert") /\ Nothing /\ UNCHANGED session
  BY <1>1, <1>3, NextStage DEF Stages
<1>4. CASE Ends(c) /\ Nothing /\ UNCHANGED session
  BY <1>1, <1>4, NothingGood, CallEnds
<1>. QED
  BY <1>2, <1>3, <1>4 DEF UpsertLink

LEMMA UpsertInsertFine ==
    ASSUME IInv, NEW c \in Calls, UpsertInsert(c)
    PROVE  Fine
<1>. DEFINE g == calls[c].arg
<1>1. calls[c].at = "insert" /\ g \in Subs
  BY DEF UpsertInsert, IInv, CallsInv, CallOK
<1>2. ASSUME WithSub(g) = {}, Insert(users, GoogleRow(g)), LoggedIn(c, lastUser + 1)
      PROVE  Fine
  <2>. DEFINE row == GoogleRow(g)
  <2>1. /\ row \in User /\ row.sub = g /\ row.login = None
        /\ row.hash = None /\ row.hash # "invalid" /\ ~row.disabled
    BY <1>1 DEF GoogleRow, User, None
  <2>2. g # None
    BY <1>1, NamesAssumption
  <2>3. Insert(users, row)
    BY <1>2
  <2>. HIDE DEF row
  <2>4. Good
    BY <1>2, <2>1, <2>2, <2>3, NewRow DEF IInv
  <2>5. lastUser + 1 \in 0..lastUser'
    BY <1>2, MaxUsersAssumption DEF Insert, IInv, RowsInv
  <2>. QED
    BY <1>1, <1>2, <2>4, <2>5, CallLogsIn
<1>3. CASE Ends(c) /\ Nothing /\ UNCHANGED session
  BY <1>1, <1>3, NothingGood, CallEnds
<1>. QED
  BY <1>2, <1>3 DEF UpsertInsert

LEMMA AuthenticateFine ==
    ASSUME IInv, NEW c \in Calls, AuthenticateLocalUser(c)
    PROVE  Fine
<1>. DEFINE u == calls[c].user
<1>1. calls[c].at = "login" /\ Nothing
  BY DEF AuthenticateLocalUser
<1>2. CASE u \in DOMAIN users /\ LoggedIn(c, u)
  <2>1. u \in 0..lastUser'
    BY <1>1, <1>2, MaxUsersAssumption DEF Nothing, IInv, RowsInv
  <2>. QED
    BY <1>1, <1>2, <2>1, NothingGood, CallLogsIn
<1>3. CASE Ends(c) /\ UNCHANGED session
  BY <1>1, <1>3, NothingGood, CallEnds
<1>. QED
  BY <1>2, <1>3 DEF AuthenticateLocalUser
-----------------------------------------------------------------------------
(* The steps one by one: what an admin does, and what happens to a password  *)

LEMMA CreateLocalUserFine ==
    ASSUME IInv, NEW c \in Calls, NEW login \in Logins, NEW admin \in BOOLEAN,
           NEW must \in BOOLEAN, CreateLocalUser(c, login, admin, must)
    PROVE  Fine
<1>. DEFINE row == [sub |-> None, login |-> login, email |-> Synthetic, hash |-> "given",
                    admin |-> admin, must |-> must, disabled |-> FALSE]
<1>1. /\ row \in User /\ row.sub = None /\ row.login = login
      /\ row.hash # None /\ row.hash # "invalid" /\ ~row.disabled
  BY DEF User, None
<1>2. login # None
  BY NamesAssumption
<1>3. Insert(users, row) /\ ~LoginTaken(login) /\ Ends(c) /\ session' = session
  BY DEF CreateLocalUser
<1>. HIDE DEF row
<1>4. Good
  BY <1>1, <1>2, <1>3, NewRow DEF IInv
<1>. QED
  BY <1>3, <1>4, CallEnds

(* One account is only read, and worked on in a later step *)
LEMMA AdminUpdateLocalUserFine ==
    ASSUME IInv, NEW c \in Calls, NEW u \in DOMAIN users, AdminUpdateLocalUser(c, u)
    PROVE  Fine
<1>1. calls[c] \in Call /\ u \in 1..lastUser /\ u \in 0..MaxUsers
  BY MaxUsersAssumption DEF IInv, CallsInv, RowsInv
<1>. PICK k \in Call : k = [calls[c] EXCEPT !.at = "patch", !.user = u]
  BY <1>1 DEF Call, Stages
<1>2. k.at = "patch" /\ k.user = u
  BY <1>1 DEF Call
<1>3. calls' = [calls EXCEPT ![c] = k] /\ Nothing /\ session' = session
  BY DEF AdminUpdateLocalUser
<1>4. ~Placeholder(u)
  BY DEF AdminUpdateLocalUser, OwnLocalUser, Placeholder, IsSystem
<1>5. CallOK(k)'
  BY <1>1, <1>2, <1>3, <1>4 DEF CallOK, Nothing, Placeholder, IsSystem
<1>. QED
  BY <1>3, <1>5, NothingGood, SessionStays, CallGoes

LEMMA PrepareGoogleFine ==
    ASSUME IInv, NEW c \in Calls, NEW u \in DOMAIN users, NEW g \in Subs,
           PrepareGoogle(c, u, g)
    PROVE  Fine
<1>1. calls[c] \in Call /\ u \in 0..MaxUsers
  BY MaxUsersAssumption DEF IInv, CallsInv, RowsInv
<1>. PICK k \in Call : k = [calls[c] EXCEPT !.at = "address", !.user = u, !.arg = g]
  BY <1>1 DEF Call, Stages
<1>2. k.at = "address" /\ k.user = u /\ k.arg = g
  BY <1>1 DEF Call
<1>3. calls' = [calls EXCEPT ![c] = k] /\ Nothing /\ session' = session /\ OwnLocalUser(u)
  BY DEF PrepareGoogle
<1>4. OwnLocalUser(u)'
  BY <1>3 DEF OwnLocalUser, LocalUser, Nothing
<1>5. CallOK(k)'
  BY <1>2, <1>4 DEF CallOK
<1>. QED
  BY <1>3, <1>5, NothingGood, SessionStays, CallGoes

LEMMA AdminSetUserRolesFine ==
    ASSUME IInv, NEW c \in Calls, NEW u \in DOMAIN users, NEW admin \in BOOLEAN,
           AdminSetUserRoles(c, u, admin)
    PROVE  Fine
<1>. DEFINE row == [users[u] EXCEPT !.admin = admin]
<1>1. users[u] \in User
  BY DEF IInv, RowsInv
<1>2. /\ row \in User /\ row.sub = users[u].sub /\ row.login = users[u].login
      /\ row.hash = users[u].hash /\ row.disabled = users[u].disabled
  BY <1>1 DEF User
<1>3. /\ users' = [users EXCEPT ![u] = row] /\ lastUser' = lastUser
      /\ ~IsSystem(u)
      /\ Ends(c) /\ session' = session
  BY DEF AdminSetUserRoles, Update
<1>. HIDE DEF row
<1>4. Good
  BY <1>2, <1>3, UpdatedRow DEF IInv
<1>. QED
  BY <1>3, <1>4, CallEnds

LEMMA AdminSetUserDisabledFine ==
    ASSUME IInv, NEW c \in Calls, NEW u \in DOMAIN users, NEW value \in BOOLEAN,
           AdminSetUserDisabled(c, u, value)
    PROVE  Fine
<1>1. /\ users' = [users EXCEPT ![u] = [users[u] EXCEPT !.disabled = value]]
      /\ lastUser' = lastUser
      /\ ~value => ~IsSystem(u)
      /\ Ends(c) /\ session' = session
  BY DEF AdminSetUserDisabled, Update
<1>2. Good
  BY <1>1, ActivatedRow DEF IInv
<1>. QED
  BY <1>1, <1>2, CallEnds

(* An address is written to a row, be it one's own *)
LEMMA AddressFine ==
    ASSUME IInv, NEW c \in Calls, NEW u \in DOMAIN users, NEW row \in User,
           ~IsSystem(u), users' = [users EXCEPT ![u] = row],
           row.sub = users[u].sub, row.login = users[u].login, row.hash = users[u].hash,
           row.disabled = users[u].disabled, row.admin = users[u].admin,
           lastUser' = lastUser, Ends(c), session' = session
    PROVE  Fine
<1>2. Good
  BY UpdatedRow DEF IInv
<1>. QED
  BY <1>2, CallEnds

LEMMA AddressRow ==
    ASSUME NEW r \in User, NEW email \in Subs \cup {Synthetic}
    PROVE  \E row \in User :
             /\ row = [r EXCEPT !.email = email]
             /\ row.sub = r.sub /\ row.login = r.login /\ row.hash = r.hash
             /\ row.disabled = r.disabled /\ row.admin = r.admin
<1>. DEFINE row == [r EXCEPT !.email = email]
<1>1. row \in User
  BY DEF User
<1>2. /\ row.sub = r.sub /\ row.login = r.login /\ row.hash = r.hash
      /\ row.disabled = r.disabled /\ row.admin = r.admin
  BY DEF User
<1>3. row = [r EXCEPT !.email = email]
  OBVIOUS
<1>. HIDE DEF row
<1>. QED
  BY <1>1, <1>2, <1>3

LEMMA AdminSetLocalUserGoogleEmailFine ==
    ASSUME IInv, NEW c \in Calls, AdminSetLocalUserGoogleEmail(c)
    PROVE  Fine
<1>. DEFINE u == calls[c].user
<1>1. CallOK(calls[c]) /\ calls[c].at = "address"
  BY DEF IInv, CallsInv, AdminSetLocalUserGoogleEmail
<1>2. OwnLocalUser(u) /\ calls[c].arg \in Subs
  BY <1>1 DEF CallOK
<1>3. u \in DOMAIN users /\ ~IsSystem(u) /\ users[u] \in User
  BY <1>2 DEF OwnLocalUser, LocalUser, IsSystem, IInv, RowsInv
<1>4. users' = [users EXCEPT ![u] = [users[u] EXCEPT !.email = calls[c].arg]]
  BY DEF AdminSetLocalUserGoogleEmail
<1>5. lastUser' = lastUser /\ Ends(c) /\ session' = session
  BY DEF AdminSetLocalUserGoogleEmail
<1>6. PICK row \in User :
             /\ row = [users[u] EXCEPT !.email = calls[c].arg]
             /\ row.sub = users[u].sub /\ row.login = users[u].login /\ row.hash = users[u].hash
             /\ row.disabled = users[u].disabled /\ row.admin = users[u].admin
  BY <1>2, <1>3, AddressRow
<1>7. users' = [users EXCEPT ![u] = row]
  BY <1>4, <1>6
<1>. QED
  BY <1>3, <1>5, <1>6, <1>7, AddressFine

LEMMA UnprepareGoogleFine ==
    ASSUME IInv, NEW c \in Calls, NEW u \in DOMAIN users, UnprepareGoogle(c, u)
    PROVE  Fine
<1>1. ~IsSystem(u) /\ users[u] \in User
  BY DEF UnprepareGoogle, OwnLocalUser, IsSystem, IInv, RowsInv
<1>2. users' = [users EXCEPT ![u] = [users[u] EXCEPT !.email = Synthetic]]
  BY DEF UnprepareGoogle, Update
<1>3. lastUser' = lastUser /\ Ends(c) /\ session' = session
  BY DEF UnprepareGoogle, Update
<1>. QED
  BY <1>1, <1>2, <1>3, AddressRow, AddressFine

LEMMA AdminMergeFine ==
    ASSUME IInv, NEW c \in Calls, NEW u \in DOMAIN users, NEW v \in DOMAIN users,
           AdminMergeLocalUserIntoGoogle(c, u, v)
    PROVE  Fine
<1>1. /\ users' = Restrict(users, DOMAIN users \ {u}) /\ lastUser' = lastUser
      /\ OwnLocalUser(u) /\ ~Locked(u) /\ users[v].sub # None
      /\ Ends(c) /\ session' = session
  BY DEF AdminMergeLocalUserIntoGoogle
<1>2. Good
  BY <1>1, MergedRow DEF IInv
<1>. QED
  BY <1>1, <1>2, CallEnds

LEMMA AdminDeleteUserFine ==
    ASSUME IInv, NEW c \in Calls, NEW u \in DOMAIN users, AdminDeleteUser(c, u)
    PROVE  Fine
<1>. DEFINE others == Restrict(users, DOMAIN users \ {u})
<1>1. /\ MayDelete(u) /\ ~Locked(u)
      /\ Ends(c) /\ session' = session
  BY DEF AdminDeleteUser
<1>2. CASE LoginTaken(PlaceholderName) /\ users' = others /\ UNCHANGED lastUser
  <2>1. Good
    BY <1>1, <1>2, DeletedRow DEF IInv
  <2>. QED
    BY <1>1, <2>1, CallEnds
<1>3. CASE ~LoginTaken(PlaceholderName) /\ Insert(others, PlaceholderRow)
  <2>1. Good
    BY <1>1, <1>3, FirstDeletion DEF IInv
  <2>2. \A v \in DOMAIN users \ {u} : v \in DOMAIN users' /\ users'[v] = users[v]
    BY <1>3, MaxUsersAssumption DEF Insert, Restrict, IInv, RowsInv
  <2>. QED
    BY <1>1, <2>1, CallEnds
<1>. QED
  BY <1>2, <1>3 DEF AdminDeleteUser

LEMMA AdminStepFine ==
    ASSUME IInv, NEW c \in Calls, AdminStep(c)
    PROVE  Fine
  BY CreateLocalUserFine, AdminUpdateLocalUserFine, AdminSetUserRolesFine,
     AdminSetUserDisabledFine, PrepareGoogleFine, UnprepareGoogleFine,
     AdminMergeFine, AdminDeleteUserFine
  DEF AdminStep

(* A password is written to a row that is still a local account              *)
LEMMA UpdateLocalUserFine ==
    ASSUME IInv, NEW c \in Calls, NEW reset \in BOOLEAN, NEW admin \in BOOLEAN,
           NEW must \in BOOLEAN, UpdateLocalUser(c, reset, admin, must)
    PROVE  Fine
<1>. DEFINE u == calls[c].user
<1>1. /\ calls[c].at = "patch" /\ Ends(c) /\ session' = session
      /\ CallOK(calls[c])
  BY DEF UpdateLocalUser, IInv, CallsInv
<1>2. CASE ~StillLocal(u)
  BY <1>1, <1>2, NothingGood, CallEnds DEF UpdateLocalUser
<1>3. CASE StillLocal(u)
  <2>. DEFINE row == [users[u] EXCEPT !.hash = IF reset THEN "given" ELSE users[u].hash,
                                     !.admin = admin, !.must = reset \/ must]
  <2>1. /\ u \in DOMAIN users /\ users[u] \in User /\ users[u].login # None
        /\ ~Placeholder(u)
    BY <1>1, <1>3 DEF StillLocal, LocalUser, IInv, RowsInv, CallOK
  <2>2. users[u].hash # None
    BY <2>1 DEF IInv, RowsInv, Identities
  <2>3. /\ row \in User /\ row.sub = users[u].sub /\ row.login = users[u].login
        /\ row.disabled = users[u].disabled
    BY <2>1 DEF User
  <2>4. row.hash # None /\ row.hash \in {"given", users[u].hash}
    BY <2>1, <2>2 DEF User, None
  <2>5. users' = [users EXCEPT ![u] = row] /\ lastUser' = lastUser
    BY <1>3 DEF UpdateLocalUser, Update
  <2>. HIDE DEF row
  <2>6. Good
    BY <2>1, <2>2, <2>3, <2>4, <2>5, UpdatedRow DEF IInv, Placeholder
  <2>. QED
    BY <1>1, <2>6, CallEnds
<1>. QED
  BY <1>2, <1>3

LEMMA ReadOwnHashFine ==
    ASSUME IInv, NEW c \in Calls, ReadOwnHash(c)
    PROVE  Fine
<1>. DEFINE u == calls[c].user
<1>1. calls[c].at = "password" /\ Nothing /\ session' = session
  BY DEF ReadOwnHash
<1>2. CASE Ends(c)
  BY <1>1, <1>2, NothingGood, CallEnds
<1>3. CASE LocalUser(u) /\ users[u].hash \in {"given", "own"} /\ Goes(c, "newpassword")
  <2>1. u \in 1..lastUser /\ ~Placeholder(u)
    BY <1>3 DEF LocalUser, Placeholder, IInv, RowsInv
  <2>. QED
    BY <1>1, <1>3, <2>1, NextStage DEF Stages
<1>. QED
  BY <1>2, <1>3 DEF ReadOwnHash

LEMMA ChangeOwnLocalPasswordFine ==
    ASSUME IInv, NEW c \in Calls, ChangeOwnLocalPassword(c)
    PROVE  Fine
<1>. DEFINE u == calls[c].user
<1>1. /\ calls[c].at = "newpassword" /\ Ends(c) /\ session' = session
      /\ CallOK(calls[c])
  BY DEF ChangeOwnLocalPassword, IInv, CallsInv
<1>2. CASE ~StillLocal(u)
  BY <1>1, <1>2, NothingGood, CallEnds DEF ChangeOwnLocalPassword
<1>3. CASE StillLocal(u)
  <2>. DEFINE row == [users[u] EXCEPT !.hash = "own", !.must = FALSE]
  <2>1. /\ u \in DOMAIN users /\ users[u] \in User /\ users[u].login # None
        /\ ~Placeholder(u)
    BY <1>1, <1>3 DEF StillLocal, LocalUser, IInv, RowsInv, CallOK
  <2>2. users[u].hash # None
    BY <2>1 DEF IInv, RowsInv, Identities
  <2>3. /\ row \in User /\ row.sub = users[u].sub /\ row.login = users[u].login
        /\ row.disabled = users[u].disabled
        /\ row.hash # None /\ row.hash = "own"
    BY <2>1 DEF User, None
  <2>4. users' = [users EXCEPT ![u] = row] /\ lastUser' = lastUser
    BY <1>3 DEF ChangeOwnLocalPassword, Update
  <2>. HIDE DEF row
  <2>5. Good
    BY <2>1, <2>2, <2>3, <2>4, UpdatedRow DEF IInv, Placeholder
  <2>. QED
    BY <1>1, <2>5, CallEnds
<1>. QED
  BY <1>2, <1>3

LEMMA AbortFine ==
    ASSUME IInv, NEW c \in Calls, Abort(c)
    PROVE  Fine
  BY NothingGood, CallEnds DEF Abort

-----------------------------------------------------------------------------
(* Every step                                                                *)

LEMMA StepFine ==
    ASSUME IInv, [Next]_vars
    PROVE  IInv' /\ LifeStep /\ PlaceholderStays
<1>1. CASE UNCHANGED vars
  <2>1. Good
    BY <1>1, SameRows DEF vars, IInv
  <2>2. CallsInv'
    BY <1>1 DEF vars, IInv, CallsInv, CallOK, OwnLocalUser, LocalUser, Placeholder, IsSystem
  <2>. QED
    BY <2>1, <2>2 DEF Good, IInv
<1>2. CASE Next
  <2>1. ASSUME NEW b \in Browsers, Logout(b) \/ Refuse(b) PROVE Fine
    BY <2>1, LoggedOutFine DEF Logout, Refuse
  <2>2. Fine
    BY <1>2, <2>1, GoogleCallbackFine, APILocalLoginFine, AdmitFine, UpsertUpdateFine,
       UpsertLinkFine, UpsertInsertFine, AuthenticateFine, AdminStepFine,
       UpdateLocalUserFine, AdminSetLocalUserGoogleEmailFine, ReadOwnHashFine,
       ChangeOwnLocalPasswordFine, AbortFine
    DEF Next
  <2>. QED
    BY <2>2 DEF Fine, Good, IInv
<1>. QED
  BY <1>1, <1>2

LEMMA InitFine ==
    ASSUME Init
    PROVE  IInv /\ Life!LifeInit
<1>1. DOMAIN users = {} /\ lastUser = 0
  BY DEF Init
<1>2. RowsInv
  BY <1>1, MaxUsersAssumption DEF Init, RowsInv, Identities, Untouched
<1>3. CallOK(Idle)
  BY MaxUsersAssumption DEF CallOK, Idle, Call, Stages, None, Nobody
<1>4. CallsInv
  BY <1>1, <1>3, MaxUsersAssumption DEF Init, CallsInv, CallOK, Nobody
<1>5. \A u \in Ids : LifeOf(u) = "none"
  BY <1>1, <1>2, LifeIs, MaxUsersAssumption DEF Ids
<1>. QED
  BY <1>1, <1>2, <1>4, <1>5 DEF IInv, Life!LifeInit

LEMMA Invariance == Spec => []IInv
<1>1. Init => IInv
  BY InitFine
<1>2. IInv /\ [Next]_vars => IInv'
  BY StepFine
<1>. QED
  BY <1>1, <1>2, PTL DEF Spec

(* Rows, sessions and calls are of their types, whatever is in flight.       *)
THEOREM TypeCorrect == Spec => []TypeOK
<1>1. IInv => TypeOK
  BY DEF IInv, RowsInv, CallsInv, TypeOK
<1>. QED
  BY <1>1, Invariance, PTL

(* Every account is either a Google or a local one, and alone in its         *)
(* identity: linking, resetting a password and changing one's own, in any    *)
(* order and number, never break users_auth_kind_check; that two rows do not *)
(* share an identity rests on the unique indexes at the INSERT and the link. *)
THEOREM IdentitiesKept == Spec => []Identities
<1>1. IInv => Identities
  BY DEF IInv, RowsInv
<1>. QED
  BY <1>1, Invariance, PTL

(* No call on accounts changes or removes the row that AdminDeleteUser made  *)
(* for deleted members (users_lifecycle.go), not even one that chose its row *)
(* before it was there, and whatever other account has been given its name.  *)
THEOREM PlaceholderKept == Spec => PlaceholderUntouchable
<1>. DEFINE Step == \A u \in DOMAIN users :
                      Placeholder(u) => u \in DOMAIN users' /\ users'[u] = users[u]
<1>1. IInv /\ [Next]_vars => [Step]_vars
  BY StepFine DEF PlaceholderStays
<1>. HIDE DEF Step
<1>2. Spec => [][Step]_vars
  BY <1>1, Invariance, PTL DEF Spec
<1>. QED
  BY <1>2 DEF PlaceholderUntouchable, Step

(* Accounts implements MemberLife: seen from the knipjes administration, the *)
(* calls in flight do to an account only what its life allows.               *)
THEOREM LivesImplemented == Spec => Implements
<1>1. Init => Life!LifeInit
  BY InitFine
<1>2. IInv /\ [Next]_vars => [Life!LifeNext]_(Life!lifeVars)
  BY StepFine DEF LifeStep
<1>. QED
  BY <1>1, <1>2, Invariance, PTL DEF Spec, Implements, Life!LifeSpec
=============================================================================
