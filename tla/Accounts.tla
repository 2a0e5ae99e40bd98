------------------------------ MODULE Accounts ------------------------------
(***************************************************************************)
(* Accounts in detail: the rows of table users with the columns that decide*)
(* who logs in as whom, the session cookies, and the API calls in flight   *)
(* that the middleware let in on what it read of the row at the time.      *)
(*                                                                         *)
(* A call is admitted in one step (middleware) and runs in later ones, one *)
(* per statement where the code uses several outside a lock.  Arguments are*)
(* chosen at the step that first uses them.  Calls that return an error    *)
(* only end.  It implements MemberLife (Implements).                       *)
(*                                                                         *)
(* is_operator is set wherever is_admin is and gates none of these         *)
(* operations; names and the matroos-jeugd flag are in Members or left out.*)
(***************************************************************************)
EXTENDS Integers, Functions, FiniteSets

CONSTANTS
    Subs,       \* Google identities in the club's domain; each has one address
    Bootstrap,  \* identities whose address is in BOOTSTRAP_ADMIN_EMAILS
    Logins,     \* usernames that admins give to local accounts
    Browsers,   \* each has at most one session cookie
    Calls,      \* slots for API calls in flight
    MaxUsers    \* bound: rows of users ever created

ASSUME BootstrapAssumption == Bootstrap \subseteq Subs
ASSUME MaxUsersAssumption == MaxUsers \in Nat

VARIABLES
    users,      \* table users
    lastUser,   \* users_id_seq
    session,    \* user_id in the cookie of each browser
    calls       \* the calls in flight

vars == <<users, lastUser, session, calls>>

Nobody == 0
None == "NULL"
Synthetic == "@local.lunchkraam"      \* the address made from the username
PlaceholderName == "verwijderd-lid"

(* Neither admins nor Google give these names: an empty username is refused, *)
(* an address at local.lunchkraam is not in the club's domain.  Nothing      *)
(* refuses the placeholder's name (localUsernamePattern, local_staff.go), so *)
(* it may be one of Logins.                                                  *)
ASSUME NamesAssumption == None \notin Logins /\ None \notin Subs /\ Synthetic \notin Subs

Ids == 1..MaxUsers

User == [sub: Subs \cup {None},
         login: Logins \cup {PlaceholderName, None},
         email: Subs \cup {Synthetic},          \* the address of an identity, or synthetic
         hash: {None, "invalid", "given", "own"}, \* of no password, or of one set by whom
         admin: BOOLEAN, must: BOOLEAN, disabled: BOOLEAN]

(* What a call does next.  "upsert" steps are UpsertUser's statements.     *)
Stages == {"idle", "login", "update", "link", "insert", "admin",
           "patch", "address", "password", "newpassword"}

Call == [at: Stages,
         by: Browsers \cup {None},
         user: 0..MaxUsers,         \* the actor, or the row the call works on
         arg: Subs \cup {None}]     \* the Google identity or address

Idle == [at |-> "idle", by |-> None, user |-> Nobody, arg |-> None]

LocalUser(u) == u \in DOMAIN users /\ users[u].login # None

(* A local account without the placeholder's name *)
OwnLocalUser_Any(u) == LocalUser(u)
OwnLocalUser(u) == LocalUser(u) /\ users[u].login # PlaceholderName

IsSystem(u) == u \in DOMAIN users /\ users[u].login = PlaceholderName

(* The row that a deletion made, and one that an admin gave the name *)
Placeholder(u) == IsSystem(u) /\ users[u].hash = "invalid"
Reserved(u) == IsSystem(u) /\ users[u].hash # "invalid"

(* AdminSetLocalUserGoogleEmail holds the row FOR UPDATE between its look  *)
(* for the address and its UPDATE; writers of that row wait.               *)
Locked(u) == \E c \in Calls : calls[c].at = "address" /\ calls[c].user = u

Goes(c, stage) == calls' = [calls EXCEPT ![c].at = stage]
Ends(c) == calls' = [calls EXCEPT ![c] = Idle]

(* INSERT INTO table rows, a users table *)
Insert(rows, row) ==
    /\ lastUser < MaxUsers
    /\ lastUser' = lastUser + 1
    /\ users' = [u \in DOMAIN rows \cup {lastUser + 1} |->
                   IF u = lastUser + 1 THEN row ELSE rows[u]]

Update(u, row) ==
    /\ ~Locked(u)
    /\ users' = [users EXCEPT ![u] = row]
    /\ UNCHANGED lastUser

Nothing == UNCHANGED <<users, lastUser>>

-----------------------------------------------------------------------------
(* Logging in *)

GoogleRow_NoAddress(g) ==
    [sub |-> g, login |-> None, email |-> None, hash |-> None,
     admin |-> g \in Bootstrap, must |-> FALSE, disabled |-> FALSE]

GoogleRow(g) == [sub |-> g, login |-> None, email |-> g, hash |-> None,
                 admin |-> g \in Bootstrap, must |-> FALSE, disabled |-> FALSE]

LoggedIn(c, u) ==
    /\ session' = [session EXCEPT ![calls[c].by] = u]
    /\ Ends(c)

(* GoogleCallback for identity g: UpsertUser starts *)
GoogleCallback(b, g) ==
    \E c \in Calls :
        /\ calls[c] = Idle
        /\ calls' = [calls EXCEPT ![c] = [at |-> "update", by |-> b, user |-> Nobody, arg |-> g]]
        /\ UNCHANGED <<users, lastUser, session>>

WithSub(g) == {u \in DOMAIN users : users[u].sub = g}

(* A deactivated account is not updated and gets no session *)
UpsertUpdate(c) ==
    LET g == calls[c].arg
    IN  /\ calls[c].at = "update"
        /\ \/ \E u \in WithSub(g) :
                 /\ ~users[u].disabled
                 /\ Update(u, [users[u] EXCEPT !.email = g,
                                               !.admin = @ \/ g \in Bootstrap])
                 /\ LoggedIn(c, u)
           \/ \E u \in WithSub(g) :
                 users[u].disabled /\ Nothing /\ Ends(c) /\ UNCHANGED session
           \/ WithSub(g) = {} /\ Goes(c, "link") /\ Nothing /\ UNCHANGED session

(* Local accounts whose address an admin set to that of g *)
PreparedFor(g) ==
    {u \in DOMAIN users : /\ users[u].sub = None
                          /\ OwnLocalUser(u)
                          /\ users[u].email = g}

MayLink_Disabled(u) == TRUE
MayLink(u) == ~users[u].disabled

(* Two rows with the address, or a row that got the identity meanwhile,    *)
(* violate the unique index on google_sub.                                 *)
UpsertLink(c) ==
    LET g == calls[c].arg
    IN  /\ calls[c].at = "link"
        /\ \A u \in PreparedFor(g) : ~Locked(u)
        /\ \/ /\ PreparedFor(g) = {}
              /\ Goes(c, "insert")
              /\ Nothing /\ UNCHANGED session
           \/ \E u \in PreparedFor(g) :
                 /\ PreparedFor(g) = {u} /\ WithSub(g) = {} /\ MayLink(u)
                 /\ Update(u, [GoogleRow(g) EXCEPT !.admin = @ \/ users[u].admin,
                                                   !.disabled = users[u].disabled])
                 /\ LoggedIn(c, u)
           \/ /\ PreparedFor(g) # {}
              /\ Cardinality(PreparedFor(g)) > 1 \/ WithSub(g) # {}
                 \/ \E u \in PreparedFor(g) : ~MayLink(u)
              /\ Ends(c)
              /\ Nothing /\ UNCHANGED session

UpsertInsert(c) ==
    LET g == calls[c].arg
    IN  /\ calls[c].at = "insert"
        /\ \/ WithSub(g) = {} /\ Insert(users, GoogleRow(g)) /\ LoggedIn(c, lastUser + 1)
           \/ WithSub(g) # {} /\ Ends(c) /\ Nothing /\ UNCHANGED session

(* AuthenticateLocalUser: the password fits the hash that was read; then   *)
(* the row is read again.                                                  *)
APILocalLogin(b, u) ==
    \E c \in Calls :
        /\ calls[c] = Idle
        /\ LocalUser(u) /\ users[u].hash \in {"given", "own"}
        /\ calls' = [calls EXCEPT ![c] = [at |-> "login", by |-> b, user |-> u, arg |-> None]]
        /\ UNCHANGED <<users, lastUser, session>>

AuthenticateLocalUser(c) ==
    LET u == calls[c].user
    IN  /\ calls[c].at = "login"
        /\ Nothing
        /\ IF u \in DOMAIN users /\ ~users[u].disabled
           THEN LoggedIn(c, u)
           ELSE Ends(c) /\ UNCHANGED session

Logout(b) ==
    /\ session[b] # Nobody
    /\ session' = [session EXCEPT ![b] = Nobody]
    /\ UNCHANGED <<users, lastUser, calls>>

-----------------------------------------------------------------------------
(* The middleware: RequireUserAPI, RequireAdminAPI *)

ValidSession(b) == session[b] \in DOMAIN users /\ ~users[session[b]].disabled

Refuse(b) ==
    /\ session[b] # Nobody /\ ~ValidSession(b)
    /\ session' = [session EXCEPT ![b] = Nobody]
    /\ UNCHANGED <<users, lastUser, calls>>

(* Whoever must change the password can call nothing else *)
Admit(b, stage) ==
    \E c \in Calls :
        /\ calls[c] = Idle
        /\ ValidSession(b)
        /\ stage = "admin" => users[session[b]].admin /\ ~users[session[b]].must
        /\ calls' = [calls EXCEPT ![c] = [at |-> stage, by |-> b,
                                          user |-> session[b], arg |-> None]]
        /\ UNCHANGED <<users, lastUser, session>>

-----------------------------------------------------------------------------
(* What an admin's call does to row u *)

LoginTaken(login) == \E u \in DOMAIN users : users[u].login = login

CreateLocalUser(c, login, admin, must) ==
    /\ calls[c].at = "admin"
    /\ ~LoginTaken(login)
    /\ Insert(users, [sub |-> None, login |-> login, email |-> Synthetic, hash |-> "given",
                      admin |-> admin, must |-> must, disabled |-> FALSE])
    /\ Ends(c) /\ UNCHANGED session

(* AdminUpdateLocalUser looks at the row, hashes, and then updates *)
AdminUpdateLocalUser(c, u) ==
    /\ calls[c].at = "admin"
    /\ OwnLocalUser(u)
    /\ calls' = [calls EXCEPT ![c].at = "patch", ![c].user = u]
    /\ Nothing /\ UNCHANGED session

StillLocal_Any(u) == u \in DOMAIN users
StillLocal(u) == LocalUser(u)

(* A new password must be changed at the next login; without one the       *)
(* caller decides.                                                         *)
UpdateLocalUser(c, reset, admin, must) ==
    LET u == calls[c].user
    IN  /\ calls[c].at = "patch"
        /\ IF StillLocal(u)
           THEN Update(u, [users[u] EXCEPT !.hash = IF reset THEN "given" ELSE @,
                                           !.admin = admin,
                                           !.must = reset \/ must])
           ELSE Nothing
        /\ Ends(c) /\ UNCHANGED session

(* ErrCannotChangeSelf *)
NotMyself(c, u) == u # calls[c].user

AdminSetUserRoles(c, u, admin) ==
    /\ calls[c].at = "admin"
    /\ NotMyself(c, u) /\ ~IsSystem(u)
    /\ Update(u, [users[u] EXCEPT !.admin = admin])
    /\ Ends(c) /\ UNCHANGED session

AdminSetUserDisabled(c, u, value) ==
    /\ calls[c].at = "admin"
    /\ NotMyself(c, u)
    /\ ~value => ~IsSystem(u)
    /\ Update(u, [users[u] EXCEPT !.disabled = value])
    /\ Ends(c) /\ UNCHANGED session

(* AdminSetLocalUserGoogleEmail: the row is locked, the address looked up  *)
(* with every other account, and only then written.                        *)
Taken(email, u) == \E v \in DOMAIN users \ {u} : users[v].email = email

PrepareGoogle(c, u, email) ==
    /\ calls[c].at = "admin"
    /\ OwnLocalUser(u) /\ ~Locked(u)
    /\ ~Taken(email, u)
    /\ calls' = [calls EXCEPT ![c].at = "address", ![c].user = u, ![c].arg = email]
    /\ Nothing /\ UNCHANGED session

AdminSetLocalUserGoogleEmail(c) ==
    LET u == calls[c].user
    IN  /\ calls[c].at = "address"
        /\ users' = [users EXCEPT ![u].email = calls[c].arg]
        /\ UNCHANGED lastUser
        /\ Ends(c) /\ UNCHANGED session

(* An empty address restores the synthetic one *)
UnprepareGoogle(c, u) ==
    /\ calls[c].at = "admin"
    /\ OwnLocalUser(u)
    /\ Update(u, [users[u] EXCEPT !.email = Synthetic])
    /\ Ends(c) /\ UNCHANGED session

AdminMergeLocalUserIntoGoogle(c, source, target) ==
    /\ calls[c].at = "admin"
    /\ NotMyself(c, source) /\ NotMyself(c, target) /\ source # target
    /\ OwnLocalUser(source) /\ users[target].sub # None
    /\ ~Locked(source) /\ ~Locked(target)
    /\ users' = Restrict(users, DOMAIN users \ {source})
    /\ Ends(c) /\ UNCHANGED <<lastUser, session>>

PlaceholderRow == [sub |-> None, login |-> PlaceholderName, email |-> Synthetic,
                   hash |-> "invalid", admin |-> FALSE, must |-> FALSE, disabled |-> TRUE]

MayDelete(u) == ~IsSystem(u) /\ users[u].disabled

AdminDeleteUser(c, u) ==
    LET others == Restrict(users, DOMAIN users \ {u})
    IN  /\ calls[c].at = "admin"
        /\ NotMyself(c, u)
        /\ MayDelete(u) /\ ~Locked(u)
        /\ \/ LoginTaken(PlaceholderName) /\ users' = others /\ UNCHANGED lastUser
           \/ ~LoginTaken(PlaceholderName) /\ Insert(others, PlaceholderRow)
        /\ Ends(c) /\ UNCHANGED session

(* The call is refused, or its client goes away: the context is cancelled  *)
(* and the statement or transaction it is in is rolled back.               *)
Abort(c) ==
    /\ calls[c] # Idle
    /\ Ends(c) /\ Nothing /\ UNCHANGED session

-----------------------------------------------------------------------------
(* ChangeOwnLocalPassword: the current password fits the hash that was     *)
(* read; the new one is hashed and then written.                           *)
ReadOwnHash(c) ==
    LET u == calls[c].user
    IN  /\ calls[c].at = "password"
        /\ IF LocalUser(u) /\ users[u].hash \in {"given", "own"}
           THEN Goes(c, "newpassword") ELSE Ends(c)
        /\ Nothing /\ UNCHANGED session

ChangeOwnLocalPassword(c) ==
    LET u == calls[c].user
    IN  /\ calls[c].at = "newpassword"
        /\ IF StillLocal(u)
           THEN Update(u, [users[u] EXCEPT !.hash = "own", !.must = FALSE])
           ELSE Nothing
        /\ Ends(c) /\ UNCHANGED session

Init ==
    /\ users = << >> /\ lastUser = 0
    /\ session = [b \in Browsers |-> Nobody]
    /\ calls = [c \in Calls |-> Idle]

AdminStep(c) ==
    \/ \E login \in Logins, admin, must \in BOOLEAN : CreateLocalUser(c, login, admin, must)
    \/ \E u \in DOMAIN users : AdminUpdateLocalUser(c, u)
    \/ \E u \in DOMAIN users, admin \in BOOLEAN : AdminSetUserRoles(c, u, admin)
    \/ \E u \in DOMAIN users, value \in BOOLEAN : AdminSetUserDisabled(c, u, value)
    \/ \E u \in DOMAIN users, g \in Subs : PrepareGoogle(c, u, g)
    \/ \E u \in DOMAIN users : UnprepareGoogle(c, u)
    \/ \E u, v \in DOMAIN users : AdminMergeLocalUserIntoGoogle(c, u, v)
    \/ \E u \in DOMAIN users : AdminDeleteUser(c, u)

Next ==
    \/ \E b \in Browsers, g \in Subs : GoogleCallback(b, g)
    \/ \E b \in Browsers, u \in DOMAIN users : APILocalLogin(b, u)
    \/ \E b \in Browsers : Logout(b)
    \/ \E b \in Browsers : Refuse(b)
    \/ \E b \in Browsers, stage \in {"admin", "password"} : Admit(b, stage)
    \/ \E c \in Calls :
          \/ UpsertUpdate(c) \/ UpsertLink(c) \/ UpsertInsert(c)
          \/ AuthenticateLocalUser(c)
          \/ AdminStep(c)
          \/ \E reset, admin, must \in BOOLEAN : UpdateLocalUser(c, reset, admin, must)
          \/ AdminSetLocalUserGoogleEmail(c)
          \/ ReadOwnHash(c) \/ ChangeOwnLocalPassword(c)
          \/ Abort(c)

Spec == Init /\ [][Next]_vars

-----------------------------------------------------------------------------
(* Every row, sequence and call is of its type. *)
TypeOK ==
    /\ lastUser \in 0..MaxUsers
    /\ DOMAIN users \subseteq 1..lastUser
    /\ users \in [DOMAIN users -> User]
    /\ session \in [Browsers -> 0..lastUser]
    /\ calls \in [Calls -> Call]

(* What the database demands of a row holds without its constraints ever   *)
(* failing a statement but an INSERT or the link of UpsertUser, where the  *)
(* unique indexes decide: an account is either a Google or a local one     *)
(* (users_auth_kind_check), also when it is linked while an admin or the   *)
(* member is changing its password, and an identity or username has one    *)
(* account.                                                                *)
Identities ==
    /\ \A u \in DOMAIN users :
          IF users[u].sub = None
          THEN users[u].login # None /\ users[u].hash # None
          ELSE users[u].login = None /\ users[u].hash = None
    /\ \A u, v \in DOMAIN users :
          /\ users[u].sub = users[v].sub /\ users[u].sub # None => u = v
          /\ users[u].login = users[v].login /\ users[u].login # None => u = v

(* The rows live the lives of MemberLife, whatever calls are in flight: a  *)
(* deactivated account is never linked, an account that is not deactivated *)
(* is never deleted, a Google account is never merged away, the row with   *)
(* the placeholder's name is never activated or removed, and a deletion    *)
(* makes a placeholder only where no row has the name: the account of an   *)
(* admin's making that has it stays active and is the heir.                *)
LifeOf(u) ==
    CASE u > lastUser -> "none"
      [] u <= lastUser /\ u \notin DOMAIN users -> "gone"
      [] Placeholder(u) -> "placeholder"
      [] Reserved(u) -> "reserved"
      [] LocalUser(u) /\ ~IsSystem(u) -> "local"
      [] u \in DOMAIN users /\ ~LocalUser(u) -> "google"

Life == INSTANCE MemberLife WITH
    Members <- Ids,
    life <- [u \in Ids |-> LifeOf(u)],
    disabled <- {u \in DOMAIN users : users[u].disabled}

Implements == Life!LifeSpec

(* README.md, Rollen: the placeholder is "niet te wijzigen", by none of the*)
(* calls on accounts.  This is so of the row that AdminDeleteUser inserts. *)
PlaceholderUntouchable ==
    [][\A u \in DOMAIN users :
          Placeholder(u) => u \in DOMAIN users' /\ users'[u] = users[u]]_vars

(* What users_lifecycle.go says of the account that keeps the history of   *)
(* deleted members: "It cannot log in: its password hash is not a valid    *)
(* bcrypt hash, and it is permanently deactivated" (README.md, Rollen:     *)
(* "kan niet inloggen").  AdminDeleteUser gives the history to whatever    *)
(* row has the username, and APIAdminCreateLocalUser accepts it.           *)
HeirCannotLogIn ==
    [][\A c \in Calls, u \in DOMAIN users : AdminDeleteUser(c, u) =>
          \A v \in DOMAIN users' :
             users'[v].login = PlaceholderName =>
                users'[v].hash = "invalid" /\ users'[v].disabled]_vars
=============================================================================
