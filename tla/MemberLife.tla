----------------------------- MODULE MemberLife -----------------------------
(***************************************************************************)
(* What the life of a row of table users may be, seen from outside: how it *)
(* is created, linked to Google, deactivated, merged and deleted.  It is   *)
(* the abstract specification of the accounts: Members composes it with    *)
(* the knipjes administration, and Accounts, which has the columns of the  *)
(* rows, the sessions and the requests in flight, implements it.           *)
(***************************************************************************)

CONSTANT Members    \* ids of rows of users; BIGSERIAL, never used twice

VARIABLES
    life,       \* what the row with an id is
    disabled    \* rows with users.disabled_at

lifeVars == <<life, disabled>>

(* "reserved": a local account that an admin created with the username of  *)
(* the placeholder, which nothing refuses                                  *)
Lives == {"none", "local", "google", "placeholder", "reserved", "gone"}

Is(kind) == {u \in Members : life[u] = kind}

(* The row with the username of the placeholder "Verwijderde leden" *)
System == Is("placeholder") \cup Is("reserved")

(* Accounts that admins may change *)
Editable == Is("local") \cup Is("google")

(* Accounts of people; the placeholder that a deletion made is none *)
People == Editable \cup Is("reserved")

Existing == Editable \cup System

LifeInit == life = [u \in Members |-> "none"] /\ disabled = {}

(* CreateLocalUser, and UpsertUser at the first Google login *)
CreateUser(u, kind) ==
    /\ life[u] = "none"
    /\ kind \in {"local", "google", "reserved"}
    /\ kind = "reserved" => System = {}
    /\ life' = [life EXCEPT ![u] = kind]
    /\ UNCHANGED disabled

(* UpsertUser at the first Google login with an address that was prepared  *)
(* on a local account                                                      *)
LinkGoogle(u) ==
    /\ life[u] = "local"
    /\ u \notin disabled
    /\ life' = [life EXCEPT ![u] = "google"]
    /\ UNCHANGED disabled

(* The row with the placeholder's name can be deactivated, not activated *)
AdminSetUserDisabled(u, value) ==
    /\ u \in IF value THEN Existing ELSE Editable
    /\ disabled' = IF value THEN disabled \cup {u} ELSE disabled \ {u}
    /\ UNCHANGED life

(* The heir of a deleted member: whatever row has the placeholder's name,  *)
(* and where there is none, one that is inserted, deactivated              *)
IsHeir(p) == IF System = {} THEN life[p] = "none" ELSE p \in System

DeleteUser(u, p) ==
    /\ u \in Editable
    /\ u \in disabled
    /\ IsHeir(p)
    /\ life' = [life EXCEPT ![u] = "gone",
                            ![p] = IF System = {} THEN "placeholder" ELSE @]
    /\ disabled' = (disabled \ {u}) \cup IF System = {} THEN {p} ELSE {}

MergeUsers(source, target) ==
    /\ life[source] = "local"
    /\ life[target] = "google"
    /\ life' = [life EXCEPT ![source] = "gone"]
    /\ disabled' = disabled \ {source}

LifeNext ==
    \/ \E u \in Members, kind \in {"local", "google", "reserved"} : CreateUser(u, kind)
    \/ \E u \in Members : LinkGoogle(u)
    \/ \E u \in Members, value \in BOOLEAN : AdminSetUserDisabled(u, value)
    \/ \E u, p \in Members : DeleteUser(u, p)
    \/ \E source, target \in Members : MergeUsers(source, target)

LifeSpec == LifeInit /\ [][LifeNext]_lifeVars
=============================================================================
