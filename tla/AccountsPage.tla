---------------------------- MODULE AccountsPage ----------------------------
(***************************************************************************)
(* The dialog "Naar Google" of Beheer -> Accounts (AdminLocalUsersPage) in *)
(* front of Accounts: one admin prepares and removes the link of a local   *)
(* account while members log in.                                           *)
(*                                                                         *)
(* A React handler sees the state of the render that made it: what it sets *)
(* is there only at the next render.  Annuleren, which closes the dialog   *)
(* and calls nothing, is left out.                                         *)
(***************************************************************************)
EXTENDS Accounts

CONSTANT Desk       \* the browser of the admin, one of Browsers

VARIABLES
    list,       \* listQuery.data: the rows as they were when fetched
    dialog,     \* googleDialogId
    field,      \* googleEmail as rendered; None is the empty string
    sent,       \* the request of saveGoogleEmail, while googleBusy
    button      \* the button that was pressed

pageVars == <<list, dialog, field, sent, button>>

NotBusy == [call |-> None, email |-> None]

Prepared(row) == row.login # None /\ row.email # Synthetic

PageInit ==
    /\ Init
    /\ list = << >> /\ dialog = Nobody /\ field = None
    /\ sent = NotBusy /\ button = None

(* GET /api/admin/users *)
LoadList ==
    /\ ValidSession(Desk) /\ users[session[Desk]].admin
    /\ list' = users
    /\ UNCHANGED <<vars, dialog, field, sent, button>>

StartGoogleDialog(u) ==
    /\ dialog = Nobody
    /\ list[u].login \notin {None, PlaceholderName}
    /\ dialog' = u
    /\ field' = IF Prepared(list[u]) THEN list[u].email ELSE None
    /\ UNCHANGED <<vars, list, sent, button>>

TypeAddress(email) ==
    /\ dialog # Nobody /\ sent = NotBusy
    /\ field' = email
    /\ UNCHANGED <<vars, list, dialog, sent, button>>

(* saveGoogleEmail sends the field of the render it belongs to *)
SaveGoogleEmail ==
    \E c \in Calls :
        /\ calls[c] = Idle /\ Admit(Desk, "admin") /\ calls'[c] # Idle
        /\ sent' = [call |-> c, email |-> field]

PressSave ==
    /\ dialog # Nobody /\ sent = NotBusy /\ field # None
    /\ SaveGoogleEmail
    /\ button' = "Koppeling klaarzetten"
    /\ UNCHANGED <<list, dialog, field>>

(* setGoogleEmail('') and then saveGoogleEmail() *)
PressRemove ==
    /\ dialog # Nobody /\ sent = NotBusy /\ Prepared(list[dialog])
    /\ field' = None
    /\ SaveGoogleEmail
    /\ button' = "Koppeling verwijderen"
    /\ UNCHANGED <<list, dialog>>

(* The server answers: with success the dialog closes *)
Answer ==
    LET c == sent.call
    IN  /\ sent # NotBusy
        /\ \/ /\ sent.email # None
              /\ PrepareGoogle(c, dialog, sent.email)
              /\ UNCHANGED pageVars
           \/ /\ \/ AdminSetLocalUserGoogleEmail(c)
                 \/ sent.email = None /\ UnprepareGoogle(c, dialog)
              /\ dialog' = Nobody /\ sent' = NotBusy
              /\ UNCHANGED <<list, field, button>>
           \/ /\ Abort(c)
              /\ sent' = NotBusy
              /\ UNCHANGED <<list, dialog, field, button>>

(* The members, and what the admin needs to get at the page *)
Others ==
    /\ \/ \E b \in Browsers, g \in Subs : GoogleCallback(b, g)
       \/ \E b \in Browsers, u \in DOMAIN users : APILocalLogin(b, u)
       \/ \E c \in Calls : \/ UpsertUpdate(c) \/ UpsertLink(c) \/ UpsertInsert(c)
                           \/ AuthenticateLocalUser(c)
       \/ sent = NotBusy /\ Admit(Desk, "admin")
       \/ \E c \in Calls \ {sent.call}, login \in Logins :
             CreateLocalUser(c, login, FALSE, TRUE)
    /\ UNCHANGED pageVars

PageNext ==
    \/ LoadList
    \/ \E u \in DOMAIN list : StartGoogleDialog(u)
    \/ \E email \in Subs \cup {None} : TypeAddress(email)
    \/ PressSave \/ PressRemove \/ Answer
    \/ Others

PageSpec == PageInit /\ [][PageNext]_<<vars, pageVars>>

(* Comment on setLocalUserGoogleEmail (adminUsers.ts) and on               *)
(* AdminSetLocalUserGoogleEmail (users_lifecycle.go): the empty address    *)
(* undoes the preparation.  When the request of the button "Koppeling      *)
(* verwijderen" succeeds, the account has its synthetic address again.     *)
RemovedIsRemoved ==
    [][dialog # Nobody /\ dialog' = Nobody /\ button = "Koppeling verwijderen" =>
          users'[dialog].email = Synthetic]_<<vars, pageVars>>
=============================================================================
