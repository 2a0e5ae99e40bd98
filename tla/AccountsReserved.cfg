\* Three rows, one call at a time: an admin, an account with the placeholder's
\* name and one that is deleted
CONSTANTS
    Subs = {"g1", "g2"}
    Bootstrap = {"g1"}
    Logins = {"anna", "verwijderd-lid"}
    Browsers = {"b1"}
    Calls = {c1}
    MaxUsers = 3
SPECIFICATION Spec
PROPERTIES
    HeirCannotLogIn
