\* Three rows, two calls in flight: an admin, a local member and Google logins
CONSTANTS
    Subs = {"g1", "g2"}
    Bootstrap = {"g1"}
    Logins = {"anna", "verwijderd-lid"}
    Browsers = {"b1"}
    Calls = {c1, c2}
    MaxUsers = 3
SYMMETRY CallSymmetry
SPECIFICATION Spec
CONSTRAINT PlainReserved
INVARIANTS
    TypeOK
    Identities
PROPERTIES
    Implements
    PlaceholderUntouchable
