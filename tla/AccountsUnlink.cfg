\* The admin g1 prepares the link of a local account and removes it again
CONSTANTS
    Subs = {"g1", "g2"}
    Bootstrap = {"g1"}
    Logins = {"anna"}
    Browsers = {"b1"}
    Desk = "b1"
    Calls = {c1}
    MaxUsers = 3
SPECIFICATION PageSpec
PROPERTIES
    RemovedIsRemoved
