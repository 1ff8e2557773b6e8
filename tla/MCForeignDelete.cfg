\* Two PUTs of one account and a sign-up with the address it had.
CONSTANTS
    UserID = {u1, u2, u3, u4}
    SessionID = {s1}
    ChirpID = {c1}
    Email = {e1, e2, e3}
    Password = {p1}
    Nil = Nil
    Request = {r1, r2}
    Endpoints = {"signup", "login", "put"}
    Platform = "prod"
    Requested <- MCNoExpiry
    AccessTTL = 1
    SessionTTL = 2
    MaxTime = 0
    MaxFaults = 0
    MaxVisits = 0
SPECIFICATION Spec
SYMMETRY Symmetry
PROPERTY OnlyHoldersDeleteAccounts
