\* Accounts replaced, wiped and used by others at the same time, with what they own.
CONSTANTS
    UserID = {u1, u2, u3}
    SessionID = {s1, s2}
    ChirpID = {c1}
    Email = {e1, e2}
    Password = {p1}
    Nil = Nil
    Request = {r1, r2}
    Endpoints = {"signup", "put", "login", "chirp", "unchirp", "read", "list", "reset"}
    Platform = "dev"
    Requested <- MCNoExpiry
    AccessTTL = 1
    SessionTTL = 2
    MaxTime = 1
    MaxFaults = 1
    MaxVisits = 0
SPECIFICATION Spec
SYMMETRY Symmetry
INVARIANTS SchemaHolds ClosedStaysClosed
PROPERTIES KeepsLedger ChirpsAreAuthored OnlyAuthorsDeleteChirps OnlyStalePutsMisdelete
