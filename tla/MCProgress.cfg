\* Requests under fair handlers; liveness, hence without symmetry.
CONSTANTS
    UserID = {u1, u2, u3}
    SessionID = {s1}
    ChirpID = {c1}
    Email = {e1, e2}
    Password = {p1}
    Nil = Nil
    Request = {r1, r2}
    Endpoints = {"signup", "put", "login", "refresh", "reset"}
    Platform = "dev"
    Requested <- MCNoExpiry
    AccessTTL = 1
    SessionTTL = 2
    MaxTime = 0
    MaxFaults = 1
    MaxVisits = 0
SPECIFICATION FairSpec
PROPERTIES RequestsAnswered PutEndsWithOne
