\* Login, refresh and revoke against resets, visits and the webhook while time passes.
CONSTANTS
    UserID = {u1, u2}
    SessionID = {s1}
    ChirpID = {c1}
    Email = {e1}
    Password = {p1}
    Nil = Nil
    Request = {r1, r2}
    Endpoints = {"signup", "login", "refresh", "revoke", "reset", "webhook", "app"}
    Platform = "dev"
    Requested <- MCRequested
    AccessTTL = 2
    SessionTTL = 1
    MaxTime = 2
    MaxFaults = 1
    MaxVisits = 2
SPECIFICATION Spec
SYMMETRY Symmetry
INVARIANTS TypeOK ClosedStaysClosed AccessIsShort ResetCountsAfresh
PROPERTY LateRefreshFails
