\* Every method, two goroutines; RevokeSession stops them all, so the system may end.
CONSTANTS
    Thread = {t1, t2}
    UserID = {u1, u2}
    SessionID = {s1}
    ChirpID = {c1}
    Email = {e1, e2}
    Nil = Nil
    NoThread = NoThread
    MaxIds = 2
SPECIFICATION FairSpec
INVARIANTS TypeOK CredentialsFound OnlyTwoMethodsRace NoCircle
PROPERTIES KeepsLedger CallsReturn
CHECK_DEADLOCK FALSE
