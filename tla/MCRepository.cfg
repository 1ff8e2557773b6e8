\* Two callers move and delete accounts and what they own while others come and go.
CONSTANTS
    UserID = {u1, u2}
    SessionID = {s1}
    ChirpID = {c1}
    Email = {e1, e2}
    Password = {p1}
    Nil = Nil
    Caller = {t1, t2}
    MaxFaults = 1
SPECIFICATION Spec
SYMMETRY Symmetry
INVARIANTS TypeOK AnswersAreHonest
PROPERTY KeepsLedger
