\* Two posts at a time, three chirps, two authors, two microseconds.
CONSTANTS
    Poster = {p1, p2}
    Author = {u1, u2}
    ChirpID = {c1, c2, c3}
    MaxTime = 1
SPECIFICATION Spec
SYMMETRY Symmetry
INVARIANT RepliesFollow
CHECK_DEADLOCK FALSE
