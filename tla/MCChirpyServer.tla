--------------------------- MODULE MCChirpyServer ---------------------------
(* Values TLC needs for ChirpyServer: symmetry sets and the integers that   *)
(* a configuration file cannot write.                                       *)
EXTENDS ChirpyProgress, TLC

\* expires_in_seconds: absent (0), negative, below and above AccessTTL.
MCRequested == {-1, 0, 1, 5}
MCNoExpiry  == {0}

\* Requests, account and session ids, and chirp ids, are interchangeable;
\* no property run with symmetry is a liveness property.
Symmetry == Permutations(Request) \cup Permutations(UserID)
            \cup Permutations(SessionID) \cup Permutations(ChirpID)
            \cup Permutations(Email) \cup Permutations(Password)
=============================================================================
