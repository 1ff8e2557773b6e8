------------------------ MODULE MCPostgresRepository ------------------------
(* Symmetry for PostgresRepository.                                         *)
EXTENDS PostgresRepository, TLC

Symmetry == Permutations(Caller) \cup Permutations(UserID) \cup Permutations(Email)
            \cup Permutations(SessionID) \cup Permutations(ChirpID)
=============================================================================
