--------------------------- MODULE MCChirpListing ---------------------------
(* Symmetry for ChirpListing.                                               *)
EXTENDS ChirpListing, TLC

Symmetry == Permutations(Poster) \cup Permutations(Author) \cup Permutations(ChirpID)
=============================================================================
