---------------------------- MODULE TableLedger ----------------------------
(***************************************************************************)
(* The tables of PostgreSQL as the ledger of accounts sees them. Whoever   *)
(* sends the statements of ChirpyDB, HTTP handlers or callers of the       *)
(* repository, is compared with AccountLedger through this view.           *)
(***************************************************************************)
EXTENDS ChirpyDB

IdsOf(T) == {x.id : x \in T}

Accounts == {[id |-> u.id, email |-> u.email] : u \in users}
Items    == {[id |-> s.id, user |-> s.user] : s \in sessions} \cup chirps
Revoked  == {s.id : s \in {x \in sessions : x.revoked}}
Past     == spent \ (IdsOf(users) \cup IdsOf(sessions) \cup IdsOf(chirps))

\* A table keeps no record of what callers were told.
Tables == INSTANCE AccountLedger WITH
    Account   <- UserID,
    Item      <- SessionID \cup ChirpID,
    accounts  <- Accounts,
    items     <- Items,
    revoked   <- Revoked,
    past      <- Past,
    confirmed <- {}
=============================================================================
