-------------------------- MODULE ChirpyRefinement --------------------------
(***************************************************************************)
(* The server keeps the ledger of accounts: every step of ChirpyServer is  *)
(* one step of AccountLedger, or changes nothing there.                    *)
(***************************************************************************)
EXTENDS ChirpyServer, TableLedger

\* The tables, and what callers were told is over.
Ledger == INSTANCE AccountLedger WITH
    Account   <- UserID,
    Item      <- SessionID \cup ChirpID,
    accounts  <- Accounts,
    items     <- Items,
    revoked   <- Revoked,
    past      <- Past,
    confirmed <- closed

(***************************************************************************)
(* Whatever the interleaving, the failure or the crash, an observer of the *)
(* tables and the answers sees only: accounts opened under fresh ids and   *)
(* free addresses, closed with all they own, items attached to open        *)
(* accounts, revoked or removed one by one; and answers that tell of an    *)
(* end only once it has come.                                              *)
(***************************************************************************)
KeepsLedger == Ledger!Spec
=============================================================================
