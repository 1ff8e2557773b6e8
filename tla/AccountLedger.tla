--------------------------- MODULE AccountLedger ---------------------------
(***************************************************************************)
(* What internal/application promises of accounts and of what belongs to   *)
(* them (sessions and chirps, here "items"), whatever stores them: an      *)
(* address has one account, an item belongs to an open account and goes    *)
(* with it, an id that is gone never returns, and what a caller was told   *)
(* is over really is over. ChirpyServer and PostgresRepository implement   *)
(* this, and MemoryRepository with the exceptions listed there.            *)
(***************************************************************************)
CONSTANTS Account, Item, Email

VARIABLES accounts,   \* [id, email] of the open accounts
          items,      \* [id, user] of their sessions and chirps
          revoked,    \* items that exist but may not be used any more
          past,       \* ids of accounts and items that are gone
          confirmed   \* ids a caller has been told are gone or revoked

vars == <<accounts, items, revoked, past, confirmed>>

Ids(S) == {x.id : x \in S}

TypeOK ==
    /\ accounts \subseteq [id : Account, email : Email]
    /\ items \subseteq [id : Item, user : Account]
    /\ revoked \subseteq Item
    /\ past \subseteq Account \cup Item
    /\ confirmed \subseteq Account \cup Item

Init == accounts = {} /\ items = {} /\ revoked = {} /\ past = {} /\ confirmed = {}

-----------------------------------------------------------------------------
Open(a, e) ==
    /\ a \notin Ids(accounts) \cup past
    /\ \A x \in accounts : x.email # e
    /\ accounts' = accounts \cup {[id |-> a, email |-> e]}
    /\ UNCHANGED <<items, revoked, past>>

\* An account takes another address.
Move(a, e) ==
    /\ a \in Ids(accounts) /\ \A x \in accounts : x.email # e
    /\ accounts' = {IF x.id = a THEN [id |-> a, email |-> e] ELSE x : x \in accounts}
    /\ UNCHANGED <<items, revoked, past>>

\* Accounts are closed together with everything they own.
Close(S) ==
    /\ accounts' = {x \in accounts : x.id \notin S}
    /\ items' = {i \in items : i.user \notin S}
    /\ past' = past \cup (S \cap Ids(accounts)) \cup Ids({i \in items : i.user \in S})
    /\ revoked' = revoked \cap Ids(items')

Attach(i, a) ==
    /\ a \in Ids(accounts) /\ i \notin Ids(items) \cup past
    /\ items' = items \cup {[id |-> i, user |-> a]}
    /\ UNCHANGED <<accounts, revoked, past>>

Revoke(i) ==
    /\ i \in Ids(items) /\ revoked' = revoked \cup {i}
    /\ UNCHANGED <<accounts, items, past>>

Detach(S) ==
    /\ items' = {i \in items : i.id \notin S}
    /\ past' = past \cup (S \cap Ids(items))
    /\ revoked' = revoked \ S
    /\ UNCHANGED accounts

\* Any step may tell a caller of things that are over.
Confirm == confirmed \subseteq confirmed' /\ confirmed' \subseteq confirmed \cup past' \cup revoked'

Step ==
    \/ \E a \in Account, e \in Email : Open(a, e) \/ Move(a, e)
    \/ \E S \in SUBSET Account : Close(S)
    \/ \E i \in Item, a \in Account : Attach(i, a)
    \/ \E i \in Item : Revoke(i)
    \/ \E S \in SUBSET Item : Detach(S)
    \/ UNCHANGED <<accounts, items, revoked, past>>

Next == Step /\ Confirm

Spec == Init /\ [][Next]_vars

-----------------------------------------------------------------------------
\* What a caller was told is over is gone, or is a revoked item.
ConfirmedIsOver ==
    confirmed \subseteq past \cup (revoked \cap Ids(items))

\* No id is open and gone at once, and no item outlives its account.
LedgerHolds ==
    /\ (Ids(accounts) \cup Ids(items)) \cap past = {}
    /\ \A i \in items : i.user \in Ids(accounts)
    /\ \A x, y \in accounts : x.email = y.email => x = y
=============================================================================
