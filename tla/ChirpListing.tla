---------------------------- MODULE ChirpListing ----------------------------
(***************************************************************************)
(* The order of GET /api/chirps. CreateChirp of internal/postgres takes    *)
(* created_at from the clock, looks the author up, and only then inserts;  *)
(* a listing is ordered by created_at and nothing else, and handleGetChirps*)
(* turns it around for sort=desc with a sort that is not stable. So chirps *)
(* get their places in an order that is neither that of the INSERTs nor    *)
(* that of the answers.                                                    *)
(*                                                                         *)
(* Time is in microseconds, the precision created_at is truncated to, and  *)
(* never goes back. Authentication is in ChirpHandlers.                    *)
(***************************************************************************)
EXTENDS Naturals, FiniteSets, SequencesExt

CONSTANTS Poster,    \* requests that post, one goroutine each
          Author, ChirpID,
          MaxTime    \* bound of the model

ASSUME MaxTimeIsNatural == MaxTime \in Nat

VARIABLES now,
          users,     \* accounts that exist
          chirps,    \* [id, user, created]
          spent,     \* chirp ids drawn so far, each answered with 201
          post,      \* poster -> frame of handleCreateChirp
          listing,   \* the answer to GET /api/chirps, if the last step gave one
          before     \* history: <<a, b>> when the 201 of a came before the
                     \* request of b

vars == <<now, users, chirps, spent, post, listing, before>>

Idle == [at |-> "idle"]
NoListing == [sort |-> "asc", rows |-> <<>>]

Init ==
    /\ now = 0 /\ users = Author /\ chirps = {} /\ spent = {}
    /\ post = [p \in Poster |-> Idle]
    /\ listing = NoListing
    /\ before = {}

-----------------------------------------------------------------------------
\* The request comes in with what had been answered by then.
Arrive(p) ==
    /\ post[p] = Idle
    /\ \E u \in Author : post' = [post EXCEPT ![p] = [at |-> "stamp", user |-> u, prior |-> spent]]
    /\ listing' = NoListing
    /\ UNCHANGED <<now, users, chirps, spent, before>>

\* The clock, then GetUserByID: 400 if the author is gone.
StampAndFind(p) ==
    LET f == post[p] IN
    /\ f.at = "stamp"
    /\ post' = [post EXCEPT ![p] =
                  IF f.user \in users
                  THEN [at |-> "insert", user |-> f.user, prior |-> f.prior, created |-> now]
                  ELSE Idle]
    /\ listing' = NoListing
    /\ UNCHANGED <<now, users, chirps, spent, before>>

\* The INSERT, refused by the foreign key, or followed by 201.
InsertChirp(p) ==
    LET f == post[p] IN
    /\ f.at = "insert"
    /\ post' = [post EXCEPT ![p] = Idle] /\ listing' = NoListing
    /\ \/ /\ f.user \in users
          /\ \E id \in ChirpID \ spent :
                /\ chirps' = chirps \cup {[id |-> id, user |-> f.user, created |-> f.created]}
                /\ spent' = spent \cup {id}
                /\ before' = before \cup {<<a, id>> : a \in f.prior}
       \/ f.user \notin users /\ UNCHANGED <<chirps, spent, before>>
    /\ UNCHANGED <<now, users>>

DeleteChirp ==
    /\ \E c \in chirps : chirps' = chirps \ {c}
    /\ listing' = NoListing
    /\ UNCHANGED <<now, users, spent, post, before>>

DeleteAuthor ==
    /\ \E u \in users : users' = users \ {u} /\ chirps' = {c \in chirps : c.user # u}
    /\ listing' = NoListing
    /\ UNCHANGED <<now, spent, post, before>>

\* Mutant: the statement without its ORDER BY.
OrderByNothing(s) == TRUE

\* ORDER BY chirps.created_at ASC, among equals as the database likes.
OrderedByCreatedAt(s) == \A i, j \in DOMAIN s : i < j => s[i].created <= s[j].created

\* sort.Slice with After, among equals as the sort likes.
SortedDescending(s) == \A i, j \in DOMAIN s : i < j => s[i].created >= s[j].created

\* Everybody's chirps, or one author's; a deleted or unknown author has none.
handleGetChirps ==
    /\ \E wanted \in {Author} \cup {{u} : u \in Author}, sort \in {"asc", "desc"} :
       \E rows \in SetToSeqs({c \in chirps : c.user \in wanted}) :
          /\ IF sort = "desc" THEN SortedDescending(rows) ELSE OrderedByCreatedAt(rows)
          /\ listing' = [sort |-> sort, rows |-> rows]
    /\ UNCHANGED <<now, users, chirps, spent, post, before>>

Tick == /\ now < MaxTime /\ now' = now + 1
        /\ listing' = NoListing
        /\ UNCHANGED <<users, chirps, spent, post, before>>

Next == \/ \E p \in Poster : Arrive(p) \/ StampAndFind(p) \/ InsertChirp(p)
        \/ DeleteChirp \/ DeleteAuthor \/ handleGetChirps \/ Tick

Spec == Init /\ [][Next]_vars

-----------------------------------------------------------------------------
(***************************************************************************)
(* Readers see a conversation in order: when somebody posts after another  *)
(* chirp was acknowledged, no listing puts the reply before that chirp     *)
(* (after it, for sort=desc), unless both carry the same microsecond.      *)
(***************************************************************************)
Precedes(a, b) == <<a.id, b.id>> \in before /\ a.created # b.created

RepliesFollow ==
    \A i, j \in DOMAIN listing.rows :
        LET a == listing.rows[i]  b == listing.rows[j] IN
        Precedes(a, b) => IF listing.sort = "asc" THEN i < j ELSE j < i
=============================================================================
