---------------------------- MODULE ChirpyServer ----------------------------
(***************************************************************************)
(* The chirpy server over PostgreSQL: clients, the payment provider and    *)
(* the administrator send requests, handlers run concurrently and          *)
(* interleave statement by statement, statements fail, the process dies    *)
(* and is started again, time passes.                                      *)
(***************************************************************************)
EXTENDS UserHandlers, ChirpHandlers, RouterHandlers

Operations == {"signup", "put", "login", "refresh", "revoke", "chirp", "unchirp",
               "read", "list", "webhook", "reset", "app", "metrics", "healthz"}
Statuses   == {200, 201, 204, 400, 401, 403, 404, 409, 500}

ASSUME EndpointsAreRoutes == Endpoints \subseteq Operations

Init ==
    /\ DBInit
    /\ req = [r \in Request |-> Idle] /\ reply = NoReply
    /\ tokens = {} /\ hits = 0 /\ now = 0 /\ faults = 0
    /\ closed = {} /\ signups = 0 /\ visits = 0

UserStep(r) ==
    \/ handleCreateUser(r)
    \/ handleUpdateUser(r) \/ putCreate(r) \/ putFind(r) \/ putDelete(r)
    \/ handleLogin(r) \/ loginSession(r)
    \/ handleSessionRefresh(r) \/ refreshMint(r)
    \/ handleSessionRevoke(r)

ChirpStep(r) ==
    \/ handleCreateChirp(r) \/ chirpInsert(r)
    \/ handleDeleteChirp(r) \/ chirpDelete(r)
    \/ handleGetChirp(r) \/ handleGetChirps(r)

RouterStep(r) ==
    \/ handleReset(r) \/ resetUsers(r) \/ resetHits(r)
    \/ handlePolkaWebhook(r) \/ MiddlewareMetricsInc(r) \/ replyEarly(r)

\* The process dies and is started again: the requests it worked on and the
\* hit counter are gone; the tables, and the tokens clients hold, are not.
Crash ==
    /\ faults < MaxFaults /\ faults' = faults + 1
    /\ req' = [r \in Request |-> Idle] /\ reply' = NoReply
    /\ hits' = 0
    /\ UNCHANGED <<tables, tokens, now, history>>

Tick ==
    /\ now < MaxTime /\ now' = now + 1
    /\ reply' = NoReply
    /\ UNCHANGED <<tables, req, tokens, hits, faults, history>>

Next == (\E r \in Request : UserStep(r) \/ ChirpStep(r) \/ RouterStep(r)) \/ Crash \/ Tick

Spec == Init /\ [][Next]_vars

-----------------------------------------------------------------------------
\* Tables, frames, counters and history hold values of the expected kinds.
TypeOK ==
    /\ DBTypeOK
    /\ req \in [Request -> Frame]
    /\ reply \in [op : Operations, status : Statuses] \cup {NoReply}
    /\ tokens \subseteq Token
    /\ hits \in Nat /\ now \in Nat /\ faults \in Nat
    /\ closed \subseteq UserID \cup SessionID
    /\ signups \in Nat /\ visits \in Nat

(***************************************************************************)
(* What a handler has been told is gone stays gone, whatever the other     *)
(* handlers were in the middle of: an account replaced by PUT /api/users   *)
(* or wiped by /admin/reset has no row, session or chirp any more, though  *)
(* PUT deletes by an address it read three statements earlier; a revoked   *)
(* session is never stored as live again.                                  *)
(***************************************************************************)
ClosedStaysClosed ==
    /\ \A u \in users : u.id \notin closed
    /\ \A s \in sessions : s.user \notin closed /\ (s.id \in closed => s.revoked)
    /\ \A c \in chirps : c.user \notin closed

(***************************************************************************)
(* POST /api/refresh that reads its session after the revocation was       *)
(* answered with 204, or after the deletion of its account was confirmed,  *)
(* never mints a token. (One that read it before still may.)               *)
(***************************************************************************)
LateRefresh == \E r \in Request : At(r, "refresh.mint") /\ req[r].late /\ req'[r] = Idle
LateRefreshFails == [][LateRefresh => tokens' = tokens]_vars

\* No access token a client holds outlives AccessTTL (an hour), whatever
\* expires_in_seconds the login asked for.
AccessIsShort == \A t \in tokens : t.exp <= now + AccessTTL

(***************************************************************************)
(* A chirp is only stored for the account whose live access token came     *)
(* with the request, although handleCreateChirp does not return when the   *)
(* token is refused; 201 means that it was stored, 401 that it was not.    *)
(***************************************************************************)
ChirpsAreAuthored ==
    [][/\ \A c \in chirps' \ chirps : \E r \in Request :
             At(r, "chirp.insert") /\ req[r].bearer /\ req[r].user = c.user
       /\ reply' = [op |-> "chirp", status |-> 201] => chirps' \ chirps # {}
       /\ reply' = [op |-> "chirp", status |-> 401] => chirps' = chirps]_vars

(***************************************************************************)
(* A chirp disappears only with its author's account, or by a DELETE whose *)
(* caller is its author: the author is compared when the chirp is read,    *)
(* the row is deleted by id a statement later.                             *)
(***************************************************************************)
OnlyAuthorsDeleteChirps ==
    [][\A c \in chirps \ chirps' :
         \/ \A u \in users' : u.id # c.user
         \/ \E r \in Request : At(r, "chirp.delete") /\ req[r].user = c.user]_vars

(***************************************************************************)
(* An account disappears only by a reset, or by the PUT of its own holder. *)
(* handleUpdateUser deletes whoever has the old address by then, so this   *)
(* holds only while requests do not overlap.                               *)
(***************************************************************************)
OnlyHoldersDeleteAccounts ==
    [][\A u \in users : (\A v \in users' : v.id # u.id) =>
         \E r \in Request :
            \/ At(r, "reset.users")
            \/ At(r, "put.delete") /\ req[r].old.id = u.id]_vars

(***************************************************************************)
(* While requests do overlap, a PUT deletes another account than the one   *)
(* its caller held only after that one was gone already: the stranger has  *)
(* taken the address the old account had, and nothing else is at risk.     *)
(***************************************************************************)
OnlyStalePutsMisdelete ==
    [][\A u \in users : (\A v \in users' : v.id # u.id) =>
         \E r \in Request :
            \/ At(r, "reset.users")
            \/ /\ At(r, "put.delete")
               /\ \/ req[r].old.id = u.id
                  \/ ~UserExists(req[r].old.id) /\ req[r].old.email = u.email]_vars

(***************************************************************************)
(* PUT /api/users replaces an account: apart from the one a PUT is about   *)
(* to delete, there are never more accounts than people who signed up.     *)
(***************************************************************************)
Replacing == {r \in Request : req[r].at \in {"put.find", "put.delete"}}
OneAccountPerSignup == Cardinality(users) <= signups + Cardinality(Replacing)

\* The count a reset reports never includes a visit made before the reset began.
ResetCountsAfresh ==
    \A r \in Request : req[r].at \in {"reset.users", "reset.hits"}
                           => hits <= visits - req[r].from
=============================================================================
