------------------------------ MODULE ChirpyDB ------------------------------
(***************************************************************************)
(* The PostgreSQL side of chirpy: the three tables and every statement the *)
(* repositories in internal/postgres send to them. A table is a set of     *)
(* rows; one statement is atomic (the server runs in autocommit, nothing   *)
(* opens a transaction), two statements of one handler are not.            *)
(*                                                                         *)
(* A row keeps the columns some property tells apart. created_at and       *)
(* updated_at are left out, and so is the text of a chirp.                 *)
(***************************************************************************)
EXTENDS Integers, FiniteSets

CONSTANTS UserID,      \* uuid.New() draws account ids from here, never twice
          SessionID,   \* refresh tokens (256 hex digits), never drawn twice
          ChirpID,     \* uuid.New() for chirps
          Email, Password,
          Nil          \* uuid.Nil, or a well-formed id or token never handed out

ASSUME IdsAreDistinct ==
    /\ UserID \cap SessionID = {} /\ UserID \cap ChirpID = {}
    /\ SessionID \cap ChirpID = {}
    /\ Nil \notin UserID \cup SessionID \cup ChirpID

VARIABLES users,     \* [id, email, password, red]
          sessions,  \* [id, user, expires, revoked]
          chirps,    \* [id, user]
          spent      \* every id an INSERT has ever used

tables == <<users, sessions, chirps, spent>>

\* Argon2id with a random salt: equal hashes tell nothing, only the check does.
HashPassword(p) == [argon2id |-> p]
CheckPasswordHash(p, hash) == hash.argon2id = p

UserRow    == [id : UserID, email : Email, password : [argon2id : Password], red : BOOLEAN]
SessionRow == [id : SessionID, user : UserID, expires : Nat, revoked : BOOLEAN]
ChirpRow   == [id : ChirpID, user : UserID]

DBTypeOK == /\ users \subseteq UserRow
            /\ sessions \subseteq SessionRow
            /\ chirps \subseteq ChirpRow
            /\ spent \subseteq UserID \cup SessionID \cup ChirpID

DBInit == users = {} /\ sessions = {} /\ chirps = {} /\ spent = {}

\* Ids a request can name: one that was once a key, or one that never was.
Known(S) == (S \cap spent) \cup {Nil}
Fresh(S) == S \ spent

-----------------------------------------------------------------------------
(***************************************************************************)
(* How a statement ends for the handler that sent it: "ok", or an error    *)
(* that is not a constraint violation (the connection broke, or the client *)
(* hung up and r.Context() was cancelled) reported before ("error") or     *)
(* after ("lost") the server committed it.                                 *)
(***************************************************************************)
Outcome == {"ok", "error", "lost"}
Committed(o) == o # "error"

\* Mutant: a users table without its UNIQUE constraint.
NoEmailTaken(e) == FALSE

UserExists(id) == \E u \in users : u.id = id
EmailTaken(e)  == \E u \in users : u.email = e

\* Two shorthands for a statement that changes one table or none.
NoWrite   == UNCHANGED tables
Insert(id) == spent' = spent \cup {id}

\* INSERT INTO users: refused by UNIQUE (email) when the address is in use;
\* is_chirpy_red_member takes its default, false.
CreateUser(o, e, p) ==
    \/ /\ Committed(o) /\ ~EmailTaken(e)
       /\ \E id \in Fresh(UserID) :
             /\ users' = users \cup {[id |-> id, email |-> e,
                                      password |-> HashPassword(p), red |-> FALSE]}
             /\ Insert(id)
       /\ UNCHANGED <<sessions, chirps>>
    \/ (~Committed(o) \/ EmailTaken(e)) /\ NoWrite

\* Mutant: an upsert, which brings an account back.
UpsertUpgrade(o, id) ==
    \/ /\ Committed(o) /\ id # Nil /\ ~UserExists(id)
       /\ \E e \in Email, p \in Password :
             /\ ~EmailTaken(e)
             /\ users' = users \cup {[id |-> id, email |-> e,
                                      password |-> HashPassword(p), red |-> TRUE]}
       /\ UNCHANGED <<sessions, chirps, spent>>
    \/ (~Committed(o) \/ UserExists(id) \/ id = Nil) /\ NoWrite

\* UPDATE users SET is_chirpy_red_member = true WHERE id = $1.
UpgradeUser(o, id) ==
    \/ /\ Committed(o)
       /\ users' = {IF u.id = id THEN [u EXCEPT !.red = TRUE] ELSE u : u \in users}
       /\ UNCHANGED <<sessions, chirps, spent>>
    \/ ~Committed(o) /\ NoWrite

\* UPDATE users SET email = $3 WHERE email = $1 RETURNING ...: no row is an
\* error, and so is a new address that another row has.
Movable(old, new) == EmailTaken(old) /\ (new = old \/ ~EmailTaken(new))

UpdateUser(o, old, new) ==
    \/ /\ Committed(o) /\ Movable(old, new)
       /\ users' = {IF u.email = old THEN [u EXCEPT !.email = new] ELSE u : u \in users}
       /\ UNCHANGED <<sessions, chirps, spent>>
    \/ (~Committed(o) \/ ~Movable(old, new)) /\ NoWrite

\* Mutant: chirps.user_id without ON DELETE CASCADE, nor any other check.
DeleteUsersKeepChirps(o, ids) ==
    \/ /\ Committed(o)
       /\ users'    = {u \in users : u.id \notin ids}
       /\ sessions' = {s \in sessions : s.user \notin ids}
       /\ UNCHANGED <<chirps, spent>>
    \/ ~Committed(o) /\ NoWrite

\* DELETE FROM users, with ON DELETE CASCADE to user_sessions and chirps.
DeleteUsers(o, ids) ==
    \/ /\ Committed(o)
       /\ users'    = {u \in users : u.id \notin ids}
       /\ sessions' = {s \in sessions : s.user \notin ids}
       /\ chirps'   = {c \in chirps : c.user \notin ids}
       /\ UNCHANGED spent
    \/ ~Committed(o) /\ NoWrite

\* Mutant: user_sessions.user_id without its foreign key.
CreateSessionUnchecked(o, user, expires) ==
    \/ /\ Committed(o)
       /\ \E id \in Fresh(SessionID) :
             /\ sessions' = sessions \cup {[id |-> id, user |-> user,
                                            expires |-> expires, revoked |-> FALSE]}
             /\ Insert(id)
       /\ UNCHANGED <<users, chirps>>
    \/ ~Committed(o) /\ NoWrite

\* INSERT INTO user_sessions: refused by the foreign key when the account is gone.
CreateSession(o, user, expires) ==
    \/ /\ Committed(o) /\ UserExists(user)
       /\ \E id \in Fresh(SessionID) :
             /\ sessions' = sessions \cup {[id |-> id, user |-> user,
                                            expires |-> expires, revoked |-> FALSE]}
             /\ Insert(id)
       /\ UNCHANGED <<users, chirps>>
    \/ (~Committed(o) \/ ~UserExists(user)) /\ NoWrite

\* Mutant: the revocation is set on a copy of the row and never stored.
RevokeCopy(o, id) == NoWrite

\* UPDATE user_sessions SET revoked_at = $2 WHERE id = $1: no row is no error.
RevokeSession(o, id) ==
    \/ /\ Committed(o)
       /\ sessions' = {IF s.id = id THEN [s EXCEPT !.revoked = TRUE] ELSE s : s \in sessions}
       /\ UNCHANGED <<users, chirps, spent>>
    \/ ~Committed(o) /\ NoWrite

\* DELETE FROM user_sessions WHERE user_id = $1.
DeleteSessionsByUserID(o, user) ==
    \/ /\ Committed(o)
       /\ sessions' = {s \in sessions : s.user # user}
       /\ UNCHANGED <<users, chirps, spent>>
    \/ ~Committed(o) /\ NoWrite

\* INSERT INTO chirps, with the same foreign key.
CreateChirp(o, user) ==
    \/ /\ Committed(o) /\ UserExists(user)
       /\ \E id \in Fresh(ChirpID) :
             chirps' = chirps \cup {[id |-> id, user |-> user]} /\ Insert(id)
       /\ UNCHANGED <<users, sessions>>
    \/ (~Committed(o) \/ ~UserExists(user)) /\ NoWrite

\* DELETE FROM chirps WHERE id = $1: no row is no error.
DeleteChirp(o, id) ==
    \/ /\ Committed(o)
       /\ chirps' = {c \in chirps : c.id # id}
       /\ UNCHANGED <<users, sessions, spent>>
    \/ ~Committed(o) /\ NoWrite
-----------------------------------------------------------------------------
(***************************************************************************)
(* The constraints of internal/postgres/schema/migrations hold in every    *)
(* state: ids are keys, an address has one account, sessions and chirps    *)
(* belong to an account that exists. Handlers rely on this when they       *)
(* insert for an account they looked up a statement earlier.               *)
(***************************************************************************)
OneAccountPerEmail == \A u, v \in users : u.email = v.email => u = v
IdsAreKeys ==
    /\ \A u, v \in users : u.id = v.id => u = v
    /\ \A s, t \in sessions : s.id = t.id => s = t
    /\ \A c, d \in chirps : c.id = d.id => c = d
OwnersExist == /\ \A s \in sessions : UserExists(s.user)
               /\ \A c \in chirps : UserExists(c.user)
SchemaHolds == OneAccountPerEmail /\ IdsAreKeys /\ OwnersExist
=============================================================================
