---------------------------- MODULE UserHandlers ----------------------------
(***************************************************************************)
(* internal/httpapi/user_handlers.go: sign-up, the replacement of an       *)
(* account by PUT /api/users, login, refresh and revoke, with the          *)
(* repository methods they call.                                           *)
(***************************************************************************)
EXTENDS ChirpyRequests

\* POST /api/users: one INSERT.
handleCreateUser(r) ==
    \E e \in Email, p \in Password, o \in Outcome :
        /\ Arrives(r, "signup") /\ Room(UserID, "put.create") /\ Meter(o)
        /\ CreateUser(o, e, p)
        /\ signups' = IF Committed(o) /\ ~EmailTaken(e) THEN signups + 1 ELSE signups
        /\ Respond(r, "signup", IF o # "ok" THEN 400 ELSE IF EmailTaken(e) THEN 409 ELSE 201)
        /\ UNCHANGED <<tokens, hits, now, closed, visits>>

-----------------------------------------------------------------------------
(***************************************************************************)
(* PUT /api/users: look the caller up, insert a new account, look the old  *)
(* e-mail address up, delete what has it.                                  *)
(***************************************************************************)
handleUpdateUser(r) ==
    \E t \in LiveTokens, e \in Email, p \in Password, o \in Outcome :
        /\ Arrives(r, "put") /\ Room(UserID, "put.create") /\ Meter(o)
        /\ \/ /\ o = "ok"
              /\ \E u \in users :
                    /\ u.id = t.sub
                    /\ Goto(r, [at |-> "put.create", old |-> [id |-> u.id, email |-> u.email],
                                email |-> e, password |-> p])
           \/ (o # "ok" \/ ~UserExists(t.sub)) /\ Respond(r, "put", 401)
        /\ UNCHANGED <<tables, tokens, hits, now, history>>

\* Mutant: the address to delete is the new one.
putCreateMixesUp(r) ==
    \E o \in Outcome :
        LET f == req[r] IN
        /\ At(r, "put.create") /\ Meter(o)
        /\ CreateUser(o, f.email, f.password)
        /\ \/ /\ o = "ok" /\ ~EmailTaken(f.email)
              /\ Goto(r, [at |-> "put.find", old |-> [f.old EXCEPT !.email = f.email]])
           \/ (o # "ok" \/ EmailTaken(f.email)) /\ Respond(r, "put", 400)
        /\ UNCHANGED <<tokens, hits, now, history>>

putCreate(r) ==
    \E o \in Outcome :
        LET f == req[r] IN
        /\ At(r, "put.create") /\ Meter(o)
        /\ CreateUser(o, f.email, f.password)
        /\ \/ o = "ok" /\ ~EmailTaken(f.email) /\ Goto(r, [at |-> "put.find", old |-> f.old])
           \/ o = "ok" /\ EmailTaken(f.email) /\ Respond(r, "put", 409)
           \/ o # "ok" /\ Respond(r, "put", 400)
        /\ UNCHANGED <<tokens, hits, now, history>>

\* Mutant: it looks again until somebody has the address.
putFindRetries(r) ==
    \E o \in Outcome :
        LET old == req[r].old IN
        /\ At(r, "put.find") /\ Meter(o)
        /\ \/ /\ o = "ok"
              /\ \E u \in users :
                    /\ u.email = old.email
                    /\ Goto(r, [at |-> "put.delete", old |-> old, victim |-> u.id])
           \/ (o # "ok" \/ ~EmailTaken(old.email)) /\ Goto(r, req[r])
        /\ UNCHANGED <<tables, tokens, hits, now, history>>

\* DeleteUser, first statement: the row that has the old address now. An
\* error is logged and the response is 200 all the same.
putFind(r) ==
    \E o \in Outcome :
        LET old == req[r].old IN
        /\ At(r, "put.find") /\ Meter(o)
        /\ \/ /\ o = "ok"
              /\ \E u \in users :
                    /\ u.email = old.email
                    /\ Goto(r, [at |-> "put.delete", old |-> old, victim |-> u.id])
              /\ UNCHANGED closed
           \/ /\ o = "ok" /\ ~EmailTaken(old.email)
              /\ Respond(r, "put", 200)
              /\ closed' = closed \cup {old.id}
           \/ o # "ok" /\ Respond(r, "put", 200) /\ UNCHANGED closed
        /\ UNCHANGED <<tables, tokens, hits, now, signups, visits>>

\* Mutant: the second statement forgotten.
putDeleteForgets(r) ==
    /\ At(r, "put.delete")
    /\ Respond(r, "put", 200)
    /\ UNCHANGED <<tables, tokens, hits, now, faults, history>>

\* DeleteUser, second statement.
putDelete(r) ==
    \E o \in Outcome :
        /\ At(r, "put.delete") /\ Meter(o)
        /\ DeleteUsers(o, {req[r].victim})
        /\ Respond(r, "put", 200)
        /\ closed' = IF o = "ok" THEN closed \cup {req[r].old.id} ELSE closed
        /\ UNCHANGED <<tokens, hits, now, signups, visits>>

-----------------------------------------------------------------------------
\* Mutants: no upper bound; no check that the wish is positive.
LifetimeAsAsked(want)   == IF want > 0 THEN want ELSE AccessTTL
LifetimeNoFloor(want)   == IF want < AccessTTL THEN want ELSE AccessTTL

\* The smaller of 3600 and expires_in_seconds, when that is positive.
AccessLifetime(want) == IF want > 0 /\ want < AccessTTL THEN want ELSE AccessTTL

\* POST /api/login: authenticate, make the access token, then store a session.
handleLogin(r) ==
    \E e \in Email, p \in Password, want \in Requested, o \in Outcome :
        /\ Arrives(r, "login") /\ Room(SessionID, "login.session") /\ Meter(o)
        /\ \/ /\ o = "ok"
              /\ \E u \in users :
                    /\ u.email = e /\ CheckPasswordHash(p, u.password)
                    /\ Goto(r, [at |-> "login.session", user |-> u.id,
                                token |-> MakeJWT(u.id, AccessLifetime(want)),
                                expires |-> now + SessionTTL])
           \/ /\ o = "ok"
              /\ \E u \in users : u.email = e /\ ~CheckPasswordHash(p, u.password)
              /\ Respond(r, "login", 401)
           \/ o = "ok" /\ ~EmailTaken(e) /\ Respond(r, "login", 404)
           \/ o # "ok" /\ Respond(r, "login", 401)
        /\ UNCHANGED <<tables, tokens, hits, now, history>>

loginSession(r) ==
    \E o \in Outcome :
        LET f == req[r] IN
        /\ At(r, "login.session") /\ Meter(o)
        /\ CreateSession(o, f.user, f.expires)
        /\ \/ /\ o = "ok" /\ UserExists(f.user)
              /\ Respond(r, "login", 200)
              /\ tokens' = tokens \cup {f.token}
           \/ /\ o # "ok" \/ ~UserExists(f.user)
              /\ Respond(r, "login", 500)
              /\ UNCHANGED tokens
        /\ UNCHANGED <<hits, now, history>>

-----------------------------------------------------------------------------
\* POST /api/refresh: read the session, then judge the copy that was read.
\* "late" records that its revocation, or the deletion of its account, had
\* been confirmed before it was read.
handleSessionRefresh(r) ==
    \E id \in Known(SessionID), o \in Outcome :
        /\ Arrives(r, "refresh") /\ Meter(o)
        /\ \/ /\ o = "ok"
              /\ \E s \in sessions :
                    /\ s.id = id
                    /\ Goto(r, [at |-> "refresh.mint", session |-> s,
                                late |-> {s.id, s.user} \cap closed # {}])
           \/ /\ o # "ok" \/ \A s \in sessions : s.id # id
              /\ Respond(r, "refresh", 401)
        /\ UNCHANGED <<tables, tokens, hits, now, history>>

\* Mutant: revoked sessions are refreshed.
RefreshableUntilExpiry(s) == s.expires >= now

Refreshable(s) == s.expires >= now /\ ~s.revoked

refreshMint(r) ==
    LET s == req[r].session IN
    /\ At(r, "refresh.mint")
    /\ \/ /\ Refreshable(s)
          /\ Respond(r, "refresh", 200)
          /\ tokens' = tokens \cup {MakeJWT(s.user, AccessTTL)}
       \/ ~Refreshable(s) /\ Respond(r, "refresh", 401) /\ UNCHANGED tokens
    /\ UNCHANGED <<tables, hits, now, faults, history>>

\* POST /api/revoke: one UPDATE; 204 also when there is no such session.
handleSessionRevoke(r) ==
    \E id \in Known(SessionID), o \in Outcome :
        /\ Arrives(r, "revoke") /\ Meter(o)
        /\ RevokeSession(o, id)
        /\ \/ o = "ok" /\ Respond(r, "revoke", 204) /\ closed' = closed \cup ({id} \ {Nil})
           \/ o # "ok" /\ Respond(r, "revoke", 400) /\ UNCHANGED closed
        /\ UNCHANGED <<tokens, hits, now, signups, visits>>
=============================================================================
