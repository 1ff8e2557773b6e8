--------------------------- MODULE ChirpHandlers ---------------------------
(***************************************************************************)
(* internal/httpapi/chirp_handlers.go, with the repository methods its     *)
(* handlers call. Bodies have passed withValidBody; their text is left out.*)
(***************************************************************************)
EXTENDS ChirpyRequests

\* Mutant: the claims of an expired token are returned along with the error.
ClaimsAnyway(t) == IF t = Nil THEN Nil ELSE t.sub

\* The id ValidateJWT returns: uuid.Nil with an error unless the token is live.
Authenticated(t) == IF t \in LiveTokens THEN t.sub ELSE Nil

\* POST /api/chirps. The handler does not return after writing 401: it goes
\* on with uuid.Nil, and CreateChirp's look-up of the author stops it.
\* "bearer" records whether a live token came with the request.
handleCreateChirp(r) ==
    \E t \in tokens \cup {Nil}, o \in Outcome :
        LET caller == Authenticated(t)
            sent   == IF t \in LiveTokens THEN 0 ELSE 401
        IN /\ Arrives(r, "chirp") /\ Room(ChirpID, "chirp.insert") /\ Meter(o)
           /\ \/ /\ o = "ok" /\ UserExists(caller)
                 /\ Goto(r, [at |-> "chirp.insert", user |-> caller, sent |-> sent,
                             bearer |-> t \in LiveTokens])
              \/ /\ o # "ok" \/ ~UserExists(caller)
                 /\ Respond(r, "chirp", FirstStatus(sent, 400))
           /\ UNCHANGED <<tables, tokens, hits, now, history>>

\* The INSERT, and 201 written after it whether or not 400 was written before.
chirpInsert(r) ==
    \E o \in Outcome :
        LET f == req[r]
            failed == o # "ok" \/ ~UserExists(f.user)
            sent   == IF failed THEN FirstStatus(f.sent, 400) ELSE f.sent
        IN /\ At(r, "chirp.insert") /\ Meter(o)
           /\ CreateChirp(o, f.user)
           /\ Respond(r, "chirp", FirstStatus(sent, 201))
           /\ UNCHANGED <<tokens, hits, now, history>>

\* Mutant: any live token will do.
IsAnyone(c, caller) == TRUE

IsAuthor(c, caller) == c.user = caller

\* DELETE /api/chirps/{chirpID}: read the chirp, compare its author, ...
handleDeleteChirp(r) ==
    \E t \in LiveTokens, id \in Known(ChirpID), o \in Outcome :
        /\ Arrives(r, "unchirp") /\ Meter(o)
        /\ \/ /\ o = "ok"
              /\ \E c \in chirps :
                    /\ c.id = id /\ IsAuthor(c, t.sub)
                    /\ Goto(r, [at |-> "chirp.delete", chirp |-> id, user |-> t.sub])
           \/ /\ o = "ok"
              /\ \E c \in chirps : c.id = id /\ ~IsAuthor(c, t.sub)
              /\ Respond(r, "unchirp", 403)
           \/ /\ o # "ok" \/ \A c \in chirps : c.id # id
              /\ Respond(r, "unchirp", 404)
        /\ UNCHANGED <<tables, tokens, hits, now, history>>

\* ... then delete by id.
chirpDelete(r) ==
    \E o \in Outcome :
        /\ At(r, "chirp.delete") /\ Meter(o)
        /\ DeleteChirp(o, req[r].chirp)
        /\ Respond(r, "unchirp", IF o = "ok" THEN 204 ELSE 500)
        /\ UNCHANGED <<tokens, hits, now, history>>

\* GET /api/chirps/{chirpID}: 200 is written after an error too, and ignored.
handleGetChirp(r) ==
    \E id \in Known(ChirpID), o \in Outcome :
        LET sent == IF o # "ok" THEN 400
                    ELSE IF \A c \in chirps : c.id # id THEN 404 ELSE 0
        IN /\ Arrives(r, "read") /\ Meter(o)
           /\ Respond(r, "read", FirstStatus(sent, 200))
           /\ UNCHANGED <<tables, tokens, hits, now, history>>

\* GET /api/chirps: an unknown author has an empty list, a malformed one 400.
handleGetChirps(r) ==
    \E wellFormed \in BOOLEAN, o \in Outcome :
        LET sent == IF o # "ok" \/ ~wellFormed THEN 400 ELSE 0
        IN /\ Arrives(r, "list") /\ Meter(o)
           /\ wellFormed \/ o = "ok"
           /\ Respond(r, "list", FirstStatus(sent, 200))
           /\ UNCHANGED <<tables, tokens, hits, now, history>>
=============================================================================
