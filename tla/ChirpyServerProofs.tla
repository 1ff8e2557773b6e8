------------------------- MODULE ChirpyServerProofs -------------------------
(***************************************************************************)
(* Theorems about ChirpyServer for every set of clients, accounts,         *)
(* addresses, endpoints and bounds: types, limits, safety and refinement.  *)
(***************************************************************************)
EXTENDS ChirpyRefinement, ChirpyDBProofs

-----------------------------------------------------------------------------
(* Types.                                                                  *)

\* A frame at a step has the fields of that step.
LEMMA FrameFields ==
    ASSUME NEW f \in Frame
    PROVE  /\ f.at = "put.create" => /\ f.old \in Replaced
                                     /\ f.email \in Email /\ f.password \in Password
           /\ f.at = "put.find" => f.old \in Replaced
           /\ f.at = "put.delete" => f.old \in Replaced /\ f.victim \in UserID
           /\ f.at = "login.session" => /\ f.user \in UserID /\ f.token \in Token
                                        /\ f.expires \in Nat
           /\ f.at = "refresh.mint" => f.session \in SessionRow /\ f.late \in BOOLEAN
           /\ f.at = "chirp.insert" => f.user \in UserID /\ f.sent \in {0, 401}
           /\ f.at = "chirp.delete" => f.chirp \in ChirpID /\ f.user \in UserID
           /\ f.at \in {"reset.users", "reset.hits"} => f.from \in Nat
BY DEF Frame, Idle

\* Moving one request to a frame, or answering it, keeps the types of both.
Moves(r) == \/ \E f \in Frame : Goto(r, f)
            \/ \E op \in Operations, code \in Statuses : Respond(r, op, code)

FramesTypeOK == /\ req \in [Request -> Frame]
                /\ reply \in [op : Operations, status : Statuses] \cup {NoReply}

\* A step that goes on or responds within the frames keeps the type of req.
LEMMA MovesType ==
    ASSUME FramesTypeOK, NEW r \in Request, Moves(r)
    PROVE  FramesTypeOK'
BY DEF FramesTypeOK, Moves, Goto, Respond, Frame

\* Counting a fault keeps the counter a number.
LEMMA MeterType == ASSUME TypeOK, NEW o, Meter(o) PROVE faults' \in Nat
BY DEF TypeOK, Meter

\* Every step of user_handlers.go keeps the types.
LEMMA UserStepType ==
    ASSUME TypeOK, NEW r \in Request, UserStep(r)
    PROVE  TypeOK'
<1>. USE DEF history
<1>t. DBTypeOK /\ req[r] \in Frame
  BY DEF TypeOK
<1>m. FramesTypeOK
  BY DEF TypeOK, FramesTypeOK
<1>n. NoWrite => DBTypeOK'
  BY <1>t DEF DBTypeOK, NoWrite, tables
<1>1. CASE handleCreateUser(r)
  <2>1. PICK e \in Email, p \in Password, o \in Outcome :
           /\ Meter(o) /\ CreateUser(o, e, p)
           /\ signups' \in {signups, signups + 1}
           /\ \E code \in {201, 400, 409} : Respond(r, "signup", code)
           /\ UNCHANGED <<tokens, hits, now, closed, visits>>
    BY <1>1 DEF handleCreateUser
  <2>2. DBTypeOK' BY <2>1, <1>t, CreateUserType
  <2>3. FramesTypeOK'
    BY <2>1, <1>m, MovesType DEF Moves, Operations, Statuses
  <2>. QED BY <2>1, <2>2, <2>3, MeterType DEF TypeOK, FramesTypeOK
<1>2. CASE handleUpdateUser(r)
  <2>1. PICK e \in Email, p \in Password, o \in Outcome :
           /\ Meter(o)
           /\ \/ \E u \in users : Goto(r, [at |-> "put.create",
                                          old |-> [id |-> u.id, email |-> u.email],
                                          email |-> e, password |-> p])
              \/ Respond(r, "put", 401)
           /\ UNCHANGED <<tables, tokens, hits, now, history>>
    BY <1>2, ZenonT(60) DEF handleUpdateUser
  <2>2. ASSUME NEW u \in users,
               Goto(r, [at |-> "put.create", old |-> [id |-> u.id, email |-> u.email],
                        email |-> e, password |-> p])
        PROVE  Moves(r)
    <3>1. [at |-> "put.create", old |-> [id |-> u.id, email |-> u.email],
           email |-> e, password |-> p] \in Frame
      BY <1>t DEF DBTypeOK, UserRow, Frame, Replaced
    <3>. QED BY <3>1, <2>2, Zenon DEF Moves
  <2>3. Respond(r, "put", 401) => Moves(r)
    BY DEF Moves, Operations, Statuses
  <2>4. FramesTypeOK'
    BY <2>1, <2>2, <2>3, <1>m, MovesType, Zenon
  <2>. QED BY <2>1, <2>4, <1>n, MeterType DEF TypeOK, FramesTypeOK, NoWrite
<1>3. CASE putCreate(r)
  <2>1. PICK o \in Outcome :
           /\ Meter(o) /\ CreateUser(o, req[r].email, req[r].password)
           /\ \/ Goto(r, [at |-> "put.find", old |-> req[r].old])
              \/ \E code \in {400, 409} : Respond(r, "put", code)
           /\ UNCHANGED <<tokens, hits, now, history>>
    BY <1>3 DEF putCreate
  <2>2. req[r].email \in Email /\ req[r].password \in Password /\ req[r].old \in Replaced
    BY <1>3, <1>t, FrameFields DEF putCreate, At
  <2>3. [at |-> "put.find", old |-> req[r].old] \in Frame
    BY <2>2 DEF Frame
  <2>4. DBTypeOK' BY <2>1, <2>2, <1>t, CreateUserType
  <2>5. FramesTypeOK'
    BY <2>1, <2>3, <1>m, MovesType DEF Moves, Operations, Statuses
  <2>. QED BY <2>1, <2>4, <2>5, MeterType DEF TypeOK, FramesTypeOK
<1>4. CASE putFind(r)
  <2>1. PICK o \in Outcome :
           /\ Meter(o)
           /\ \/ \E f \in {[at |-> "put.delete", old |-> req[r].old,
                           victim |-> u.id] : u \in users} : Goto(r, f)
              \/ Respond(r, "put", 200)
           /\ closed' \in {closed, closed \cup {req[r].old.id}}
           /\ UNCHANGED <<tables, tokens, hits, now, signups, visits>>
    BY <1>4 DEF putFind, Goto
  <2>2. req[r].old \in Replaced
    BY <1>4, <1>t, FrameFields DEF putFind, At
  <2>3. {[at |-> "put.delete", old |-> req[r].old, victim |-> u.id] : u \in users}
            \subseteq Frame
    BY <2>2, <1>t DEF Frame, DBTypeOK, UserRow
  <2>4. FramesTypeOK'
    BY <2>1, <2>3, <1>m, MovesType DEF Moves, Operations, Statuses
  <2>5. closed' \subseteq UserID \cup SessionID
    BY <2>1, <2>2 DEF TypeOK, Replaced
  <2>. QED BY <2>1, <2>4, <2>5, <1>n, MeterType DEF TypeOK, FramesTypeOK, NoWrite
<1>5. CASE putDelete(r)
  <2>1. PICK o \in Outcome :
           /\ Meter(o) /\ DeleteUsers(o, {req[r].victim})
           /\ Respond(r, "put", 200)
           /\ closed' \in {closed, closed \cup {req[r].old.id}}
           /\ UNCHANGED <<tokens, hits, now, signups, visits>>
    BY <1>5 DEF putDelete
  <2>2. req[r].old \in Replaced
    BY <1>5, <1>t, FrameFields DEF putDelete, At
  <2>3. DBTypeOK' BY <2>1, <1>t, DeleteUsersType
  <2>4. FramesTypeOK'
    BY <2>1, <1>m, MovesType DEF Moves, Operations, Statuses
  <2>5. closed' \subseteq UserID \cup SessionID
    BY <2>1, <2>2 DEF TypeOK, Replaced
  <2>. QED BY <2>1, <2>3, <2>4, <2>5, MeterType DEF TypeOK, FramesTypeOK
<1>6. CASE handleLogin(r)
  <2>1. PICK want \in Requested, o \in Outcome :
           /\ Meter(o)
           /\ \/ \E u \in users : Goto(r, [at |-> "login.session", user |-> u.id,
                                          token |-> MakeJWT(u.id, AccessLifetime(want)),
                                          expires |-> now + SessionTTL])
              \/ Respond(r, "login", 401) \/ Respond(r, "login", 404)
           /\ UNCHANGED <<tables, tokens, hits, now, history>>
    BY <1>6, ZenonT(60) DEF handleLogin
  <2>2. ASSUME NEW u \in users,
               Goto(r, [at |-> "login.session", user |-> u.id,
                        token |-> MakeJWT(u.id, AccessLifetime(want)),
                        expires |-> now + SessionTTL])
        PROVE  Moves(r)
    <3>1. AccessLifetime(want) \in Nat
      BY RequestedIsInteger, TTLsArePositive DEF AccessLifetime
    <3>2. u.id \in UserID /\ now + SessionTTL \in Nat
      BY <1>t, TTLsArePositive DEF TypeOK, DBTypeOK, UserRow
    <3>3. MakeJWT(u.id, AccessLifetime(want)) \in Token
      BY <3>1, <3>2 DEF TypeOK, MakeJWT, Token
    <3>4. [at |-> "login.session", user |-> u.id,
           token |-> MakeJWT(u.id, AccessLifetime(want)),
           expires |-> now + SessionTTL] \in Frame
      BY <3>2, <3>3 DEF Frame
    <3>. QED BY <3>4, <2>2, Zenon DEF Moves
  <2>3. Respond(r, "login", 401) \/ Respond(r, "login", 404) => Moves(r)
    BY DEF Moves, Operations, Statuses
  <2>4. FramesTypeOK'
    BY <2>1, <2>2, <2>3, <1>m, MovesType, Zenon
  <2>. QED BY <2>1, <2>4, <1>n, MeterType DEF TypeOK, FramesTypeOK, NoWrite
<1>7. CASE loginSession(r)
  <2>1. PICK o \in Outcome :
           /\ Meter(o) /\ CreateSession(o, req[r].user, req[r].expires)
           /\ \E code \in {200, 500} : Respond(r, "login", code)
           /\ tokens' \in {tokens, tokens \cup {req[r].token}}
           /\ UNCHANGED <<hits, now, history>>
    BY <1>7 DEF loginSession
  <2>2. req[r].user \in UserID /\ req[r].token \in Token /\ req[r].expires \in Nat
    BY <1>7, <1>t, FrameFields DEF loginSession, At
  <2>3. DBTypeOK' BY <2>1, <2>2, <1>t, CreateSessionType
  <2>4. FramesTypeOK'
    BY <2>1, <1>m, MovesType DEF Moves, Operations, Statuses
  <2>. QED BY <2>1, <2>2, <2>3, <2>4, MeterType DEF TypeOK, FramesTypeOK
<1>8. CASE handleSessionRefresh(r)
  <2>1. PICK o \in Outcome :
           /\ Meter(o)
           /\ \/ \E s \in sessions :
                    Goto(r, [at |-> "refresh.mint", session |-> s,
                             late |-> {s.id, s.user} \cap closed # {}])
              \/ Respond(r, "refresh", 401)
           /\ UNCHANGED <<tables, tokens, hits, now, history>>
    BY <1>8, ZenonT(60) DEF handleSessionRefresh
  <2>2. ASSUME NEW s \in sessions,
               Goto(r, [at |-> "refresh.mint", session |-> s,
                        late |-> {s.id, s.user} \cap closed # {}])
        PROVE  Moves(r)
    <3>1. \A b \in BOOLEAN : [at |-> "refresh.mint", session |-> s, late |-> b] \in Frame
      BY <1>t DEF Frame, DBTypeOK
    <3>2. ({s.id, s.user} \cap closed # {}) \in BOOLEAN
      OBVIOUS
    <3>. QED BY <3>1, <3>2, <2>2, Zenon DEF Moves
  <2>3. Respond(r, "refresh", 401) => Moves(r)
    BY DEF Moves, Operations, Statuses
  <2>4. FramesTypeOK'
    BY <2>1, <2>2, <2>3, <1>m, MovesType, Zenon
  <2>. QED BY <2>1, <2>4, <1>n, MeterType DEF TypeOK, FramesTypeOK, NoWrite
<1>9. CASE refreshMint(r)
  <2>1. /\ \E code \in {200, 401} : Respond(r, "refresh", code)
        /\ tokens' \in {tokens, tokens \cup {MakeJWT(req[r].session.user, AccessTTL)}}
        /\ UNCHANGED <<tables, hits, now, faults, history>>
    BY <1>9 DEF refreshMint
  <2>2. req[r].session \in SessionRow
    BY <1>9, <1>t, FrameFields DEF refreshMint, At
  <2>3. MakeJWT(req[r].session.user, AccessTTL) \in Token
    BY <2>2, TTLsArePositive DEF TypeOK, SessionRow, MakeJWT, Token
  <2>4. FramesTypeOK'
    BY <2>1, <1>m, MovesType DEF Moves, Operations, Statuses
  <2>. QED BY <2>1, <2>3, <2>4, <1>n DEF TypeOK, FramesTypeOK, NoWrite
<1>10. CASE handleSessionRevoke(r)
  <2>1. PICK id \in Known(SessionID), o \in Outcome :
           /\ Meter(o) /\ RevokeSession(o, id)
           /\ \E code \in {204, 400} : Respond(r, "revoke", code)
           /\ closed' \in {closed, closed \cup ({id} \ {Nil})}
           /\ UNCHANGED <<tokens, hits, now, signups, visits>>
    BY <1>10 DEF handleSessionRevoke
  <2>2. DBTypeOK' BY <2>1, <1>t, RevokeSessionType
  <2>3. FramesTypeOK'
    BY <2>1, <1>m, MovesType DEF Moves, Operations, Statuses
  <2>4. closed' \subseteq UserID \cup SessionID
    BY <2>1 DEF TypeOK, Known
  <2>. QED BY <2>1, <2>2, <2>3, <2>4, MeterType DEF TypeOK, FramesTypeOK
<1>. QED BY <1>1, <1>2, <1>3, <1>4, <1>5, <1>6, <1>7, <1>8, <1>9, <1>10 DEF UserStep

\* Every step of chirp_handlers.go keeps the types.
LEMMA ChirpStepType ==
    ASSUME TypeOK, NEW r \in Request, ChirpStep(r)
    PROVE  TypeOK'
<1>. USE DEF history
<1>t. DBTypeOK /\ req[r] \in Frame
  BY DEF TypeOK
<1>m. FramesTypeOK
  BY DEF TypeOK, FramesTypeOK
<1>n. NoWrite => DBTypeOK'
  BY <1>t DEF DBTypeOK, NoWrite, tables
<1>1. CASE handleCreateChirp(r)
  <2>1. PICK t \in tokens \cup {Nil}, o \in Outcome :
           /\ Meter(o)
           /\ \/ /\ UserExists(Authenticated(t))
                 /\ Goto(r, [at |-> "chirp.insert", user |-> Authenticated(t),
                             sent |-> IF t \in LiveTokens THEN 0 ELSE 401,
                             bearer |-> t \in LiveTokens])
              \/ Respond(r, "chirp", FirstStatus(IF t \in LiveTokens THEN 0 ELSE 401, 400))
           /\ UNCHANGED <<tables, tokens, hits, now, history>>
    BY <1>1, ZenonT(60) DEF handleCreateChirp
  <2>2. ASSUME UserExists(Authenticated(t)),
               Goto(r, [at |-> "chirp.insert", user |-> Authenticated(t),
                        sent |-> IF t \in LiveTokens THEN 0 ELSE 401,
                        bearer |-> t \in LiveTokens])
        PROVE  Moves(r)
    <3>. DEFINE sent == IF t \in LiveTokens THEN 0 ELSE 401
                bearer == t \in LiveTokens
                codes == {0, 401}
                frame(code, b) == [at |-> "chirp.insert", user |-> Authenticated(t),
                                   sent |-> code, bearer |-> b]
    <3>1. Authenticated(t) \in UserID
      BY <2>2, <1>t DEF UserExists, DBTypeOK, UserRow
    <3>2. \A code \in codes : \A b \in BOOLEAN : frame(code, b) \in Frame
      BY <3>1 DEF Frame
    <3>3. sent \in codes
      OBVIOUS
    <3>4. bearer \in BOOLEAN
      OBVIOUS
    <3>5. Goto(r, frame(sent, bearer))
      BY <2>2
    <3>. HIDE DEF sent, bearer, codes, frame
    <3>6. \A b \in BOOLEAN : frame(sent, b) \in Frame
      BY <3>2, <3>3, Zenon
    <3>7. frame(sent, bearer) \in Frame
      BY <3>4, <3>6, Zenon
    <3>. QED BY <3>5, <3>7, Zenon DEF Moves
  <2>3. Respond(r, "chirp", FirstStatus(IF t \in LiveTokens THEN 0 ELSE 401, 400)) => Moves(r)
    BY DEF Moves, FirstStatus, Statuses, Operations
  <2>4. FramesTypeOK'
    BY <2>1, <2>2, <2>3, <1>m, MovesType, Zenon
  <2>. QED BY <2>1, <2>4, <1>n, MeterType DEF TypeOK, FramesTypeOK, NoWrite
<1>2. CASE chirpInsert(r)
  <2>1. req[r].user \in UserID /\ req[r].sent \in {0, 401}
    BY <1>2, <1>t, FrameFields DEF chirpInsert, At
  <2>2. PICK o \in Outcome :
           /\ Meter(o) /\ CreateChirp(o, req[r].user)
           /\ \E sent \in {0, 400, 401} : Respond(r, "chirp", FirstStatus(sent, 201))
           /\ UNCHANGED <<tokens, hits, now, history>>
    BY <1>2, <2>1 DEF chirpInsert, FirstStatus
  <2>3. DBTypeOK' BY <2>1, <2>2, <1>t, CreateChirpType
  <2>4. \A sent \in {0, 400, 401} : FirstStatus(sent, 201) \in Statuses
    BY DEF FirstStatus, Statuses
  <2>5. FramesTypeOK'
    BY <2>2, <2>4, <1>m, MovesType DEF Moves, Operations
  <2>. QED BY <2>2, <2>3, <2>5, MeterType DEF TypeOK, FramesTypeOK
<1>3. CASE handleDeleteChirp(r)
  <2>1. PICK t \in LiveTokens, id \in Known(ChirpID), o \in Outcome :
           /\ Meter(o)
           /\ \/ /\ \E c \in chirps : c.id = id /\ IsAuthor(c, t.sub)
                 /\ Goto(r, [at |-> "chirp.delete", chirp |-> id, user |-> t.sub])
              \/ \E code \in {403, 404} : Respond(r, "unchirp", code)
           /\ UNCHANGED <<tables, tokens, hits, now, history>>
    BY <1>3 DEF handleDeleteChirp
  <2>2. (\E c \in chirps : c.id = id /\ IsAuthor(c, t.sub))
            => [at |-> "chirp.delete", chirp |-> id, user |-> t.sub] \in Frame
    BY <1>t DEF DBTypeOK, ChirpRow, Frame, IsAuthor
  <2>3. FramesTypeOK'
    BY <2>1, <2>2, <1>m, MovesType DEF Moves, Operations, Statuses
  <2>. QED BY <2>1, <2>3, <1>n, MeterType DEF TypeOK, FramesTypeOK, NoWrite
<1>4. CASE chirpDelete(r)
  <2>1. PICK o \in Outcome :
           /\ Meter(o) /\ DeleteChirp(o, req[r].chirp)
           /\ \E code \in {204, 500} : Respond(r, "unchirp", code)
           /\ UNCHANGED <<tokens, hits, now, history>>
    BY <1>4 DEF chirpDelete
  <2>2. DBTypeOK' BY <2>1, <1>t, DeleteChirpType
  <2>3. FramesTypeOK'
    BY <2>1, <1>m, MovesType DEF Moves, Operations, Statuses
  <2>. QED BY <2>1, <2>2, <2>3, MeterType DEF TypeOK, FramesTypeOK
<1>5. CASE handleGetChirp(r) \/ handleGetChirps(r)
  <2>1. PICK o \in Outcome :
           /\ Meter(o)
           /\ \E op \in {"read", "list"}, sent \in {0, 400, 404} :
                 Respond(r, op, FirstStatus(sent, 200))
           /\ UNCHANGED <<tables, tokens, hits, now, history>>
    BY <1>5 DEF handleGetChirp, handleGetChirps
  <2>2. \A sent \in {0, 400, 404} : FirstStatus(sent, 200) \in Statuses
    BY DEF FirstStatus, Statuses
  <2>3. FramesTypeOK'
    BY <2>1, <2>2, <1>m, MovesType DEF Moves, Operations
  <2>. QED BY <2>1, <2>3, <1>n, MeterType DEF TypeOK, FramesTypeOK, NoWrite
<1>. QED BY <1>1, <1>2, <1>3, <1>4, <1>5 DEF ChirpStep

\* Every step of router.go keeps the types.
LEMMA RouterStepType ==
    ASSUME TypeOK, NEW r \in Request, RouterStep(r)
    PROVE  TypeOK'
<1>. USE DEF history
<1>t. DBTypeOK /\ req[r] \in Frame
  BY DEF TypeOK
<1>m. FramesTypeOK
  BY DEF TypeOK, FramesTypeOK
<1>n. NoWrite => DBTypeOK'
  BY <1>t DEF DBTypeOK, NoWrite, tables
<1>1. CASE handleReset(r)
  <2>1. /\ hits' = 0 /\ Goto(r, [at |-> "reset.users", from |-> visits])
        /\ UNCHANGED <<tables, tokens, now, faults, history>>
    BY <1>1 DEF handleReset
  <2>2. [at |-> "reset.users", from |-> visits] \in Frame
    BY DEF TypeOK, Frame
  <2>3. FramesTypeOK'
    BY <2>1, <2>2, <1>m, MovesType DEF Moves
  <2>. QED BY <2>1, <2>3, <1>n DEF TypeOK, FramesTypeOK, NoWrite
<1>2. CASE resetUsers(r)
  <2>1. PICK o \in Outcome :
           /\ Meter(o) /\ DeleteUsers(o, UserID)
           /\ \/ Goto(r, [at |-> "reset.hits", from |-> req[r].from])
              \/ Respond(r, "reset", 500)
           /\ closed' \in {closed, closed \cup {u.id : u \in users}}
           /\ UNCHANGED <<tokens, hits, now, signups, visits>>
    BY <1>2 DEF resetUsers
  <2>2. DBTypeOK' BY <2>1, <1>t, DeleteUsersType
  <2>3. req[r].from \in Nat
    BY <1>2, <1>t, FrameFields DEF resetUsers, At
  <2>4. [at |-> "reset.hits", from |-> req[r].from] \in Frame
    BY <2>3 DEF Frame
  <2>5. FramesTypeOK'
    BY <2>1, <2>4, <1>m, MovesType DEF Moves, Operations, Statuses
  <2>6. closed' \subseteq UserID \cup SessionID
    BY <2>1, <1>t DEF TypeOK, DBTypeOK, UserRow
  <2>. QED BY <2>1, <2>2, <2>5, <2>6, MeterType DEF TypeOK, FramesTypeOK
<1>3. CASE resetHits(r)
  <2>1. Respond(r, "reset", 200) /\ UNCHANGED <<tables, tokens, hits, now, faults, history>>
    BY <1>3 DEF resetHits
  <2>2. FramesTypeOK'
    BY <2>1, <1>m, MovesType DEF Moves, Operations, Statuses
  <2>. QED BY <2>1, <2>2, <1>n DEF TypeOK, FramesTypeOK, NoWrite
<1>4. CASE handlePolkaWebhook(r)
  <2>1. PICK id \in Known(UserID), o \in Outcome :
           /\ Meter(o) /\ UpgradeUser(o, id)
           /\ \E code \in {204, 404} : Respond(r, "webhook", code)
           /\ UNCHANGED <<tokens, hits, now, history>>
    BY <1>4 DEF handlePolkaWebhook
  <2>2. DBTypeOK' BY <2>1, <1>t, UpgradeUserType
  <2>3. FramesTypeOK'
    BY <2>1, <1>m, MovesType DEF Moves, Operations, Statuses
  <2>. QED BY <2>1, <2>2, <2>3, MeterType DEF TypeOK, FramesTypeOK
<1>5. CASE MiddlewareMetricsInc(r)
  <2>1. /\ hits' = hits + 1 /\ visits' = visits + 1 /\ Respond(r, "app", 200)
        /\ UNCHANGED <<tables, tokens, now, faults, closed, signups>>
    BY <1>5 DEF MiddlewareMetricsInc
  <2>2. FramesTypeOK'
    BY <2>1, <1>m, MovesType DEF Moves, Operations, Statuses
  <2>. QED BY <2>1, <2>2, <1>n DEF TypeOK, FramesTypeOK, NoWrite
<1>6. CASE replyEarly(r)
  <2>1. PICK e \in EarlyReplies :
           /\ Respond(r, e[1], e[2])
           /\ UNCHANGED <<tables, tokens, hits, now, faults, history>>
    BY <1>6 DEF replyEarly
  <2>2. e[1] \in Operations /\ e[2] \in Statuses
    BY DEF EarlyReplies, Operations, Statuses
  <2>3. FramesTypeOK'
    BY <2>1, <2>2, <1>m, MovesType DEF Moves
  <2>. QED BY <2>1, <2>3, <1>n DEF TypeOK, FramesTypeOK, NoWrite
<1>. QED BY <1>1, <1>2, <1>3, <1>4, <1>5, <1>6 DEF RouterStep

\* A crash and the passing of time keep the types.
LEMMA CrashTickType ==
    ASSUME TypeOK, Crash \/ Tick
    PROVE  TypeOK'
<1>1. DBTypeOK'
  BY DEF TypeOK, Crash, Tick, DBTypeOK, tables
<1>2. CASE Crash
  <2>1. [r \in Request |-> Idle] \in [Request -> Frame]
    BY DEF Frame
  <2>. QED BY <1>1, <1>2, <2>1 DEF TypeOK, Crash, history
<1>3. CASE Tick
  BY <1>1, <1>3 DEF TypeOK, Tick, history
<1>. QED BY <1>2, <1>3

(***************************************************************************)
(* In every reachable state, tables, frames, counters and history hold     *)
(* values of their types: no handler ever keeps a frame it cannot read.    *)
(***************************************************************************)
THEOREM TypeCorrect == Spec => []TypeOK
<1>1. Init => TypeOK
  BY DEF Init, TypeOK, DBInit, DBTypeOK, Frame
<1>2. TypeOK /\ [Next]_vars => TypeOK'
  <2>1. CASE UNCHANGED vars
    BY <2>1 DEF TypeOK, DBTypeOK, vars, tables, history
  <2>2. CASE Next
    BY <2>2, UserStepType, ChirpStepType, RouterStepType, CrashTickType DEF Next
  <2>. QED BY <2>1, <2>2
<1>. QED BY <1>1, <1>2, PTL DEF Spec

-----------------------------------------------------------------------------
(***************************************************************************)
(* Two limits: no access token outlives the hour, and a reset never        *)
(* reports visits that came before it. Neither depends on what is in the   *)
(* tables, only on what handlers remember while others run.                *)
(***************************************************************************)

\* The token a login made before it stored the session is as short as those
\* clients hold.
LoginsAreShort ==
    \A r \in Request : At(r, "login.session") => req[r].token.exp <= now + AccessTTL

TokensAreShort == AccessIsShort /\ LoginsAreShort

\* A step of request r leaves the frames of the others alone.
OthersRest(r) == \A q \in Request \ {r} : req'[q] = req[q]

-----------------------------------------------------------------------------
\* The lifetime of an access token, whatever the client wished.
LEMMA LifetimeIsBounded ==
    \A want \in Requested : AccessLifetime(want) \in Nat /\ AccessLifetime(want) <= AccessTTL
BY TTLsArePositive, RequestedIsInteger DEF AccessLifetime

\* A request that goes on without a login leaves the other logins alone.
LEMMA FramesStayShort ==
    ASSUME TokensAreShort, NEW r \in Request, now' = now, OthersRest(r),
           req'[r].at = "login.session" => req'[r].token.exp <= now + AccessTTL
    PROVE  LoginsAreShort'
BY DEF TokensAreShort, LoginsAreShort, At, OthersRest

\* Every step of user_handlers.go keeps tokens short.
LEMMA UserStepIsShort ==
    ASSUME TypeOK, TokensAreShort, NEW r \in Request, UserStep(r)
    PROVE  TokensAreShort'
<1>f. req \in [Request -> Frame]
  BY DEF TypeOK
<1>n. now' = now /\ now \in Nat
  BY DEF UserStep, handleCreateUser, handleUpdateUser, putCreate, putFind, putDelete,
     handleLogin, loginSession, handleSessionRefresh, refreshMint, handleSessionRevoke, TypeOK
<1>1. CASE handleLogin(r)
  <2>1. tokens' = tokens
    BY <1>1 DEF handleLogin
  <2>2. /\ OthersRest(r)
        /\ req'[r].at = "login.session" => req'[r].token.exp <= now + AccessTTL
    <3>1. CASE \E op, code : Respond(r, op, code)
      BY <1>f, <3>1 DEF Respond, Idle, OthersRest
    <3>2. CASE \E u \in users, want \in Requested :
                   Goto(r, [at |-> "login.session", user |-> u.id,
                            token |-> MakeJWT(u.id, AccessLifetime(want)),
                            expires |-> now + SessionTTL])
      <4>1. PICK u \in users, want \in Requested :
                   req'= [req EXCEPT ![r] = [at |-> "login.session", user |-> u.id,
                            token |-> [sub |-> u.id, exp |-> now + AccessLifetime(want)],
                            expires |-> now + SessionTTL]]
        BY <3>2 DEF Goto, MakeJWT
      <4>2. req'[r].token.exp = now + AccessLifetime(want) /\ OthersRest(r)
        BY <1>f, <4>1 DEF OthersRest
      <4>. QED BY <1>n, <4>2, LifetimeIsBounded, TTLsArePositive
    <3>. QED BY <1>1, <3>1, <3>2 DEF handleLogin
  <2>. QED BY <1>n, <2>1, <2>2, FramesStayShort DEF TokensAreShort, AccessIsShort
<1>2. CASE loginSession(r)
  <2>1. OthersRest(r) /\ req'[r] = Idle
    BY <1>f, <1>2 DEF loginSession, Respond, OthersRest
  <2>2. LoginsAreShort'
    BY <1>n, <2>1, FramesStayShort DEF Idle
  <2>3. tokens' = tokens \/ tokens' = tokens \cup {req[r].token}
    BY <1>2 DEF loginSession
  <2>4. req[r].token.exp <= now + AccessTTL
    BY <1>2 DEF loginSession, TokensAreShort, LoginsAreShort
  <2>. QED BY <1>n, <2>2, <2>3, <2>4 DEF TokensAreShort, AccessIsShort
<1>3. CASE refreshMint(r)
  <2>1. OthersRest(r) /\ req'[r] = Idle
    BY <1>f, <1>3 DEF refreshMint, Respond, OthersRest
  <2>2. LoginsAreShort'
    BY <1>n, <2>1, FramesStayShort DEF Idle
  <2>3. \A t \in tokens' : t \in tokens \/ t.exp = now + AccessTTL
    BY <1>3 DEF refreshMint, MakeJWT
  <2>. QED BY <1>n, <2>2, <2>3, TTLsArePositive DEF TokensAreShort, AccessIsShort
<1>4. CASE \/ handleCreateUser(r) \/ handleUpdateUser(r) \/ putCreate(r) \/ putFind(r)
           \/ putDelete(r) \/ handleSessionRefresh(r) \/ handleSessionRevoke(r)
  <2>1. tokens' = tokens
    BY <1>4 DEF handleCreateUser, handleUpdateUser, putCreate, putFind, putDelete,
       handleSessionRefresh, handleSessionRevoke
  <2>2. OthersRest(r) /\ req'[r].at # "login.session"
    BY <1>f, <1>4 DEF OthersRest, handleCreateUser, handleUpdateUser, putCreate, putFind, putDelete,
       handleSessionRefresh, handleSessionRevoke, Goto, Respond, Idle
  <2>. QED BY <1>n, <2>1, <2>2, FramesStayShort DEF TokensAreShort, AccessIsShort
<1>. QED BY <1>1, <1>2, <1>3, <1>4 DEF UserStep

\* The other handlers make no token.
LEMMA OtherStepIsShort ==
    ASSUME TypeOK, TokensAreShort, NEW r \in Request, ChirpStep(r) \/ RouterStep(r)
    PROVE  TokensAreShort'
<1>f. req \in [Request -> Frame]
  BY DEF TypeOK
<1>1. now' = now /\ tokens' = tokens
  <2>1. CASE ChirpStep(r)
    BY <2>1 DEF ChirpStep, handleCreateChirp, chirpInsert, handleDeleteChirp, chirpDelete,
       handleGetChirp, handleGetChirps
  <2>2. CASE RouterStep(r)
    BY <2>2 DEF RouterStep, handleReset, resetUsers, resetHits, handlePolkaWebhook,
       MiddlewareMetricsInc, replyEarly
  <2>. QED BY <2>1, <2>2
<1>2. OthersRest(r) /\ req'[r].at # "login.session"
  <2>1. CASE ChirpStep(r)
    BY <1>f, <2>1 DEF OthersRest, ChirpStep, handleCreateChirp, chirpInsert, handleDeleteChirp, chirpDelete,
       handleGetChirp, handleGetChirps, Goto, Respond, Idle
  <2>2. CASE RouterStep(r)
    BY <1>f, <2>2 DEF OthersRest, RouterStep, handleReset, resetUsers, resetHits, handlePolkaWebhook,
       MiddlewareMetricsInc, replyEarly, Goto, Respond, Idle
  <2>. QED BY <2>1, <2>2
<1>. QED BY <1>1, <1>2, FramesStayShort DEF TokensAreShort, AccessIsShort

\* Every step keeps tokens short: only time passing could have given more room.
LEMMA StepIsShort ==
    ASSUME TypeOK, TokensAreShort, [Next]_vars
    PROVE  TokensAreShort'
<1>1. CASE Crash
  BY <1>1 DEF Crash, TokensAreShort, AccessIsShort, LoginsAreShort, At, Idle
<1>2. CASE Tick
  <2>1. now' = now + 1 /\ tokens' = tokens /\ req' = req
    BY <1>2 DEF Tick
  <2>2. /\ now \in Nat /\ tokens \subseteq Token
        /\ \A r \in Request : At(r, "login.session") => req[r].token \in Token
    BY FrameFields DEF TypeOK, At
  <2>. QED BY <2>1, <2>2, TTLsArePositive DEF TokensAreShort, AccessIsShort, LoginsAreShort, At, Token
<1>3. CASE UNCHANGED vars
  BY <1>3 DEF vars, TokensAreShort, AccessIsShort, LoginsAreShort, At
<1>. QED BY <1>1, <1>2, <1>3, UserStepIsShort, OtherStepIsShort DEF Next

(***************************************************************************)
(* No access token a client holds outlives the hour, whatever lifetime the *)
(* login asked for and however long the session took to store.             *)
(***************************************************************************)
THEOREM AccessIsShortCorrect == Spec => []AccessIsShort
<1>1. Init => TokensAreShort
  BY DEF Init, TokensAreShort, AccessIsShort, LoginsAreShort, At, Idle
<1>2. TypeOK /\ TokensAreShort /\ [Next]_vars => TokensAreShort'
  BY StepIsShort
<1>3. TokensAreShort => AccessIsShort
  BY DEF TokensAreShort
<1>. QED BY <1>1, <1>2, <1>3, TypeCorrect, PTL DEF Spec

-----------------------------------------------------------------------------
\* A step that neither visits nor begins a reset leaves the books as they are.
LEMMA ResetUndisturbed ==
    ASSUME ResetCountsAfresh, NEW r \in Request, UNCHANGED <<hits, visits>>,
           OthersRest(r),
           req'[r].at \in {"reset.users", "reset.hits"} =>
               req[r].at \in {"reset.users", "reset.hits"} /\ req'[r].from = req[r].from
    PROVE  ResetCountsAfresh'
BY DEF ResetCountsAfresh, OthersRest

\* The steps of router.go, which visit and reset.
LEMMA RouterStepCounts ==
    ASSUME TypeOK, ResetCountsAfresh, NEW r \in Request, RouterStep(r)
    PROVE  ResetCountsAfresh'
<1>t. /\ hits \in Nat /\ visits \in Nat /\ req \in [Request -> Frame]
      /\ \A q \in Request : req[q].at \in {"reset.users", "reset.hits"} => req[q].from \in Nat
  BY FrameFields DEF TypeOK
<1>1. CASE handleReset(r)
  <2>1. /\ hits' = 0 /\ visits' = visits
        /\ req' = [req EXCEPT ![r] = [at |-> "reset.users", from |-> visits]]
    BY <1>1 DEF handleReset, Goto, history
  <2>. QED BY <1>t, <2>1 DEF ResetCountsAfresh
<1>2. CASE MiddlewareMetricsInc(r)
  <2>1. /\ hits' = hits + 1 /\ visits' = visits + 1
        /\ req' = [req EXCEPT ![r] = Idle]
    BY <1>2 DEF MiddlewareMetricsInc, Respond
  <2>. QED BY <1>t, <2>1 DEF ResetCountsAfresh, Idle
<1>3. CASE resetUsers(r)
  <2>1. UNCHANGED <<hits, visits>> /\ req[r].at = "reset.users"
    BY <1>3 DEF resetUsers, At
  <2>2. /\ OthersRest(r)
        /\ req'[r] = Idle \/ req'[r] = [at |-> "reset.hits", from |-> req[r].from]
    BY <1>t, <1>3 DEF resetUsers, Goto, Respond, OthersRest
  <2>. QED BY <2>1, <2>2, ResetUndisturbed DEF Idle
<1>4. CASE resetHits(r) \/ handlePolkaWebhook(r) \/ replyEarly(r)
  <2>1. UNCHANGED <<hits, visits>> /\ OthersRest(r) /\ req'[r] = Idle
    BY <1>t, <1>4 DEF OthersRest, resetHits, handlePolkaWebhook, replyEarly, Respond, history
  <2>. QED BY <2>1, ResetUndisturbed DEF Idle
<1>. QED BY <1>1, <1>2, <1>3, <1>4 DEF RouterStep

\* The other handlers neither visit nor reset.
LEMMA OtherStepCounts ==
    ASSUME TypeOK, ResetCountsAfresh, NEW r \in Request, UserStep(r) \/ ChirpStep(r)
    PROVE  ResetCountsAfresh'
<1>1. UNCHANGED <<hits, visits>>
  <2>1. CASE UserStep(r)
    BY <2>1 DEF UserStep, handleCreateUser, handleUpdateUser, putCreate, putFind, putDelete,
       handleLogin, loginSession, handleSessionRefresh, refreshMint, handleSessionRevoke, history
  <2>2. CASE ChirpStep(r)
    BY <2>2, Zenon DEF ChirpStep, handleCreateChirp, chirpInsert, handleDeleteChirp, chirpDelete,
       handleGetChirp, handleGetChirps, history
  <2>. QED BY <2>1, <2>2
<1>f. req \in [Request -> Frame]
  BY DEF TypeOK
<1>2. OthersRest(r) /\ req'[r].at \notin {"reset.users", "reset.hits"}
  <2>1. CASE UserStep(r)
    BY <1>f, <2>1 DEF OthersRest, UserStep, handleCreateUser, handleUpdateUser, putCreate, putFind, putDelete,
       handleLogin, loginSession, handleSessionRefresh, refreshMint, handleSessionRevoke,
       Goto, Respond, Idle
  <2>2. CASE ChirpStep(r)
    BY <1>f, <2>2 DEF OthersRest, ChirpStep, handleCreateChirp, chirpInsert, handleDeleteChirp, chirpDelete,
       handleGetChirp, handleGetChirps, Goto, Respond, Idle
  <2>. QED BY <2>1, <2>2
<1>. QED BY <1>1, <1>2, ResetUndisturbed

(***************************************************************************)
(* While a reset is under way the counter never includes a visit made      *)
(* before it began, however many visits, resets and crashes land between   *)
(* its three steps.                                                        *)
(***************************************************************************)
THEOREM ResetCountsAfreshCorrect == Spec => []ResetCountsAfresh
<1>1. Init => ResetCountsAfresh
  BY DEF Init, ResetCountsAfresh, Idle
<1>2. TypeOK /\ ResetCountsAfresh /\ [Next]_vars => ResetCountsAfresh'
  <2>1. ASSUME Crash PROVE ResetCountsAfresh'
    BY <2>1 DEF Crash, ResetCountsAfresh, Idle
  <2>2. ASSUME ResetCountsAfresh, Tick \/ UNCHANGED vars PROVE ResetCountsAfresh'
    BY <2>2 DEF Tick, vars, history, ResetCountsAfresh
  <2>. QED BY <2>1, <2>2, RouterStepCounts, OtherStepCounts DEF Next
<1>. QED BY <1>1, <1>2, TypeCorrect, PTL DEF Spec

-----------------------------------------------------------------------------
(***************************************************************************)
(* Safety. The argument, from the bottom up:                               *)
(*   1. every SQL statement keeps the schema's constraints, never reuses   *)
(*      an id, and changes neither the address of an account nor a         *)
(*      revocation (Evolves);                                              *)
(*   2. so what a handler read stays usable: the account it will replace   *)
(*      either is gone or still has the address that was read (FrameSound);*)
(*   3. so deleting by that address does delete that account, and what was *)
(*      reported closed cannot come back, since ids are never drawn twice. *)
(***************************************************************************)

\* A handler's frame agrees with the tables us and the drawn ids sp.
FrameSound(f, us, sp) ==
    /\ f.at \in {"put.create", "put.find", "put.delete"} =>
          /\ f.old.id \in sp
          /\ \A u \in us : u.id = f.old.id => u.email = f.old.email
    /\ f.at = "put.delete" => \A u \in us : u.id = f.old.id => f.victim = u.id
    /\ f.at = "refresh.mint" /\ f.late => f.session.revoked

FramesSound == \A r \in Request : FrameSound(req[r], users, spent)

ClosedSpent == closed \subseteq spent

\* The inductive invariant.
IInv == TypeOK /\ TablesOK /\ FramesSound /\ ClosedSpent /\ ClosedStaysClosed

-----------------------------------------------------------------------------
(* 1. Statements.                                                          *)

\* Every step of the server is one of these statements, or none.
LEMMA StepKeepsTables ==
    ASSUME TypeOK, TablesOK, Next
    PROVE  TablesOK' /\ Evolves
<1>t. DBTypeOK
  BY DEF TypeOK
<1>n. UNCHANGED tables => TablesOK' /\ Evolves
  BY NoWriteKeeps DEF NoWrite
<1>1. CASE Crash \/ Tick
  BY <1>1, <1>n DEF Crash, Tick
<1>2. ASSUME NEW r \in Request, UserStep(r) PROVE TablesOK' /\ Evolves
  <2>1. CASE handleCreateUser(r)
    BY <2>1, CreateUserKeeps DEF handleCreateUser
  <2>2. CASE putCreate(r)
    BY <2>2, CreateUserKeeps DEF putCreate
  <2>3. CASE putDelete(r)
    BY <2>3, DeleteUsersKeeps DEF putDelete
  <2>4. CASE loginSession(r)
    BY <2>4, CreateSessionKeeps DEF loginSession
  <2>5. CASE handleSessionRevoke(r)
    BY <2>5, <1>t, RevokeSessionKeeps DEF handleSessionRevoke
  <2>6. CASE \/ handleUpdateUser(r) \/ putFind(r) \/ handleLogin(r)
             \/ handleSessionRefresh(r) \/ refreshMint(r)
    BY <2>6, <1>n DEF handleUpdateUser, putFind, handleLogin, handleSessionRefresh, refreshMint
  <2>. QED BY <1>2, <2>1, <2>2, <2>3, <2>4, <2>5, <2>6 DEF UserStep
<1>3. ASSUME NEW r \in Request, ChirpStep(r) PROVE TablesOK' /\ Evolves
  <2>1. CASE chirpInsert(r)
    BY <2>1, CreateChirpKeeps DEF chirpInsert
  <2>2. CASE chirpDelete(r)
    BY <2>2, DeleteChirpKeeps DEF chirpDelete
  <2>3. CASE \/ handleCreateChirp(r) \/ handleDeleteChirp(r)
             \/ handleGetChirp(r) \/ handleGetChirps(r)
    BY <2>3, <1>n DEF handleCreateChirp, handleDeleteChirp, handleGetChirp, handleGetChirps
  <2>. QED BY <1>3, <2>1, <2>2, <2>3 DEF ChirpStep
<1>4. ASSUME NEW r \in Request, RouterStep(r) PROVE TablesOK' /\ Evolves
  <2>1. CASE resetUsers(r)
    BY <2>1, DeleteUsersKeeps DEF resetUsers
  <2>2. CASE handlePolkaWebhook(r)
    BY <2>2, <1>t, UpgradeUserKeeps DEF handlePolkaWebhook
  <2>3. CASE handleReset(r) \/ resetHits(r) \/ MiddlewareMetricsInc(r) \/ replyEarly(r)
    BY <2>3, <1>n DEF handleReset, resetHits, MiddlewareMetricsInc, replyEarly
  <2>. QED BY <1>4, <2>1, <2>2, <2>3 DEF RouterStep
<1>. QED BY <1>1, <1>2, <1>3, <1>4 DEF Next

-----------------------------------------------------------------------------
(* 2. Frames.                                                              *)

\* A frame that agrees with the tables agrees with them after any statement.
LEMMA FrameStable ==
    ASSUME Evolves, NEW f, FrameSound(f, users, spent)
    PROVE  FrameSound(f, users', spent')
BY DEF Evolves, FrameSound

\* A request that goes on to a sound frame leaves all frames sound.
LEMMA GotoSound ==
    ASSUME req \in [Request -> Frame], FramesSound, Evolves, NEW r \in Request,
           NEW f, Goto(r, f), FrameSound(f, users', spent')
    PROVE  FramesSound'
<1>1. \A q \in Request : req'[q] = req[q] \/ req'[q] = f
  BY DEF Goto
<1>2. \A q \in Request : FrameSound(req[q], users', spent')
  BY FrameStable DEF FramesSound
<1>. QED BY <1>1, <1>2 DEF FramesSound

\* A request that responds leaves all frames sound.
LEMMA RespondSound ==
    ASSUME req \in [Request -> Frame], FramesSound, Evolves, NEW r \in Request,
           NEW op, NEW code, Respond(r, op, code)
    PROVE  FramesSound'
<1>1. \A q \in Request : req'[q] = req[q] \/ req'[q] = Idle
  BY DEF Respond
<1>2. \A q \in Request : FrameSound(req[q], users', spent')
  BY FrameStable DEF FramesSound
<1>3. FrameSound(Idle, users', spent')
  BY DEF FrameSound, Idle
<1>. QED BY <1>1, <1>2, <1>3 DEF FramesSound

\* PUT keeps the account it read, finds it by its address, and no other.
LEMMA PutKeepsFrames ==
    ASSUME IInv, Evolves, NEW r \in Request, 
           handleUpdateUser(r) \/ putCreate(r) \/ putFind(r) \/ putDelete(r)
    PROVE  FramesSound'
<1>t. req \in [Request -> Frame] /\ FramesSound /\ FrameSound(req[r], users, spent)
  BY DEF IInv, TypeOK, FramesSound
<1>1. CASE handleUpdateUser(r)
  <2>1. PICK e, p : \/ \E u \in users :
                          Goto(r, [at |-> "put.create", old |-> [id |-> u.id, email |-> u.email],
                                   email |-> e, password |-> p])
                    \/ Respond(r, "put", 401)
    BY <1>1, ZenonT(60) DEF handleUpdateUser
  <2>2. users' = users /\ spent' = spent
    BY <1>1 DEF handleUpdateUser, tables
  <2>3. ASSUME NEW u \in users,
               Goto(r, [at |-> "put.create", old |-> [id |-> u.id, email |-> u.email],
                        email |-> e, password |-> p])
        PROVE  FramesSound'
    <3>1. FrameSound([at |-> "put.create", old |-> [id |-> u.id, email |-> u.email],
                      email |-> e, password |-> p], users', spent')
      BY <2>2 DEF FrameSound, IInv, TablesOK, RowsSpent, SchemaHolds, IdsAreKeys
    <3>. QED BY <2>3, <3>1, <1>t, GotoSound
  <2>4. Respond(r, "put", 401) => FramesSound'
    BY <1>t, RespondSound
  <2>. QED BY <2>1, <2>3, <2>4, Zenon
<1>2. CASE putCreate(r)
  <2>1. \/ Goto(r, [at |-> "put.find", old |-> req[r].old])
        \/ \E code : Respond(r, "put", code)
    BY <1>2 DEF putCreate
  <2>2. FrameSound([at |-> "put.find", old |-> req[r].old], users', spent')
    BY <1>2, <1>t, FrameStable DEF FrameSound, putCreate, At
  <2>. QED BY <2>1, <2>2, <1>t, GotoSound, RespondSound
<1>3. CASE putFind(r)
  <2>1. \/ \E u \in users :
              /\ u.email = req[r].old.email
              /\ Goto(r, [at |-> "put.delete", old |-> req[r].old, victim |-> u.id])
        \/ Respond(r, "put", 200)
    BY <1>3, Zenon DEF putFind
  <2>2. users' = users /\ spent' = spent
    BY <1>3 DEF putFind, tables
  <2>3. ASSUME NEW u \in users, u.email = req[r].old.email,
               Goto(r, [at |-> "put.delete", old |-> req[r].old, victim |-> u.id])
        PROVE  FramesSound'
    <3>1. /\ req[r].old.id \in spent
          /\ \A v \in users : v.id = req[r].old.id => v.email = req[r].old.email
      BY <1>3, <1>t DEF FrameSound, putFind, At
    <3>2. FrameSound([at |-> "put.delete", old |-> req[r].old, victim |-> u.id], users', spent')
      BY <2>2, <2>3, <3>1 DEF FrameSound, IInv, TablesOK, SchemaHolds, OneAccountPerEmail
    <3>. QED BY <2>3, <3>2, <1>t, GotoSound
  <2>4. Respond(r, "put", 200) => FramesSound'
    BY <1>t, RespondSound
  <2>. QED BY <2>1, <2>3, <2>4, Zenon
<1>4. CASE putDelete(r)
  BY <1>4, <1>t, RespondSound DEF putDelete
<1>. QED BY <1>1, <1>2, <1>3, <1>4

\* A session read after it was closed was read as revoked.
LEMMA SessionsKeepFrames ==
    ASSUME IInv, Evolves, NEW r \in Request,
           \/ handleLogin(r) \/ loginSession(r) \/ handleSessionRefresh(r)
           \/ refreshMint(r) \/ handleSessionRevoke(r)
    PROVE  FramesSound'
<1>t. req \in [Request -> Frame] /\ FramesSound
  BY DEF IInv, TypeOK
<1>1. CASE handleSessionRefresh(r)
  <2>1. \/ \E s \in sessions : Goto(r, [at |-> "refresh.mint", session |-> s,
                                       late |-> {s.id, s.user} \cap closed # {}])
        \/ Respond(r, "refresh", 401)
    BY <1>1, ZenonT(60) DEF handleSessionRefresh
  <2>2. ASSUME NEW s \in sessions,
               Goto(r, [at |-> "refresh.mint", session |-> s,
                        late |-> {s.id, s.user} \cap closed # {}])
        PROVE  FramesSound'
    <3>1. {s.id, s.user} \cap closed # {} => s.revoked
      BY DEF IInv, ClosedStaysClosed
    <3>2. FrameSound([at |-> "refresh.mint", session |-> s,
                      late |-> {s.id, s.user} \cap closed # {}], users', spent')
      BY <3>1 DEF FrameSound
    <3>. QED BY <2>2, <3>2, <1>t, GotoSound
  <2>3. Respond(r, "refresh", 401) => FramesSound'
    BY <1>t, RespondSound
  <2>. QED BY <2>1, <2>2, <2>3, Zenon
<1>2. CASE handleLogin(r)
  <2>1. PICK want : \/ \E u \in users :
                          Goto(r, [at |-> "login.session", user |-> u.id,
                                   token |-> MakeJWT(u.id, AccessLifetime(want)),
                                   expires |-> now + SessionTTL])
                    \/ \E code : Respond(r, "login", code)
    BY <1>2, ZenonT(60) DEF handleLogin
  <2>2. ASSUME NEW u \in users,
               Goto(r, [at |-> "login.session", user |-> u.id,
                        token |-> MakeJWT(u.id, AccessLifetime(want)),
                        expires |-> now + SessionTTL])
        PROVE  FramesSound'
    <3>1. FrameSound([at |-> "login.session", user |-> u.id,
                      token |-> MakeJWT(u.id, AccessLifetime(want)),
                      expires |-> now + SessionTTL], users', spent')
      BY DEF FrameSound
    <3>. QED BY <2>2, <3>1, <1>t, GotoSound
  <2>3. (\E code : Respond(r, "login", code)) => FramesSound'
    BY <1>t, RespondSound
  <2>. QED BY <2>1, <2>2, <2>3, Zenon
<1>3. CASE loginSession(r) \/ refreshMint(r) \/ handleSessionRevoke(r)
  <2>1. \E op, code : Respond(r, op, code)
    BY <1>3 DEF loginSession, refreshMint, handleSessionRevoke
  <2>. QED BY <2>1, <1>t, RespondSound
<1>. QED BY <1>1, <1>2, <1>3

\* Every step of the server leaves all frames sound.
LEMMA StepKeepsFrames ==
    ASSUME IInv, Evolves, Next
    PROVE  FramesSound'
<1>t. req \in [Request -> Frame] /\ FramesSound
  BY DEF IInv, TypeOK
<1>1. ASSUME NEW r \in Request, handleCreateUser(r) PROVE FramesSound'
  BY <1>1, <1>t, RespondSound DEF handleCreateUser
<1>2. ASSUME NEW r \in Request, ChirpStep(r) PROVE FramesSound'
  <2>1. CASE handleCreateChirp(r)
    <3>1. PICK t : \/ Goto(r, [at |-> "chirp.insert", user |-> Authenticated(t),
                               sent |-> IF t \in LiveTokens THEN 0 ELSE 401,
                               bearer |-> t \in LiveTokens])
                   \/ \E code : Respond(r, "chirp", code)
      BY <2>1, ZenonT(60) DEF handleCreateChirp
    <3>2. FrameSound([at |-> "chirp.insert", user |-> Authenticated(t),
                      sent |-> IF t \in LiveTokens THEN 0 ELSE 401,
                      bearer |-> t \in LiveTokens], users', spent')
      BY DEF FrameSound
    <3>. QED BY <3>1, <3>2, <1>t, GotoSound, RespondSound
  <2>2. CASE handleDeleteChirp(r)
    <3>1. PICK t, id : \/ Goto(r, [at |-> "chirp.delete", chirp |-> id, user |-> t.sub])
                       \/ \E code : Respond(r, "unchirp", code)
      BY <2>2, ZenonT(60) DEF handleDeleteChirp
    <3>2. FrameSound([at |-> "chirp.delete", chirp |-> id, user |-> t.sub], users', spent')
      BY DEF FrameSound
    <3>. QED BY <3>1, <3>2, <1>t, GotoSound, RespondSound
  <2>3. CASE chirpInsert(r) \/ chirpDelete(r) \/ handleGetChirp(r) \/ handleGetChirps(r)
    <3>1. \E op, code : Respond(r, op, code)
      BY <2>3 DEF chirpInsert, chirpDelete, handleGetChirp, handleGetChirps
    <3>. QED BY <3>1, <1>t, RespondSound
  <2>. QED BY <1>2, <2>1, <2>2, <2>3 DEF ChirpStep
<1>3. ASSUME NEW r \in Request, RouterStep(r) PROVE FramesSound'
  <2>1. CASE handleReset(r) \/ resetUsers(r)
    <3>1. \/ \E step \in {"reset.users", "reset.hits"} : \E from :
                Goto(r, [at |-> step, from |-> from])
          \/ \E code : Respond(r, "reset", code)
      BY <2>1, ZenonT(60) DEF handleReset, resetUsers
    <3>2. \A step \in {"reset.users", "reset.hits"} : \A from :
             FrameSound([at |-> step, from |-> from], users', spent')
      BY DEF FrameSound
    <3>. QED BY <3>1, <3>2, <1>t, GotoSound, RespondSound
  <2>2. CASE resetHits(r) \/ handlePolkaWebhook(r) \/ MiddlewareMetricsInc(r) \/ replyEarly(r)
    <3>1. \E op, code : Respond(r, op, code)
      BY <2>2 DEF resetHits, handlePolkaWebhook, MiddlewareMetricsInc, replyEarly
    <3>. QED BY <3>1, <1>t, RespondSound
  <2>. QED BY <1>3, <2>1, <2>2 DEF RouterStep
<1>4. CASE Crash
  <2>1. \A q \in Request : req'[q] = Idle
    BY <1>4 DEF Crash
  <2>. QED BY <2>1 DEF FramesSound, FrameSound, Idle
<1>5. CASE Tick
  BY <1>5, <1>t DEF Tick, tables, FramesSound
<1>. QED BY <1>1, <1>2, <1>3, <1>4, <1>5, PutKeepsFrames, SessionsKeepFrames DEF Next, UserStep

-----------------------------------------------------------------------------
(* 3. What was closed stays closed.                                        *)

\* No statement brings back a closed id, because none draws an id twice.
LEMMA ClosedStable ==
    ASSUME TablesOK', Evolves, ClosedSpent, ClosedStaysClosed
    PROVE  /\ closed \subseteq spent'
           /\ \A u \in users' : u.id \notin closed
           /\ \A s \in sessions' : s.id \in closed => s.revoked
<1>1. closed \subseteq spent'
  BY DEF ClosedSpent, Evolves
<1>2. \A u \in users' : u.id \notin closed
  BY DEF ClosedSpent, Evolves, ClosedStaysClosed
<1>3. \A s \in sessions' : s.id \in closed => s.revoked
  BY DEF ClosedSpent, Evolves, ClosedStaysClosed
<1>. QED BY <1>1, <1>2, <1>3

\* An account without a row has no session and no chirp: closing it is safe.
LEMMA CloseAbsent ==
    ASSUME TypeOK, TablesOK', Evolves, ClosedSpent, ClosedStaysClosed, DBTypeOK',
           NEW C, C \subseteq UserID, C \subseteq spent,
           \A u \in users' : u.id \notin C,
           closed' = closed \cup C
    PROVE  ClosedSpent' /\ ClosedStaysClosed'
<1>1. /\ closed \subseteq spent'
      /\ \A u \in users' : u.id \notin closed
      /\ \A s \in sessions' : s.id \in closed => s.revoked
  BY ClosedStable
<1>2. ClosedSpent'
  BY <1>1 DEF ClosedSpent, Evolves
<1>3. \A u \in users' : u.id \notin closed'
  BY <1>1
<1>4. /\ \A s \in sessions' : s.user \notin closed'
      /\ \A c \in chirps' : c.user \notin closed'
  BY <1>3 DEF TablesOK, SchemaHolds, OwnersExist, UserExists
<1>5. \A s \in sessions' : s.id \in closed' => s.revoked
  BY <1>1, IdsAreDistinct DEF DBTypeOK, SessionRow
<1>. QED BY <1>2, <1>3, <1>4, <1>5 DEF ClosedStaysClosed

\* Closing nothing is safe.
LEMMA CloseNone ==
    ASSUME IInv, TypeOK', TablesOK', Evolves, closed' = closed
    PROVE  ClosedSpent' /\ ClosedStaysClosed'
<1>1. PICK C : C = {}
  OBVIOUS
<1>2. /\ closed' = closed \cup C /\ C \subseteq UserID /\ C \subseteq spent
      /\ \A u \in users' : u.id \notin C
  BY <1>1
<1>3. TypeOK /\ ClosedSpent /\ ClosedStaysClosed /\ DBTypeOK'
  BY DEF IInv, TypeOK
<1>. QED BY <1>2, <1>3, CloseAbsent

\* An account that a PUT is told is deleted has no row left.
LEMMA PutCloses ==
    ASSUME IInv, Next, TypeOK', TablesOK', Evolves,
           NEW r \in Request, putFind(r) \/ putDelete(r)
    PROVE  ClosedSpent' /\ ClosedStaysClosed'
<1>. DEFINE old == req[r].old
<1>1. old.id \in UserID
  BY FrameFields DEF IInv, TypeOK, putFind, putDelete, At, Replaced
<1>2. /\ old.id \in spent
      /\ \A u \in users : u.id = old.id => u.email = old.email
      /\ At(r, "put.delete") => \A u \in users : u.id = old.id => req[r].victim = u.id
  BY DEF IInv, FramesSound, FrameSound, putFind, putDelete, At
<1>3. \/ closed' = closed
      \/ closed' = closed \cup {old.id} /\ \A u \in users' : u.id # old.id
  <2>1. CASE putFind(r)
    BY <2>1, <1>2 DEF putFind, EmailTaken, tables
  <2>2. CASE putDelete(r)
    <3>1. PICK o \in Outcome :
             /\ DeleteUsers(o, {req[r].victim})
             /\ closed' = IF o = "ok" THEN closed \cup {old.id} ELSE closed
      BY <2>2 DEF putDelete
    <3>2. CASE o = "ok"
      <4>1. users' = {u \in users : u.id \notin {req[r].victim}}
        BY <3>1, <3>2 DEF DeleteUsers, Committed
      <4>. QED BY <4>1, <3>1, <3>2, <2>2, <1>2 DEF putDelete
    <3>3. CASE o # "ok"
      BY <3>1, <3>3
    <3>. QED BY <3>2, <3>3
  <2>. QED BY <2>1, <2>2
<1>4. CASE closed' = closed
  BY <1>4, CloseNone
<1>5. CASE closed' = closed \cup {old.id} /\ \A u \in users' : u.id # old.id
  <2>1. {old.id} \subseteq UserID /\ {old.id} \subseteq spent
    BY <1>1, <1>2
  <2>2. \A u \in users' : u.id \notin {old.id}
    BY <1>5
  <2>. QED BY <1>5, <2>1, <2>2, CloseAbsent DEF IInv, TypeOK
<1>. QED BY <1>3, <1>4, <1>5

\* resetUsers closes accounts that have no row any more.
LEMMA ResetCloses ==
    ASSUME IInv, TypeOK', TablesOK', Evolves, NEW r \in Request, resetUsers(r)
    PROVE  ClosedSpent' /\ ClosedStaysClosed'
<1>1. PICK o \in Outcome :
         /\ DeleteUsers(o, UserID)
         /\ \/ o = "ok" /\ closed' = closed \cup {u.id : u \in users}
            \/ o # "ok" /\ closed' = closed
  BY DEF resetUsers
<1>2. CASE o = "ok"
  <2>1. \A u \in users' : FALSE
    BY <1>1, <1>2 DEF DeleteUsers, Committed, IInv, TypeOK, DBTypeOK, UserRow
  <2>2. {u.id : u \in users} \subseteq UserID /\ {u.id : u \in users} \subseteq spent
    BY DEF IInv, TypeOK, DBTypeOK, UserRow, TablesOK, RowsSpent
  <2>. QED BY <1>1, <1>2, <2>1, <2>2, CloseAbsent DEF IInv, TypeOK
<1>3. CASE o # "ok"
  BY <1>1, <1>3, CloseNone
<1>. QED BY <1>2, <1>3

\* handleSessionRevoke closes a session whose row, if any, is revoked.
LEMMA RevokeCloses ==
    ASSUME IInv, TypeOK', TablesOK', Evolves, NEW r \in Request, handleSessionRevoke(r)
    PROVE  ClosedSpent' /\ ClosedStaysClosed'
<1>1. PICK id \in Known(SessionID), o \in Outcome :
         /\ RevokeSession(o, id)
         /\ \/ o = "ok" /\ closed' = closed \cup ({id} \ {Nil})
            \/ o # "ok" /\ closed' = closed
  BY DEF handleSessionRevoke
<1>2. CASE o = "ok"
  <2>1. /\ closed \subseteq spent'
        /\ \A u \in users' : u.id \notin closed
        /\ \A s \in sessions' : s.id \in closed => s.revoked
    BY ClosedStable DEF IInv
  <2>2. ({id} \ {Nil}) \subseteq SessionID /\ ({id} \ {Nil}) \subseteq spent
    BY DEF Known
  <2>3. \A s \in sessions' : s.id = id => s.revoked
    <3>1. sessions' = {IF s.id = id THEN [s EXCEPT !.revoked = TRUE] ELSE s : s \in sessions}
      BY <1>1, <1>2 DEF RevokeSession, Committed
    <3>. QED BY <3>1 DEF IInv, TypeOK, DBTypeOK, SessionRow
  <2>4. ClosedSpent'
    BY <1>1, <1>2, <2>1, <2>2 DEF ClosedSpent, Evolves
  <2>5. \A u \in users' : u.id \notin closed'
    BY <1>1, <1>2, <2>1, <2>2, IdsAreDistinct DEF TypeOK, DBTypeOK, UserRow
  <2>6. /\ \A s \in sessions' : s.user \notin closed'
        /\ \A c \in chirps' : c.user \notin closed'
    BY <2>5 DEF TablesOK, SchemaHolds, OwnersExist, UserExists
  <2>7. \A s \in sessions' : s.id \in closed' => s.revoked
    BY <1>1, <1>2, <2>1, <2>3
  <2>. QED BY <2>4, <2>5, <2>6, <2>7 DEF ClosedStaysClosed
<1>3. CASE o # "ok"
  BY <1>1, <1>3, CloseNone
<1>. QED BY <1>2, <1>3

\* Every step of the server keeps what is closed closed.
LEMMA StepKeepsClosed ==
    ASSUME IInv, Next, TypeOK', TablesOK', Evolves
    PROVE  ClosedSpent' /\ ClosedStaysClosed'
<1>1. CASE closed' = closed
  BY <1>1, CloseNone
<1>2. CASE closed' # closed
  <2>1. \E r \in Request : \/ putFind(r) \/ putDelete(r) \/ resetUsers(r)
                           \/ handleSessionRevoke(r)
    <3>1. \A r \in Request : UserStep(r) =>
             closed' = closed \/ putFind(r) \/ putDelete(r) \/ handleSessionRevoke(r)
      BY DEF UserStep, handleCreateUser, handleUpdateUser, putCreate, handleLogin,
             loginSession, handleSessionRefresh, refreshMint, history
    <3>2. ASSUME NEW r \in Request, ChirpStep(r) PROVE closed' = closed
      <4>1. UNCHANGED history
        BY <3>2, Zenon DEF ChirpStep, handleCreateChirp, chirpInsert, handleDeleteChirp,
           chirpDelete, handleGetChirp, handleGetChirps
      <4>. QED BY <4>1 DEF history
    <3>3. \A r \in Request : RouterStep(r) => closed' = closed \/ resetUsers(r)
      BY DEF RouterStep, handleReset, resetHits, handlePolkaWebhook,
             MiddlewareMetricsInc, replyEarly, history
    <3>4. Crash \/ Tick => closed' = closed
      BY DEF Crash, Tick, history
    <3>. QED BY <1>2, <3>1, <3>2, <3>3, <3>4 DEF Next
  <2>. QED BY <2>1, PutCloses, ResetCloses, RevokeCloses
<1>. QED BY <1>1, <1>2

-----------------------------------------------------------------------------
(* The theorems.                                                           *)

\* The inductive invariant holds of a server just set up, ...
LEMMA IInvInit == Init => IInv
BY DEF Init, IInv, TypeOK, DBInit, DBTypeOK, Frame, TablesOK, SchemaHolds,
       OneAccountPerEmail, IdsAreKeys, OwnersExist, RowsSpent, FramesSound, FrameSound,
       Idle, ClosedSpent, ClosedStaysClosed

\* ... every step keeps it, ...
LEMMA IInvStep == IInv /\ TypeOK' /\ [Next]_vars => IInv'
<1>1. ASSUME IInv, TypeOK', Next PROVE IInv'
  <2>1. TablesOK' /\ Evolves
    BY <1>1, StepKeepsTables DEF IInv
  <2>2. FramesSound'
    BY <1>1, <2>1, StepKeepsFrames
  <2>3. ClosedSpent' /\ ClosedStaysClosed'
    BY <1>1, <2>1, StepKeepsClosed
  <2>. QED BY <1>1, <2>1, <2>2, <2>3 DEF IInv
<1>2. ASSUME IInv, TypeOK', UNCHANGED vars PROVE IInv'
  BY <1>2 DEF IInv, vars, tables, history, TablesOK, SchemaHolds, OneAccountPerEmail,
       IdsAreKeys, OwnersExist, UserExists, RowsSpent, FramesSound, ClosedSpent,
       ClosedStaysClosed
<1>. QED BY <1>1, <1>2

\* ... and so it always holds.
LEMMA Inductive == Spec => []IInv
<1>1. Init => IInv
  BY IInvInit
<1>2. IInv /\ TypeOK' /\ [Next]_vars => IInv'
  BY IInvStep
<1>. QED BY <1>1, <1>2, TypeCorrect, PTL DEF Spec

(***************************************************************************)
(* However handlers interleave, fail and crash, the tables satisfy the     *)
(* schema: one account per address, ids are keys, every session and chirp  *)
(* belongs to an account that exists.                                      *)
(***************************************************************************)
THEOREM SchemaCorrect == Spec => []SchemaHolds
<1>1. IInv => SchemaHolds
  BY DEF IInv, TablesOK
<1>. QED BY <1>1, Inductive, PTL

(***************************************************************************)
(* What a handler was told is deleted or revoked stays so: PUT /api/users  *)
(* that was not told of a failure leaves nothing of the account it         *)
(* replaced, a reset nothing of the accounts it wiped, and a revoked       *)
(* session is never live again.                                            *)
(***************************************************************************)
THEOREM ClosedCorrect == Spec => []ClosedStaysClosed
<1>1. IInv => ClosedStaysClosed
  BY DEF IInv
<1>. QED BY <1>1, Inductive, PTL

(***************************************************************************)
(* A refresh that reads its session after the session or its account was   *)
(* reported closed gives no access token.                                  *)
(***************************************************************************)
THEOREM LateRefreshCorrect == Spec => LateRefreshFails
<1>1. IInv /\ [Next]_vars => [LateRefresh => tokens' = tokens]_vars
  <2>1. SUFFICES ASSUME IInv, Next, NEW r \in Request,
                        At(r, "refresh.mint"), req[r].late, req'[r] = Idle
                 PROVE  tokens' = tokens
    BY DEF LateRefresh
  <2>2. req \in [Request -> Frame] /\ req[r].session.revoked
    BY <2>1 DEF IInv, TypeOK, FramesSound, FrameSound, At
  <2>3. CASE Crash \/ Tick
    BY <2>3 DEF Crash, Tick
  <2>4. ASSUME NEW q \in Request, UserStep(q) \/ ChirpStep(q) \/ RouterStep(q)
        PROVE  tokens' = tokens
    <3>1. tokens' = tokens \/ refreshMint(q) \/ loginSession(q)
      <4>1. CASE UserStep(q)
        BY <4>1 DEF UserStep, handleCreateUser, handleUpdateUser, putCreate, putFind,
           putDelete, handleLogin, handleSessionRefresh, handleSessionRevoke
      <4>2. CASE ChirpStep(q)
        BY <4>2 DEF ChirpStep, handleCreateChirp, chirpInsert, handleDeleteChirp,
           chirpDelete, handleGetChirp, handleGetChirps
      <4>3. CASE RouterStep(q)
        BY <4>3 DEF RouterStep, handleReset, resetUsers, resetHits,
           handlePolkaWebhook, MiddlewareMetricsInc, replyEarly
      <4>. QED BY <2>4, <4>1, <4>2, <4>3
    <3>2. (\E op, code : Respond(q, op, code)) => q = r
      BY <2>1, <2>2 DEF Respond, At, Idle
    <3>3. refreshMint(q) \/ loginSession(q) => q = r
      BY <3>2 DEF refreshMint, loginSession
    <3>4. ~loginSession(r)
      BY <2>1 DEF loginSession, At
    <3>5. refreshMint(r) => tokens' = tokens
      BY <2>2 DEF refreshMint, Refreshable
    <3>. QED BY <3>1, <3>3, <3>4, <3>5
  <2>. QED BY <2>1, <2>3, <2>4 DEF Next
<1>. QED BY <1>1, Inductive, PTL DEF Spec, LateRefreshFails

-----------------------------------------------------------------------------
(***************************************************************************)
(* ChirpyServer implements AccountLedger: each SQL statement is one of the *)
(* ledger's steps, or changes nothing there; and what a handler tells its  *)
(* caller is over is over in the ledger, by the theorems above.            *)
(***************************************************************************)

\* Every step of the server is one of these statements, or none.
LEMMA StepMaps ==
    ASSUME IInv, Next
    PROVE  Tables!Step
<1>s. Sound
  BY DEF IInv, TypeOK, Sound
<1>f. \A r \in Request : req[r] \in Frame
  BY DEF IInv, TypeOK
<1>n. UNCHANGED tables => Tables!Step
  BY NoWriteMaps DEF NoWrite
<1>1. CASE Crash \/ Tick
  BY <1>1, <1>n DEF Crash, Tick
<1>2. ASSUME NEW r \in Request, UserStep(r) PROVE Tables!Step
  <2>1. CASE handleCreateUser(r)
    BY <2>1, <1>s, CreateUserMaps DEF handleCreateUser
  <2>2. CASE putCreate(r)
    <3>1. req[r].email \in Email
      BY <2>2, <1>f, FrameFields DEF putCreate, At
    <3>. QED BY <2>2, <3>1, <1>s, CreateUserMaps DEF putCreate
  <2>3. CASE putDelete(r)
    <3>1. {req[r].victim} \in SUBSET UserID
      BY <2>3, <1>f, FrameFields DEF putDelete, At
    <3>. QED BY <2>3, <3>1, <1>s, DeleteUsersMaps DEF putDelete
  <2>4. CASE loginSession(r)
    BY <2>4, <1>s, CreateSessionMaps DEF loginSession
  <2>5. CASE handleSessionRevoke(r)
    BY <2>5, <1>s, RevokeSessionMaps DEF handleSessionRevoke
  <2>6. CASE \/ handleUpdateUser(r) \/ putFind(r) \/ handleLogin(r)
             \/ handleSessionRefresh(r) \/ refreshMint(r)
    BY <2>6, <1>n DEF handleUpdateUser, putFind, handleLogin, handleSessionRefresh, refreshMint
  <2>. QED BY <1>2, <2>1, <2>2, <2>3, <2>4, <2>5, <2>6 DEF UserStep
<1>3. ASSUME NEW r \in Request, ChirpStep(r) PROVE Tables!Step
  <2>1. CASE chirpInsert(r)
    BY <2>1, <1>s, CreateChirpMaps DEF chirpInsert
  <2>2. CASE chirpDelete(r)
    <3>1. req[r].chirp \in ChirpID
      BY <2>2, <1>f, FrameFields DEF chirpDelete, At
    <3>. QED BY <2>2, <3>1, <1>s, DeleteChirpMaps DEF chirpDelete
  <2>3. CASE \/ handleCreateChirp(r) \/ handleDeleteChirp(r)
             \/ handleGetChirp(r) \/ handleGetChirps(r)
    BY <2>3, <1>n DEF handleCreateChirp, handleDeleteChirp, handleGetChirp, handleGetChirps
  <2>. QED BY <1>3, <2>1, <2>2, <2>3 DEF ChirpStep
<1>4. ASSUME NEW r \in Request, RouterStep(r) PROVE Tables!Step
  <2>1. CASE resetUsers(r)
    <3>1. UserID \in SUBSET UserID
      OBVIOUS
    <3>. QED BY <2>1, <3>1, <1>s, DeleteUsersMaps DEF resetUsers
  <2>2. CASE handlePolkaWebhook(r)
    BY <2>2, <1>s, UpgradeUserMaps DEF handlePolkaWebhook
  <2>3. CASE handleReset(r) \/ resetHits(r) \/ MiddlewareMetricsInc(r) \/ replyEarly(r)
    BY <2>3, <1>n DEF handleReset, resetHits, MiddlewareMetricsInc, replyEarly
  <2>. QED BY <1>4, <2>1, <2>2, <2>3 DEF RouterStep
<1>. QED BY <1>1, <1>2, <1>3, <1>4 DEF Next

\* What callers were told is no part of such a step.
LEMMA SameSteps == Tables!Step => Ledger!Step
BY DEF Tables!Step, Tables!Open, Tables!Move, Tables!Close, Tables!Attach, Tables!Revoke,
       Tables!Detach, Tables!Ids, Ledger!Step, Ledger!Open, Ledger!Move, Ledger!Close,
       Ledger!Attach, Ledger!Revoke, Ledger!Detach, Ledger!Ids

\* What a caller was told is over is not taken back, ...
LEMMA ClosedGrows ==
    ASSUME Next
    PROVE  closed \subseteq closed'
<1>1. ASSUME NEW r \in Request, UserStep(r) PROVE closed \subseteq closed'
  BY <1>1 DEF UserStep, handleCreateUser, handleUpdateUser, putCreate, putFind, putDelete,
     handleLogin, loginSession, handleSessionRefresh, refreshMint, handleSessionRevoke, history
<1>2. ASSUME NEW r \in Request, ChirpStep(r) PROVE closed \subseteq closed'
  <2>1. UNCHANGED history
    BY <1>2, Zenon DEF ChirpStep, handleCreateChirp, chirpInsert, handleDeleteChirp,
       chirpDelete, handleGetChirp, handleGetChirps
  <2>. QED BY <2>1 DEF history
<1>3. ASSUME NEW r \in Request, RouterStep(r) PROVE closed \subseteq closed'
  BY <1>3 DEF RouterStep, handleReset, resetUsers, resetHits, handlePolkaWebhook,
     MiddlewareMetricsInc, replyEarly, history
<1>4. Crash \/ Tick => closed \subseteq closed'
  BY DEF Crash, Tick, history
<1>. QED BY <1>1, <1>2, <1>3, <1>4 DEF Next

\* ... and is over in the ledger: its row is gone for good, or is revoked.
LEMMA ClosedMaps ==
    ASSUME IInv'
    PROVE  closed' \subseteq Past' \cup Revoked'
<1>1. /\ closed' \subseteq spent' /\ closed' \subseteq UserID \cup SessionID
      /\ \A u \in users' : u.id \notin closed'
      /\ \A s \in sessions' : s.id \in closed' => s.revoked
      /\ \A c \in chirps' : c.id \in ChirpID
  BY DEF IInv, TypeOK, DBTypeOK, ChirpRow, ClosedSpent, ClosedStaysClosed
<1>2. \A c \in chirps' : c.id \notin closed'
  BY <1>1, IdsAreDistinct
<1>. QED BY <1>1, <1>2 DEF Past, Revoked, IdsOf

\* So every step of the server is a step of the ledger, or a stutter.
LEMMA Implements == IInv /\ IInv' /\ [Next]_vars => [Ledger!Next]_(Ledger!vars)
<1>1. ASSUME IInv, IInv', Next PROVE Ledger!Next
  <2>1. Ledger!Confirm
    BY <1>1, ClosedGrows, ClosedMaps DEF Ledger!Confirm
  <2>2. Ledger!Step
    BY <1>1, StepMaps, SameSteps
  <2>. QED BY <2>1, <2>2 DEF Ledger!Next
<1>2. ASSUME UNCHANGED vars PROVE UNCHANGED Ledger!vars
  BY <1>2 DEF vars, tables, history, Ledger!vars, Accounts, Items, Revoked, Past, IdsOf
<1>. QED BY <1>1, <1>2

(***************************************************************************)
(* The server keeps the ledger of accounts, for any number of requests,    *)
(* accounts, sessions and chirps, however handlers interleave, fail and    *)
(* crash.                                                                  *)
(***************************************************************************)
THEOREM LedgerKept == Spec => KeepsLedger
<1>1. Init => Ledger!Init
  BY DEF Init, DBInit, Ledger!Init, Accounts, Items, Revoked, Past, IdsOf
<1>2. IInv /\ IInv' /\ [Next]_vars => [Ledger!Next]_(Ledger!vars)
  BY Implements
<1>. QED BY <1>1, <1>2, Inductive, PTL DEF Spec, KeepsLedger, Ledger!Spec

-----------------------------------------------------------------------------
(***************************************************************************)
(* Who may remove and who may add what. A handler decides on rows it read  *)
(* and acts on them a statement later, by id; what it decided still holds  *)
(* then, because ids are never drawn twice and neither the address of an   *)
(* account nor the author of a chirp ever changes.                         *)
(***************************************************************************)

\* What a frame is about to delete or insert is what its handler checked.
TargetSound(f, us, cs, sp) ==
    /\ f.at = "put.delete" => /\ f.victim \in sp
                              /\ \A u \in us : u.id = f.victim => u.email = f.old.email
    /\ f.at = "chirp.delete" => /\ f.chirp \in sp
                                /\ \A c \in cs : c.id = f.chirp => c.user = f.user
    /\ f.at = "chirp.insert" => f.bearer /\ f.sent = 0

TargetsSound == \A r \in Request : TargetSound(req[r], users, chirps, spent)

\* Chirps are stored under new ids and never altered.
ChirpsEvolve == \A c \in chirps' : c \in chirps \/ c.id \notin spent

Handles(r) == UserStep(r) \/ ChirpStep(r) \/ RouterStep(r)

-----------------------------------------------------------------------------
(* Rows that come and go.                                                  *)

\* A chirp that was not there comes by an INSERT, for the account of the frame.
LEMMA ChirpsCome ==
    ASSUME NEW r \in Request, Handles(r), NEW c \in chirps' \ chirps
    PROVE  chirpInsert(r) /\ c.user = req[r].user /\ c.id \notin spent
<1>1. ~UserStep(r)
  BY DEF UserStep, handleCreateUser, handleUpdateUser, putCreate, putFind, putDelete,
     handleLogin, loginSession, handleSessionRefresh, refreshMint, handleSessionRevoke,
     CreateUser, DeleteUsers, CreateSession, RevokeSession, NoWrite, tables
<1>2. ~RouterStep(r)
  BY DEF RouterStep, handleReset, resetUsers, resetHits, handlePolkaWebhook,
     MiddlewareMetricsInc, replyEarly, DeleteUsers, UpgradeUser, NoWrite, tables
<1>3. ASSUME ChirpStep(r) PROVE chirpInsert(r)
  BY <1>3 DEF ChirpStep, handleCreateChirp, handleDeleteChirp, chirpDelete,
     handleGetChirp, handleGetChirps, DeleteChirp, NoWrite, tables
<1>4. ASSUME chirpInsert(r) PROVE c.user = req[r].user /\ c.id \notin spent
  BY <1>4 DEF chirpInsert, CreateChirp, Fresh, NoWrite, tables
<1>. QED BY <1>1, <1>2, <1>3, <1>4 DEF Handles

\* A chirp that goes, goes with its author's account or by a DELETE of its id.
LEMMA ChirpsLeave ==
    ASSUME NEW r \in Request, Handles(r), NEW c \in chirps \ chirps'
    PROVE  \/ \A u \in users' : u.id # c.user
           \/ chirpDelete(r) /\ c.id = req[r].chirp
<1>1. ASSUME NEW o, NEW ids, DeleteUsers(o, ids) PROVE \A u \in users' : u.id # c.user
  BY <1>1 DEF DeleteUsers, NoWrite, tables
<1>2. CASE UserStep(r)
  BY <1>1, <1>2 DEF UserStep, handleCreateUser, handleUpdateUser, putCreate, putFind, putDelete,
     handleLogin, loginSession, handleSessionRefresh, refreshMint, handleSessionRevoke,
     CreateUser, CreateSession, RevokeSession, NoWrite, tables
<1>3. CASE RouterStep(r)
  BY <1>1, <1>3 DEF RouterStep, handleReset, resetUsers, resetHits, handlePolkaWebhook,
     MiddlewareMetricsInc, replyEarly, UpgradeUser, NoWrite, tables
<1>4. CASE ChirpStep(r)
  <2>1. chirpDelete(r)
    BY <1>4 DEF ChirpStep, handleCreateChirp, chirpInsert, handleDeleteChirp,
       handleGetChirp, handleGetChirps, CreateChirp, NoWrite, tables
  <2>. QED BY <2>1 DEF chirpDelete, DeleteChirp, NoWrite, tables
<1>. QED BY <1>2, <1>3, <1>4 DEF Handles

\* An account that goes, goes by a reset or as the victim of a PUT.
LEMMA UsersLeave ==
    ASSUME TypeOK, NEW r \in Request, Handles(r),
           NEW u \in users, \A v \in users' : v.id # u.id
    PROVE  resetUsers(r) \/ (putDelete(r) /\ u.id = req[r].victim)
<1>n. users' # users
  OBVIOUS
<1>1. ~ChirpStep(r)
  BY <1>n DEF ChirpStep, handleCreateChirp, chirpInsert, handleDeleteChirp, chirpDelete,
     handleGetChirp, handleGetChirps, CreateChirp, DeleteChirp, NoWrite, tables
<1>2. ASSUME RouterStep(r) PROVE resetUsers(r)
  <2>1. ASSUME NEW o, NEW id, UpgradeUser(o, id) PROVE FALSE
    <3>1. users' = {IF v.id = id THEN [v EXCEPT !.red = TRUE] ELSE v : v \in users}
      BY <2>1, <1>n DEF UpgradeUser, NoWrite, tables
    <3>2. (IF u.id = id THEN [u EXCEPT !.red = TRUE] ELSE u) \in users'
      BY <3>1
    <3>3. (IF u.id = id THEN [u EXCEPT !.red = TRUE] ELSE u).id = u.id
      BY DEF TypeOK, DBTypeOK, UserRow
    <3>. QED BY <3>2, <3>3
  <2>. QED BY <1>2, <1>n, <2>1 DEF RouterStep, handleReset, resetHits, handlePolkaWebhook,
       MiddlewareMetricsInc, replyEarly, tables
<1>3. ASSUME UserStep(r) PROVE putDelete(r) /\ u.id = req[r].victim
  <2>1. ASSUME NEW o, NEW e, NEW p, CreateUser(o, e, p) PROVE u \in users'
    BY <2>1 DEF CreateUser, NoWrite, tables
  <2>2. putDelete(r)
    BY <1>3, <1>n, <2>1 DEF UserStep, handleCreateUser, handleUpdateUser, putCreate, putFind,
       handleLogin, loginSession, handleSessionRefresh, refreshMint, handleSessionRevoke,
       CreateSession, RevokeSession, NoWrite, tables
  <2>. QED BY <2>2 DEF putDelete, DeleteUsers, NoWrite, tables
<1>. QED BY <1>1, <1>2, <1>3 DEF Handles

-----------------------------------------------------------------------------
(* Targets.                                                                *)

\* A target that was checked is still the same after any statement.
LEMMA TargetStable ==
    ASSUME Evolves, ChirpsEvolve, NEW f, TargetSound(f, users, chirps, spent)
    PROVE  TargetSound(f, users', chirps', spent')
BY DEF Evolves, ChirpsEvolve, TargetSound

\* A handler touches no frame but its own.
LEMMA OwnFrame ==
    ASSUME TypeOK, NEW r \in Request, Handles(r)
    PROVE  OthersRest(r)
<1>f. req \in [Request -> Frame]
  BY DEF TypeOK
<1>1. CASE UserStep(r)
  BY <1>f, <1>1 DEF OthersRest, UserStep, handleCreateUser, handleUpdateUser, putCreate,
     putFind, putDelete, handleLogin, loginSession, handleSessionRefresh, refreshMint,
     handleSessionRevoke, Goto, Respond
<1>2. CASE ChirpStep(r)
  BY <1>f, <1>2 DEF OthersRest, ChirpStep, handleCreateChirp, chirpInsert, handleDeleteChirp,
     chirpDelete, handleGetChirp, handleGetChirps, Goto, Respond
<1>3. CASE RouterStep(r)
  BY <1>f, <1>3 DEF OthersRest, RouterStep, handleReset, resetUsers, resetHits,
     handlePolkaWebhook, MiddlewareMetricsInc, replyEarly, Goto, Respond
<1>. QED BY <1>1, <1>2, <1>3 DEF Handles

\* The steps of user_handlers.go: putFind picks its victim by the old address.
LEMMA UserTargets ==
    ASSUME IInv, NEW r \in Request, UserStep(r)
    PROVE  TargetSound(req'[r], users', chirps', spent')
<1>f. req \in [Request -> Frame] /\ TablesOK
  BY DEF IInv, TypeOK
<1>1. CASE putFind(r)
  <2>1. PICK u : \/ /\ u \in users /\ u.email = req[r].old.email
                    /\ Goto(r, [at |-> "put.delete", old |-> req[r].old, victim |-> u.id])
                 \/ Respond(r, "put", 200)
    BY <1>1, ZenonT(60) DEF putFind
  <2>2. UNCHANGED <<users, chirps, spent>>
    BY <1>1 DEF putFind, tables
  <2>3. CASE Respond(r, "put", 200)
    BY <1>f, <2>3 DEF Respond, Idle, TargetSound
  <2>4. CASE /\ u \in users /\ u.email = req[r].old.email
             /\ Goto(r, [at |-> "put.delete", old |-> req[r].old, victim |-> u.id])
    <3>1. req'[r] = [at |-> "put.delete", old |-> req[r].old, victim |-> u.id]
      BY <1>f, <2>4 DEF Goto
    <3>2. u.id \in spent /\ \A v \in users : v.id = u.id => v = u
      BY <1>f, <2>4 DEF TablesOK, RowsSpent, SchemaHolds, IdsAreKeys
    <3>. QED BY <2>2, <2>4, <3>1, <3>2 DEF TargetSound
  <2>. QED BY <2>1, <2>3, <2>4
<1>2. CASE ~putFind(r)
  <2>1. req'[r].at \notin {"put.delete", "chirp.delete", "chirp.insert"}
    BY <1>f, <1>2 DEF UserStep, handleCreateUser, handleUpdateUser, putCreate, putDelete,
       handleLogin, loginSession, handleSessionRefresh, refreshMint, handleSessionRevoke,
       Goto, Respond, Idle
  <2>. QED BY <2>1 DEF TargetSound
<1>. QED BY <1>1, <1>2

\* The steps of chirp_handlers.go: DELETE goes on with a chirp of its caller
\* only, POST only with a caller whose token is live.
LEMMA ChirpTargets ==
    ASSUME IInv, NEW r \in Request, ChirpStep(r)
    PROVE  TargetSound(req'[r], users', chirps', spent')
<1>f. req \in [Request -> Frame] /\ TablesOK /\ DBTypeOK
  BY DEF IInv, TypeOK
<1>1. CASE handleCreateChirp(r)
  <2>1. PICK t : \/ /\ UserExists(Authenticated(t))
                    /\ Goto(r, [at |-> "chirp.insert", user |-> Authenticated(t),
                                sent |-> IF t \in LiveTokens THEN 0 ELSE 401,
                                bearer |-> t \in LiveTokens])
                 \/ \E code : Respond(r, "chirp", code)
    BY <1>1, ZenonT(60) DEF handleCreateChirp
  <2>2. CASE \E code : Respond(r, "chirp", code)
    BY <1>f, <2>2 DEF Respond, Idle, TargetSound
  <2>3. CASE /\ UserExists(Authenticated(t))
             /\ Goto(r, [at |-> "chirp.insert", user |-> Authenticated(t),
                         sent |-> IF t \in LiveTokens THEN 0 ELSE 401,
                         bearer |-> t \in LiveTokens])
    <3>1. t \in LiveTokens
      BY <1>f, <2>3, IdsAreDistinct DEF UserExists, Authenticated, DBTypeOK, UserRow
    <3>2. req'[r] = [at |-> "chirp.insert", user |-> Authenticated(t),
                     sent |-> 0, bearer |-> TRUE]
      BY <1>f, <2>3, <3>1 DEF Goto
    <3>. QED BY <3>2 DEF TargetSound
  <2>. QED BY <2>1, <2>2, <2>3
<1>2. CASE handleDeleteChirp(r)
  <2>1. PICK t, c, id : \/ /\ c \in chirps /\ c.id = id /\ IsAuthor(c, t.sub)
                           /\ Goto(r, [at |-> "chirp.delete", chirp |-> id, user |-> t.sub])
                        \/ \E code : Respond(r, "unchirp", code)
    BY <1>2, ZenonT(60) DEF handleDeleteChirp
  <2>2. UNCHANGED <<users, chirps, spent>>
    BY <1>2 DEF handleDeleteChirp, tables
  <2>3. CASE \E code : Respond(r, "unchirp", code)
    BY <1>f, <2>3 DEF Respond, Idle, TargetSound
  <2>4. CASE /\ c \in chirps /\ c.id = id /\ IsAuthor(c, t.sub)
             /\ Goto(r, [at |-> "chirp.delete", chirp |-> id, user |-> t.sub])
    <3>1. req'[r] = [at |-> "chirp.delete", chirp |-> id, user |-> t.sub]
      BY <1>f, <2>4 DEF Goto
    <3>2. id \in spent /\ \A d \in chirps : d.id = id => d.user = t.sub
      BY <1>f, <2>4 DEF TablesOK, RowsSpent, SchemaHolds, IdsAreKeys, IsAuthor
    <3>. QED BY <2>2, <3>1, <3>2 DEF TargetSound
  <2>. QED BY <2>1, <2>3, <2>4
<1>3. CASE chirpInsert(r) \/ chirpDelete(r) \/ handleGetChirp(r) \/ handleGetChirps(r)
  <2>1. req'[r] = Idle
    BY <1>f, <1>3 DEF chirpInsert, chirpDelete, handleGetChirp, handleGetChirps, Respond
  <2>. QED BY <2>1 DEF TargetSound, Idle
<1>. QED BY <1>1, <1>2, <1>3 DEF ChirpStep

\* The steps of router.go have no such target.
LEMMA RouterTargets ==
    ASSUME IInv, NEW r \in Request, RouterStep(r)
    PROVE  TargetSound(req'[r], users', chirps', spent')
<1>1. req \in [Request -> Frame]
  BY DEF IInv, TypeOK
<1>2. req'[r].at \notin {"put.delete", "chirp.delete", "chirp.insert"}
  BY <1>1 DEF RouterStep, handleReset, resetUsers, resetHits, handlePolkaWebhook,
     MiddlewareMetricsInc, replyEarly, Goto, Respond, Idle
<1>. QED BY <1>2 DEF TargetSound

\* Every step of the server keeps all targets as they were checked.
LEMMA TargetsStep == IInv /\ TargetsSound /\ [Next]_vars => TargetsSound'
<1>1. ASSUME IInv, TargetsSound, NEW r \in Request, Handles(r) PROVE TargetsSound'
  <2>1. Evolves
    BY <1>1, StepKeepsTables DEF IInv, Next, Handles
  <2>2. ChirpsEvolve
    BY <1>1, ChirpsCome DEF ChirpsEvolve
  <2>3. OthersRest(r)
    BY <1>1, OwnFrame DEF IInv
  <2>4. \A q \in Request : TargetSound(req[q], users', chirps', spent')
    BY <1>1, <2>1, <2>2, TargetStable DEF TargetsSound
  <2>5. TargetSound(req'[r], users', chirps', spent')
    BY <1>1, UserTargets, ChirpTargets, RouterTargets DEF Handles
  <2>. QED BY <2>3, <2>4, <2>5 DEF TargetsSound, OthersRest
<1>2. ASSUME Crash PROVE TargetsSound'
  BY <1>2 DEF Crash, TargetsSound, TargetSound, Idle
<1>3. ASSUME TargetsSound, Tick \/ UNCHANGED vars PROVE TargetsSound'
  BY <1>3 DEF Tick, vars, tables, TargetsSound
<1>. QED BY <1>1, <1>2, <1>3 DEF Next, Handles

\* The two invariants together.
LEMMA TargetsAlways == Spec => [](IInv /\ TargetsSound)
<1>1. Init => TargetsSound
  BY DEF Init, TargetsSound, TargetSound, Idle
<1>. QED BY <1>1, TargetsStep, Inductive, PTL DEF Spec

-----------------------------------------------------------------------------
(* The theorems.                                                           *)

(***************************************************************************)
(* PUT deletes an account other than its caller's only when that one is    *)
(* gone already and the address it had belongs to the account deleted:     *)
(* while the caller's account exists, it is the one at its old address.    *)
(***************************************************************************)
THEOREM StalePutsCorrect == Spec => OnlyStalePutsMisdelete
<1>1. IInv /\ TargetsSound /\ [Next]_vars =>
         [\A u \in users : (\A v \in users' : v.id # u.id) =>
             \E r \in Request :
                \/ At(r, "reset.users")
                \/ /\ At(r, "put.delete")
                   /\ \/ req[r].old.id = u.id
                      \/ ~UserExists(req[r].old.id) /\ req[r].old.email = u.email]_vars
  <2>1. SUFFICES ASSUME IInv, TargetsSound, Next,
                        NEW u \in users, \A v \in users' : v.id # u.id
                 PROVE  \E r \in Request :
                           \/ At(r, "reset.users")
                           \/ /\ At(r, "put.delete")
                              /\ \/ req[r].old.id = u.id
                                 \/ /\ ~UserExists(req[r].old.id)
                                    /\ req[r].old.email = u.email
    OBVIOUS
  <2>2. PICK r \in Request : Handles(r)
    BY <2>1 DEF Next, Handles, Crash, Tick, tables
  <2>3. CASE resetUsers(r)
    BY <2>3 DEF resetUsers
  <2>4. CASE putDelete(r) /\ u.id = req[r].victim
    <3>1. At(r, "put.delete")
      BY <2>4 DEF putDelete
    <3>2. req[r].old.email = u.email
      BY <2>1, <2>4, <3>1 DEF TargetsSound, TargetSound, At
    <3>3. UserExists(req[r].old.id) => req[r].old.id = u.id
      BY <2>1, <2>4, <3>1 DEF IInv, FramesSound, FrameSound, At, UserExists
    <3>. QED BY <3>1, <3>2, <3>3
  <2>. QED BY <2>1, <2>2, <2>3, <2>4, UsersLeave DEF IInv
<1>. QED BY <1>1, TargetsAlways, PTL DEF Spec, OnlyStalePutsMisdelete

(***************************************************************************)
(* A chirp goes with its author's account or by the hand of its author,    *)
(* although the DELETE names its id only.                                  *)
(***************************************************************************)
THEOREM AuthorsDeleteCorrect == Spec => OnlyAuthorsDeleteChirps
<1>1. IInv /\ TargetsSound /\ [Next]_vars =>
         [\A c \in chirps \ chirps' :
             \/ \A u \in users' : u.id # c.user
             \/ \E r \in Request : At(r, "chirp.delete") /\ req[r].user = c.user]_vars
  <2>1. SUFFICES ASSUME IInv, TargetsSound, Next, NEW c \in chirps \ chirps'
                 PROVE  \/ \A u \in users' : u.id # c.user
                        \/ \E r \in Request : At(r, "chirp.delete") /\ req[r].user = c.user
    OBVIOUS
  <2>2. PICK r \in Request : Handles(r)
    BY <2>1 DEF Next, Handles, Crash, Tick, tables
  <2>3. CASE chirpDelete(r) /\ c.id = req[r].chirp
    BY <2>1, <2>3 DEF chirpDelete, TargetsSound, TargetSound, At
  <2>. QED BY <2>2, <2>3, ChirpsLeave
<1>. QED BY <1>1, TargetsAlways, PTL DEF Spec, OnlyAuthorsDeleteChirps

(***************************************************************************)
(* A chirp is stored only for the account whose live token came with the   *)
(* request; 201 means that it was stored, 401 that it was not.             *)
(***************************************************************************)
THEOREM ChirpsAreAuthoredCorrect == Spec => ChirpsAreAuthored
<1>1. IInv /\ TargetsSound /\ [Next]_vars =>
         [/\ \A c \in chirps' \ chirps : \E r \in Request :
                At(r, "chirp.insert") /\ req[r].bearer /\ req[r].user = c.user
          /\ reply' = [op |-> "chirp", status |-> 201] => chirps' \ chirps # {}
          /\ reply' = [op |-> "chirp", status |-> 401] => chirps' = chirps]_vars
  <2>1. SUFFICES ASSUME IInv, TargetsSound, Next
                 PROVE  /\ \A c \in chirps' \ chirps : \E r \in Request :
                              At(r, "chirp.insert") /\ req[r].bearer /\ req[r].user = c.user
                        /\ reply' = [op |-> "chirp", status |-> 201] => chirps' \ chirps # {}
                        /\ reply' = [op |-> "chirp", status |-> 401] => chirps' = chirps
    OBVIOUS
  <2>2. CASE Crash \/ Tick
    BY <2>2 DEF Crash, Tick, tables, NoReply
  <2>3. ASSUME NEW r \in Request, Handles(r), ~chirpInsert(r)
        PROVE  /\ chirps' \ chirps = {}
               /\ reply' # [op |-> "chirp", status |-> 201]
               /\ reply' = [op |-> "chirp", status |-> 401] => chirps' = chirps
    <3>1. chirps' \ chirps = {}
      BY <2>3, ChirpsCome
    <3>2. CASE UserStep(r)
      <4>1. reply'.op # "chirp"
        BY <3>2 DEF UserStep, handleCreateUser, handleUpdateUser, putCreate, putFind, putDelete,
           handleLogin, loginSession, handleSessionRefresh, refreshMint, handleSessionRevoke,
           Goto, Respond, NoReply
      <4>. QED BY <3>1, <4>1
    <3>3. CASE RouterStep(r)
      <4>1. reply'.op # "chirp" \/ (replyEarly(r) /\ reply'.status = 400)
        BY <3>3 DEF RouterStep, handleReset, resetUsers, resetHits, handlePolkaWebhook,
           MiddlewareMetricsInc, replyEarly, EarlyReplies, Goto, Respond, NoReply
      <4>. QED BY <3>1, <4>1
    <3>4. CASE handleCreateChirp(r)
      <4>1. reply'.status # 201 /\ chirps' = chirps
        BY <3>4 DEF handleCreateChirp, Goto, Respond, NoReply, FirstStatus, tables
      <4>. QED BY <3>1, <4>1
    <3>5. CASE handleDeleteChirp(r) \/ chirpDelete(r) \/ handleGetChirp(r) \/ handleGetChirps(r)
      <4>1. reply'.op # "chirp"
        BY <3>5 DEF handleDeleteChirp, chirpDelete, handleGetChirp, handleGetChirps,
           Goto, Respond, NoReply
      <4>. QED BY <3>1, <4>1
    <3>. QED BY <2>3, <3>2, <3>3, <3>4, <3>5 DEF Handles, ChirpStep
  <2>4. ASSUME NEW r \in Request, chirpInsert(r)
        PROVE  /\ \A c \in chirps' \ chirps :
                     At(r, "chirp.insert") /\ req[r].bearer /\ req[r].user = c.user
               /\ reply' = [op |-> "chirp", status |-> 201] => chirps' \ chirps # {}
               /\ reply' # [op |-> "chirp", status |-> 401]
    <3>1. At(r, "chirp.insert") /\ req[r].bearer /\ req[r].sent = 0
      BY <2>1, <2>4 DEF chirpInsert, TargetsSound, TargetSound, At
    <3>2. \A c \in chirps' \ chirps : req[r].user = c.user
      BY <2>4, ChirpsCome DEF Handles, ChirpStep
    <3>3. PICK o \in Outcome :
             /\ CreateChirp(o, req[r].user)
             /\ reply'.status = IF o # "ok" \/ ~UserExists(req[r].user) THEN 400 ELSE 201
      BY <2>4, <3>1 DEF chirpInsert, Respond, FirstStatus
    <3>4. CASE o = "ok" /\ UserExists(req[r].user)
      <4>1. PICK id \in ChirpID :
               id \notin spent /\ chirps' = chirps \cup {[id |-> id, user |-> req[r].user]}
        BY <3>3, <3>4 DEF CreateChirp, Committed, Fresh
      <4>2. [id |-> id, user |-> req[r].user] \notin chirps
        BY <2>1, <4>1 DEF IInv, TablesOK, RowsSpent
      <4>. QED BY <3>1, <3>2, <3>3, <3>4, <4>1, <4>2
    <3>. QED BY <3>1, <3>2, <3>3, <3>4
  <2>. QED BY <2>1, <2>2, <2>3, <2>4 DEF Next, Handles
<1>. QED BY <1>1, TargetsAlways, PTL DEF Spec, ChirpsAreAuthored
=============================================================================
