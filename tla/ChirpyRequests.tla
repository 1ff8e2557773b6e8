--------------------------- MODULE ChirpyRequests ---------------------------
(***************************************************************************)
(* What the handlers of internal/httpapi share. net/http runs every        *)
(* request in a goroutine of its own; Request is the number of requests    *)
(* the server works on at once. A request rests in a frame: where its      *)
(* handler is, between two SQL statements, and the local variables it      *)
(* still needs. One action is one statement (or one atomic operation on    *)
(* the hit counter) with the Go code that follows it up to the next.       *)
(***************************************************************************)
EXTENDS ChirpyDB

CONSTANTS Request,
          Endpoints,   \* the routes clients use in this instance
          Platform,    \* PLATFORM: "dev" unlocks POST /admin/reset
          Requested,   \* values clients send as expires_in_seconds
          AccessTTL, SessionTTL,          \* 3600 seconds, 60 days
          MaxTime, MaxFaults, MaxVisits   \* bounds of the model, not of the code

ASSUME TTLsArePositive == AccessTTL \in Nat \ {0} /\ SessionTTL \in Nat \ {0}
ASSUME RequestedIsInteger == Requested \subseteq Int
ASSUME BoundsAreNatural == {MaxTime, MaxFaults, MaxVisits} \subseteq Nat

VARIABLES req,      \* request -> frame
          reply,    \* the response the last step wrote, NoReply if it wrote none
          tokens,   \* access tokens clients have been given: [sub, exp]
          hits,     \* ServerMetrics.fileserverHits
          now,      \* seconds
          faults    \* statements failed, and crashes, so far

(***************************************************************************)
(* History, read by the properties only.                                   *)
(***************************************************************************)
VARIABLES closed,   \* accounts and sessions the database has told a handler
                    \* are deleted, or revoked
          signups,  \* how many accounts POST /api/users has created
          visits    \* requests under /app/ so far

history == <<closed, signups, visits>>
vars == <<tables, req, reply, tokens, hits, now, faults, history>>

-----------------------------------------------------------------------------
Idle    == [at |-> "idle"]
NoReply == [op |-> "none", status |-> 0]

Token    == [sub : UserID, exp : Nat]
Replaced == [id : UserID, email : Email]     \* oldUser in handleUpdateUser

Frame ==
    {Idle}
    \cup [at : {"put.create"}, old : Replaced, email : Email, password : Password]
    \cup [at : {"put.find"}, old : Replaced]
    \cup [at : {"put.delete"}, old : Replaced, victim : UserID]
    \cup [at : {"login.session"}, user : UserID, token : Token, expires : Nat]
    \cup [at : {"refresh.mint"}, session : SessionRow, late : BOOLEAN]
    \cup [at : {"chirp.insert"}, user : UserID, sent : {0, 401}, bearer : BOOLEAN]
    \cup [at : {"chirp.delete"}, chirp : ChirpID, user : UserID]
    \cup [at : {"reset.users", "reset.hits"}, from : Nat]

At(r, step) == req[r].at = step
Arrives(r, op) == At(r, "idle") /\ op \in Endpoints

\* The handler goes on to its next statement, or writes its response.
Goto(r, frame)       == req' = [req EXCEPT ![r] = frame] /\ reply' = NoReply
Respond(r, op, code) == /\ req' = [req EXCEPT ![r] = Idle]
                        /\ reply' = [op |-> op, status |-> code]

\* A ResponseWriter keeps the first status it is given and ignores the others.
FirstStatus(sent, status) == IF sent = 0 THEN status ELSE sent

\* Failures are counted against MaxFaults.
Meter(o) == \/ o = "ok" /\ UNCHANGED faults
            \/ o # "ok" /\ faults < MaxFaults /\ faults' = faults + 1

\* Each request that will INSERT finds an id left in the model's finite pool.
Waiting(step) == Cardinality({r \in Request : At(r, step)})
Room(S, step) == Cardinality(Fresh(S)) > Waiting(step)

\* MakeJWT and ValidateJWT; the signature is sound, so a token that validates
\* is one the server made.
MakeJWT(sub, ttl) == [sub |-> sub, exp |-> now + ttl]
LiveTokens == {t \in tokens : now < t.exp}
=============================================================================
