--------------------------- MODULE RouterHandlers ---------------------------
(***************************************************************************)
(* internal/httpapi/router.go: the administrator's reset, the payment      *)
(* provider's webhook, the metered file server, and the early returns of   *)
(* all handlers that neither read nor write any state.                     *)
(***************************************************************************)
EXTENDS ChirpyRequests

\* Mutant: the counter is not cleared.
resetKeepsHits(r) ==
    /\ Arrives(r, "reset") /\ Platform = "dev"
    /\ Goto(r, [at |-> "reset.users", from |-> visits])
    /\ UNCHANGED <<tables, tokens, hits, now, faults, history>>

\* POST /admin/reset: clear the hit counter, delete every account, report the
\* counter. "from" remembers the visits that came before.
handleReset(r) ==
    /\ Arrives(r, "reset") /\ Platform = "dev"
    /\ hits' = 0
    /\ Goto(r, [at |-> "reset.users", from |-> visits])
    /\ UNCHANGED <<tables, tokens, now, faults, history>>

resetUsers(r) ==
    \E o \in Outcome :
        /\ At(r, "reset.users") /\ Meter(o)
        /\ DeleteUsers(o, UserID)
        /\ \/ /\ o = "ok"
              /\ Goto(r, [at |-> "reset.hits", from |-> req[r].from])
              /\ closed' = closed \cup {u.id : u \in users}
           \/ o # "ok" /\ Respond(r, "reset", 500) /\ UNCHANGED closed
        /\ UNCHANGED <<tokens, hits, now, signups, visits>>

resetHits(r) ==
    /\ At(r, "reset.hits")
    /\ Respond(r, "reset", 200)
    /\ UNCHANGED <<tables, tokens, hits, now, faults, history>>

\* POST /api/polka/webhooks with event user.upgraded.
handlePolkaWebhook(r) ==
    \E id \in Known(UserID), o \in Outcome :
        /\ Arrives(r, "webhook") /\ Meter(o)
        /\ UpgradeUser(o, id)
        /\ Respond(r, "webhook", IF o = "ok" /\ UserExists(id) THEN 204 ELSE 404)
        /\ UNCHANGED <<tokens, hits, now, history>>

\* GET /app/...: MiddlewareMetricsInc counts, then the file server answers.
MiddlewareMetricsInc(r) ==
    /\ Arrives(r, "app") /\ visits < MaxVisits
    /\ hits' = hits + 1 /\ visits' = visits + 1
    /\ Respond(r, "app", 200)
    /\ UNCHANGED <<tables, tokens, now, faults, closed, signups>>

\* Responses given before any state is looked at: a header, token, key, id or body
\* that does not parse or validate, an event chirpy ignores, a reset outside
\* development, and the two pages that only report.
EarlyReplies ==
    {<<"signup", 400>>, <<"put", 401>>, <<"login", 400>>, <<"refresh", 400>>,
     <<"revoke", 400>>, <<"chirp", 400>>, <<"unchirp", 401>>, <<"unchirp", 404>>,
     <<"read", 400>>, <<"webhook", 401>>, <<"webhook", 400>>, <<"webhook", 204>>,
     <<"metrics", 200>>, <<"healthz", 200>>}
    \cup (IF Platform = "dev" THEN {} ELSE {<<"reset", 403>>})

replyEarly(r) ==
    \E e \in EarlyReplies :
        /\ Arrives(r, e[1])
        /\ Respond(r, e[1], e[2])
        /\ UNCHANGED <<tables, tokens, hits, now, faults, history>>
=============================================================================
