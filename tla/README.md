# Chirpy: a TLA+ verification project

Chirpy (`src/`) is a small micro-blogging server in Go: accounts, refresh
sessions, short-lived access tokens, chirps of at most 140 characters, an
administrator's reset and a payment webhook, over PostgreSQL. This directory
holds TLA+ models of it, the TLC runs that check them, and TLAPS proofs of the
properties that matter most. Every definition is translated from the Go source
and the SQL it sends; `PROJECT.json` gives the lines of each.

Commands, in this directory:

    tlc -workers 2 -config MCAccounts.cfg MCChirpyServer.tla
    tlapm ChirpyServerProofs.tla

Sections: 1 the system, 2 the modules, 3 what is simplified, 4 the runs,
5 findings, 6 proofs, 7 what is not modelled and what comes next.

## 1. The system

| Component | State | Operations | Talks to |
| --- | --- | --- | --- |
| Account and session handlers (`internal/httpapi/user_handlers.go`) | none of their own; local variables between two statements | sign-up, `PUT /api/users`, login, refresh, revoke | the repository, `internal/auth` |
| Chirp handlers (`chirp_handlers.go`, `middleware.go`) | same | post, read one, list, delete | the repository, `internal/auth`, the chirp filter |
| Router (`router.go`, `application/metrics.go`) | the hit counter, an `atomic.Int32` | reset, payment webhook, metrics and health pages, metered file server | the repository |
| Repositories (`internal/postgres`) | tables `users`, `user_sessions`, `chirps` | one or more SQL statements per method, each in autocommit | PostgreSQL, through `database/sql` |
| Tokens and passwords (`internal/auth`) | none | HS256 JWTs with `sub` and `exp`, argon2id, random refresh tokens, and the three getters that read the Authorization header | - |
| Process (`cmd/chirpy/main.go`, `internal/config`) | the listener, the pool, the shutdown goroutine | `Run`, `Close`, the reaction to SIGINT | `net/http` |
| In-memory repositories (`internal/memory`) | maps under an RWMutex | the same interface as `internal/postgres` | - |
| Chirp filter (`internal/domain/chirp.go`) | none | length check, profanity mask | - |
| Migrations (`internal/operations`, `schema/migrations`) | the schema, and the versions recorded in `goose_db_version` | `migrate up`, `migrate status`, roll back | goose, PostgreSQL |
| Interfaces, domain types, test support | - | - | - |

`net/http` runs every request in a goroutine of its own, nothing in chirpy
serialises requests, and no repository method opens a transaction. So the
unit of atomicity is one SQL statement (or one atomic operation on the hit
counter), and everything a handler read in one statement may be out of date in
the next. Each statement takes `r.Context()`, so it also fails when the client
hangs up, before or after the database committed it. The behaviours that are
hard to test follow from that:

* **Accounts.** `PUT /api/users` does not update: it looks the caller up,
  inserts a new account, looks the old *address* up, and deletes what has it.
  Four statements, three windows. Correct means: one row per address; an
  account that was replaced leaves nothing behind and never returns; only its
  holder's PUT or a reset removes it; one account per person.
* **Sessions.** Refresh reads a session and judges the copy; revoke may land in
  between. Access tokens know nothing of revocation. Correct means: no token
  out of a session read after it was closed; no access token beyond the hour.
* **Chirps.** `handleCreateChirp` keeps going after answering 401;
  `handleDeleteChirp` compares the author a statement before it deletes.
  Correct means: only the holder of a live token posts, under his own id; only
  authors delete; the status tells the truth.
* **Reset.** Three steps among visits and other resets. Correct means: wiped
  accounts stay wiped, the reported count is a count since the reset began.
* **Process.** `Run` returns when `Shutdown` *begins*. Correct means: the pool
  outlives the listener, an interrupt ends the process, requests in flight are
  answered (they are not, see the findings).
* **Repository methods.** `UpdateUserEmail` looks twice and then writes;
  `DeleteUser` finds an id and deletes by it. Correct means: what the caller is
  told was true at some moment of the call, and the tables stay a ledger of
  accounts: one account per address, nothing owned by nobody, no id used twice.
* **In-memory repositories.** One `sync.RWMutex` and four maps. Correct means:
  every call returns, no map is written while it is used, a password is
  checked against the account's own hash, and the same ledger as PostgreSQL.
  The first, second and fourth hold with exceptions, which the properties name.
* **Listing.** `created_at` is taken before the look-up and the INSERT, so the
  order of a listing is neither that of the INSERTs nor that of the answers.
  Correct means: a chirp posted after another was acknowledged comes after it.
* **Chirp filter.** Lengths in bytes, in runes, a mask and a truncation, in
  that order. Correct means: no bad word is stored, nothing else is lost.
* **Headers.** Access and refresh tokens share the word `Bearer`; one length
  constant counts bytes, the other digits. Correct means: what was handed out
  is read back, and as one kind only.
* **Migrations.** Processes that migrate at the same time, without a lock, and
  may be killed between two scripts, while somebody rolls back. Correct means:
  nothing is in the schema without a record, the schema is what the recorded
  versions make, success means that all were applied, and of several runs at
  least one gets through. The second and third hold until a rollback falls
  into a run.

`PROJECT.json` lists these hazards one by one, each at its line, with the
properties that cover it or the reason none does.

## 2. Modules

    ChirpyDB                 tables, one operator per SQL statement, the schema
      TableLedger            the tables as an AccountLedger (INSTANCE)
        ChirpyDBProofs       what each statement keeps, and its step of the ledger
      ChirpyRequests         request frames, tokens, clock, faults, history
        UserHandlers         sign-up, PUT, login, refresh, revoke
        ChirpHandlers        post, delete, read, list
        RouterHandlers       reset, webhook, metrics, early replies
          ChirpyServer       the composition: Init, Next, Spec, safety properties
            ChirpyRefinement     the server as an AccountLedger (with TableLedger)
              ChirpyProgress     fairness, liveness
                MCChirpyServer   values and symmetry for TLC
              ChirpyServerProofs     types, limits, safety, refinement
      PostgresRepository     repository methods as callers see them
        MCPostgresRepository
        PostgresRepositoryProofs     honest answers, refinement
    AccountLedger            what internal/application promises of accounts
      AccountLedgerProofs    what that promise is worth
    MemoryRepository         the RWMutex, the maps, every method
      MemoryRepositoryProofs     races, credentials, the ledger
    ChirpListing             created_at and the order of a listing
      MCChirpListing
      ChirpListingProofs     replies follow
    ChirpFilter              Validate, FilterChirp, truncateChirp
    AuthHeaders              GetAccessToken, GetRefreshToken, GetAPIKey
      RequestInputs          any text and any header, through both of them
        MCRequestInputs
    Migrations               migrate up and rollbacks
      MigrationsProofs       the schema, success, somebody gets through
    ServiceLifecycle         one life of the process
      ServerEdgesProofs      closing order; and all that is proved of RequestInputs

`AccountLedger` is the abstract specification three modules are held to:
`ChirpyServer` and `PostgresRepository` implement it; `MemoryRepository` does
not, and `KeepsLedger` there names the two steps that leave it
(`LeavesOrphans`, `SharesAddress`), which three of its methods can take. The
ledger is abstract: no definition of it translates code, so it has no lines in
`PROJECT.json`. Its steps stand for the methods of the interfaces in
`internal/application`: `Open` for CreateUser, `Move` for UpdateUserEmail,
`Close` for DeleteUser and DeleteAllUsers, `Attach` for CreateSession and
CreateChirp, `Revoke` for RevokeSession, `Detach` for DeleteChirp and
DeleteSessionsByUserID.

**ChirpyDB.** A table is a set of rows; a row keeps the columns some property
tells apart. `UNIQUE (email)`, the foreign keys and `ON DELETE CASCADE` are
written into the statements as what they refuse and what they take along, so
that "the schema holds" is a consequence to check and not an assumption.
A statement takes an outcome: `ok`, `error` (failed, not committed) or `lost`
(committed, but the handler sees an error). `spent` remembers every id ever
inserted: random ids are drawn from what is left, never twice.

**ChirpyRequests.** `req[r]` is the frame of request `r`: where its handler
stands between two statements and the local variables it still needs (the copy
of the old account, the session that was read, the access token made before
the session is stored, ...). One action is one statement and the Go code after
it up to the next one. `reply` is the response the last step wrote; `tokens`
are the access tokens clients hold. `closed`, `signups` and `visits` are
history: no action reads them, except that `visits` bounds the model.

| Actions | Code |
| --- | --- |
| `handleCreateUser` | `handleCreateUser` |
| `handleUpdateUser`, `putCreate`, `putFind`, `putDelete` | `handleUpdateUser`: GetUser, CreateUser, and the two statements of DeleteUser |
| `handleLogin`, `loginSession` | `handleLogin`: AuthenticateUser and MakeJWT, then CreateSession |
| `handleSessionRefresh`, `refreshMint` | `handleSessionRefresh`: GetSession, then the checks and MakeJWT |
| `handleSessionRevoke` | `handleSessionRevoke` |
| `handleCreateChirp`, `chirpInsert` | `handleCreateChirp`: the look-up in CreateChirp, then the INSERT |
| `handleDeleteChirp`, `chirpDelete` | `handleDeleteChirp`: GetChirp and the comparison, then DeleteChirp |
| `handleGetChirp`, `handleGetChirps` | the two readers |
| `handleReset`, `resetUsers`, `resetHits` | `handleReset`: Reset, DeleteAllUsers, GetHits |
| `handlePolkaWebhook`, `MiddlewareMetricsInc`, `replyEarly` | the webhook, the metered file server, every return before state is touched |
| `Crash`, `Tick` | the process dies and restarts (frames and counter go, tables and tokens stay); a second passes |

**AccountLedger.** State: open accounts with their addresses, the items
(sessions and chirps) that belong to them, which items are revoked, which ids
are gone, and which ids some caller has been told are over (`confirmed`).
Steps: `Open`, `Move`, `Close` (with all that is owned), `Attach`, `Revoke`,
`Detach`; any step may confirm an end that has come. The mapping
(`TableLedger`) forgets passwords, memberships, expiry, frames, tokens
and the clock; `past` is every id ever drawn that has no row any more.

**PostgresRepository.** The same statements, called not by the handlers but by
any caller of the interfaces in `internal/application`: `LookUpNew`,
`LookUpOld` and `Update` are `UpdateUserEmail`, `Find` and `Delete` are
`DeleteUser`, `OneStatement` is one of the others (`SignUp`, `Upgrade`,
`DeleteAll`, `OpenSession`, `Revoke`, `DropSessions`, `StoreChirp`,
`RemoveChirp`). `sight` is history: what a
call under way could have seen of its two addresses. This is where
`UpdateUserEmail`, `DeleteSessionsByUserID` and other methods no route calls
are modelled.

**MemoryRepository.** One frame per goroutine. A call waits for the mutex
(`RLock`, or `Announce` and `Lock`), is inside its critical section for an
interval, and takes effect as it unlocks. The interval is what makes two
accesses of a map that overlap visible: `OnlyTwoMethodsRace` compares, for any
two goroutines, the maps one writes now with those the other uses now. Each method
is an action named as in `users.go`, `usersessions.go` and `chirps.go`;
`ReadCredentials` is the part of `AuthenticateUser` outside the lock.

**ChirpListing.** `Arrive`, `StampAndFind` (clock, then GetUserByID),
`InsertChirp`, deletions of chirps and authors, and `handleGetChirps` with
both sort orders, ties in any order (`ORDER BY created_at`, then `sort.Slice`,
neither of which says anything about equals). `before` is history: which 201
came before which request.

**ChirpFilter.** Pure functions named as in the code (`Validate`,
`FilterChirp`, `truncateChirp`) and no state. A character has a width in bytes
and a lower case, which may be narrower (the Kelvin sign, three bytes, lowers
to k).

**AuthHeaders.** The three getters as predicates on the shape of a header, the
tokens as the sets of texts `MakeRefreshToken` and `SignedString` can produce.

**RequestInputs.** The clients of the two: `Post` a text, or `Obtain` a token
and `Send` it in a header, or `Send` anything without one. Text and header are
read by different code and leave nothing behind, so a behaviour has one of the
two. An API key is whatever `POLKA_KEY` says: `application.go:67` takes any
text, and only one of 32 hexadecimal digits is ever read from a header.
Its specification is `InputSpec` (`InputInit`, `InputNext`).

**Migrations.** `Start` (a command), `List` (what is missing, read once),
`Apply` (one script and its record in one transaction), `Finish`,
`Interrupt`, and a rollback in two steps, `RollBack` (which version is the
current one: that of the row inserted last, `row`) and `Undo` (its Down script
and its row, in one transaction, or nothing). Nothing keeps these apart from
each other. Each script is reduced to what it needs, what it must not find and
what it adds; `DROP TABLE users` takes the columns of later versions along
(`Drops`). `crossed` and the `undone` of a run are history: a rollback
succeeded while a run was under way, or undid a version above which somebody
had migrated since.

**ServiceLifecycle.** `main` inside `ListenAndServe`, the goroutine `Run`
starts, and one handler per accepted request. `http.Server` is modelled from
how `Run` uses it. The server may fail to listen (`ListenFails`) or to accept
(`ServeFails`); `log.Fatal` then ends the process past its deferred `Close`.

## 3. What is simplified, and why that is sound here

* Time is in whole seconds; the code compares nanoseconds, JWTs are truncated
  to seconds. Both boundary rules (a session still lives at the instant it
  expires, a token does not) are kept.
* Statement plus following Go code is one action: that code touches only local
  variables. `MakeJWT` in the refresh reads the clock, so it is a separate
  action (`refreshMint`), as time may pass between.
* Ids come from finite pools; `Room` keeps a request that will insert from
  starting when the pool is empty. It bounds the model, not the code.
* The error returns of `HashPassword`, `MakeJWT` and JSON encoding are left
  out: with the inputs the handlers give them they cannot fail. A collision of
  two random ids is left out.
* A statement whose client has gone takes effect at once or never. PostgreSQL
  may finish it a little later; the foreign keys and fresh ids make a late
  INSERT harmless, and a late UPDATE or DELETE finds its row or none.
* `Crash` may happen at any moment and includes an interrupt: from the point
  of view of a request in flight the two are the same, because the process
  does not wait for it.
* In the server modules chirps have no text and no `created_at`: nothing the
  handlers decide depends on them. `ChirpFilter` and `ChirpListing` have them.
  `updated_at` is written and never read back, and is left out everywhere.
* `PostgresRepository` takes the look-up of the author in `CreateChirp` and the
  INSERT as one step: there the foreign key alone decides. `ChirpHandlers` and
  `ChirpListing` have both steps.
* The clock of `ChirpListing` never goes back. If the server's wall clock is set
  back, `RepliesFollow` is lost, as the code has no other order.
* In `MemoryRepository` a method's effect falls together with its unlock. No
  other goroutine may look before it, unless a map is unguarded, which is what
  `OnlyTwoMethodsRace` is about. `RevokeSession` stops at the second lock, so the
  rest of it is never reached and is left out.
* Texts, headers and tokens are sequences over a few characters, each standing
  for a class (a letter of two bytes, a hexadecimal digit, ...), with limits of
  a few characters where the code has 140, 256 and 32. The order of the limits
  is an assumption of the modules and is that of the code (`LimitsAgree`;
  140 bytes and 140 runes).
* goose is external, modelled from how `migrator.go` makes its provider: no
  session locker, each script in a transaction with its record. Somebody rolls
  back one version at a time: one `goose down` ends before the next begins.
* A client of `RequestInputs` that has a token sends that token; one that has
  none sends any text. What is read depends on the header alone.
* The counter is a natural number; 2^31 visits are not reached in a run.

Bounds: `MaxTime`, `MaxFaults`, `MaxVisits`, `MaxTyped`, `MaxText`, `MaxIds`,
`MaxInterrupts` and `MaxDowns`, and the sizes of the sets.

## 4. Runs

| Run (`.cfg`) | Instance | Question |
| --- | --- | --- |
| `accounts` (MCAccounts) | 2 requests at once on eight routes, 3 account ids, 2 sessions, 1 chirp, 2 addresses, 1 tick, 1 fault | While PUTs and resets remove accounts under the feet of everybody else: does the schema hold (`SchemaHolds`), is what was reported gone really gone (`ClosedStaysClosed`), is every step one of the ledger (`KeepsLedger`), who may store and delete chirps (`ChirpsAreAuthored`, `OnlyAuthorsDeleteChirps`), and who may be hit by a PUT (`OnlyStalePutsMisdelete`)? |
| `sessions` (MCSessions) | 2 requests on seven routes, 2 account ids, 1 session, 2 ticks, 2 visits, 1 fault; `expires_in_seconds` negative, absent, short, too long | Login, refresh, revoke, reset, webhook and the clock: `LateRefreshFails`, `AccessIsShort`, `ClosedStaysClosed`, `ResetCountsAfresh`, `TypeOK` |
| `progress` (MCProgress) | 2 requests on every account route with more than one statement, 3 account ids, 1 fault | Is every request answered (`RequestsAnswered`), and does a PUT that inserted end with the old account gone (`PutEndsWithOne`)? |
| `lifecycle` (MCLifecycle) | 3 requests, 1 interrupt | `PoolOutlivesListener`, and under fairness `InterruptStops` |
| `repository` (MCRepository) | 2 callers of every method, 2 accounts, 1 session, 1 chirp, 2 addresses, 1 fault | `AnswersAreHonest`, `KeepsLedger` with `Move`, `TypeOK` |
| `memory` (MCMemory) | 2 goroutines, all 16 methods, 2 addresses; 2 ids drawn, of 2 accounts, 1 session, 1 chirp | `CredentialsFound`, `OnlyTwoMethodsRace`, `NoCircle`, `KeepsLedger`, under fairness `CallsReturn`, and `TypeOK` |
| `inputs` (MCInputs) | every text of up to 5 characters out of 7, limits 4; every header of up to 5 characters out of 5; every token of 2 bytes, every key of up to 5 characters | `NoBadWord`, `NothingLost`, `TokensReturn`, `OneKind` |
| `listing` (MCListing) | 2 posts at a time, 3 chirps, 2 authors, 2 instants | `RepliesFollow` |
| `migrations` (MCMigrations) | 2 processes that run again and again, 2 interruptions, 2 rollbacks, all 6 scripts | `SchemaIsRecorded`, `SomebodyGetsThrough`, `UpMeansApplied`, `RunsEnd` |
| `foreign_delete` | 2 requests, 4 account ids, 3 addresses, no fault | **violated**: `OnlyHoldersDeleteAccounts` |
| `duplicate_accounts` | the same | **violated**: `OneAccountPerSignup` |
| `graceful` | 1 request | **violated**: `RequestsAreDrained` |

Symmetry over all model values is used where only safety is checked
(`accounts`, `sessions`, `repository`, `listing` and the first two violations);
runs with a liveness property (`progress`, `lifecycle`, `memory`,
`migrations`) have none. Deadlock is checked in the server, repository and
migration runs: a request can always be sent, a call made, a process started.
It is not checked where the system ends (the process, or the one request of
`inputs`), where the ids of the model run out (`listing`), and where
`RevokeSession` really stops everybody (`memory`).

Why the bounds are enough to mean something: every hazard of the server is a
race of two requests over one or two accounts. Two slots give all pairs, and a
slot is used again after it answers, so a third and fourth request can pass
between two statements of the first. Three account ids and two addresses let
one address be left, taken by a second account and left again while a PUT
sleeps; the two violations have a fourth id and a third address. One fault covers each place where
a single failure can strike, and `lost` is among them.

The two pages that only report (`metrics`, `healthz`) are routes of the model
but of no run: they answer like every other early reply.

Some sets are small so that the others need not be. `sessions` has one session
row: a refresh, a revocation, a reset and a login all work on it at once, and
no rule relates two sessions; `accounts` has two. In `memory` two ids are
drawn in all (`MaxIds`): two accounts, of which one can take the other's
address, or one account and something it leaves behind. The theorems of
section 6 remove the bounds for the properties they state.

The other instances are sized by the case that matters. Two goroutines make
every pair of accesses that can overlap, a writer that waits for a reader, and
a reader that a writer shuts out. Three chirps make a reply, what it replies
to, and one that ties with either. Texts of five characters go beyond both
limits of four, with letters of one, two and three bytes and a bad word of
two, and headers of five characters are the shortest with an access token in
them. Two migrators overlap at every script, either may be interrupted and
start again, and two rollbacks can each fall between any two steps, undo two
versions, or meet a script that cannot be undone.

`SchemaHolds` would fail without the unique constraint, `ClosedStaysClosed`
without the cascade, with an upserting webhook or with a PUT that deletes the
wrong address; the mutants in `PROJECT.json` show each of these being caught,
and one such change for every property of every passing run.

### Fairness

* `ChirpyServer` has none: its properties are safety.
* `ChirpyProgress` makes the *continuation* of a request weakly fair: Go
  schedules every goroutine that can run, and a statement ends, with an error
  if need be, because its context or its connection does. Nothing is assumed of
  clients, crashes, the clock, or requests that have not begun.
  `RequestsAnswered` then says that no continuation is ever disabled for good,
  whatever other requests did to the rows the handler has read.
* `MemoryRepository`: weak fairness for a goroutine that can go on, and strong
  fairness for `Announce`, since the mutex may be taken by others again and
  again while a writer waits; `sync.Mutex` hands itself to the first waiter
  after a millisecond (its starvation mode), so a waiter that gets the chance
  infinitely often takes it. Nobody is made to call.
* `Migrations`: weak fairness for a process that runs; nobody has to start one.
* `ServiceLifecycle`: `main` and the shutdown goroutine are weakly fair.
  Handlers are not: they may wait for a client or a database for ever, and
  `Shutdown` has no deadline. `InterruptStops` holds all the same, precisely
  because `Run` does not wait.

## 5. Findings

1. **PUT deletes by a stale address** (`user_handlers.go:156`). Account A has
   address x. Two PUTs of A read it; the first finishes and frees x; somebody
   signs up with x; the second PUT then deletes "whoever has x". In a shorter
   variant the second PUT asks for x itself, inserts the new account, deletes
   it again, and answers 200 with it. The comment above the handler speaks of
   deleting the old user record.
2. **Two PUTs, two accounts** (`user_handlers.go:145`). Both find the old
   account, both insert, both answer 200; the second deletion finds nothing,
   which is only logged.
3. **Shutdown is not graceful** (`config.go:38`), against
   `docs/architecture.md:170`: `ListenAndServe` returns when `Shutdown`
   begins, `main` closes the pool and exits, requests in flight are cut.

Seven more differences between what the code does and what its documents lead
one to expect have no run of their own. Where a property is touched, it names
the exception, so that everything else stays checked:

* *The first revocation stops the in-memory repository*
  (`memory/usersessions.go:56`): `RevokeSession` holds the mutex and calls
  `GetSession`, which locks it. `CallsReturn` excepts `WaitsForItself`. The
  workflow `docs/architecture.md:121` says is tested on that repository cannot
  be run on it.
* *Two unguarded accesses in memory* (`memory/users.go:65` and `:91`):
  `UpgradeUser` writes the users under a read lock, and `AuthenticateUser`
  reads the credentials under none. `OnlyTwoMethodsRace` says that these are
  all.
* *The two adapters keep different contracts* (`memory/users.go:126`):
  `DeleteUser` and `DeleteAllUsers` in memory leave sessions and chirps behind
  which PostgreSQL takes along, and `UpdateUserEmail` does not look whether the
  new address is in use. `KeepsLedger` lets exactly that pass, an account that
  goes without what it owns or takes an address that another has, and nothing
  else; what such a step has left is under the same rule as the rest.
* *Bytes are not characters* (`chirp_handlers.go:20`): the message speaks of
  140 characters, the check counts bytes, so 71 letters of two bytes are
  refused. `NothingLost` shows that nothing worse follows.
* *Rollbacks stop half-way* (`20260515001537_alter_users.sql:7`): two Down
  scripts say `ADD COLUMN IF EXISTS`, against `README.md:142`. In the model
  such a rollback fails and changes nothing; `SchemaIsRecorded` holds before
  and after.
* *A rollback under a run leaves a gap* (`Makefile:49`, `migrator.go:33`). The
  run listed what was missing before the rollback, goes on above the version
  that was undone and may exit with 0; every later `migrate up` then refuses
  to fill the gap. The same happens when the rollback read its version before
  others migrated further. `SchemaIsRecorded` and `UpMeansApplied` except these
  (`crossed`, `undone`) and hold for everything else.
* *Any POLKA_KEY is accepted* (`application.go:67`), but the getter only reads
  32 hexadecimal digits: with another key every webhook is answered with 401.
  `TokensReturn` says both.

## 6. Proofs

All theorems hold for every set of requests, callers, goroutines, processes,
accounts, addresses and endpoints, for texts and headers over any alphabet,
and for all bounds, from these assumptions only: the kinds of ids are disjoint
and, in `ChirpyDB`, `Nil` is none of them (`IdsAreDistinct`), lifetimes are positive (`TTLsArePositive`),
`expires_in_seconds` is an integer (`RequestedIsInteger`), bounds are natural
numbers (`BoundsAreNatural`, `FaultsAreBounded`, `MaxTimeIsNatural`),
endpoints are among the routes (`EndpointsAreRoutes`), "nobody" is no
goroutine (`NobodyHoldsNothing`), and of texts and headers: a character has at
least one byte, only a space is a space in lower case (`CharactersAreSane`);
bad words and the mask are in lower case without spaces, the mask is not
longer than a bad word and none itself (`BadWordsAreSane`); the limit in bytes
is not above the limit in runes (`LimitsAgree`); a dot is no digit and no
letter (`CharactersAreDistinct`); a token has at least one digit
(`LengthsArePositive`); and the bounds of `RequestInputs` are natural numbers
(`LongestAreNatural`). The code's constants satisfy them: three bad words of
six to nine letters against four asterisks, 140 and 140, 128 and 32.

| Module | Theorem | Says |
| --- | --- | --- |
| `ChirpyServerProofs` | `TypeCorrect` | `Spec => []TypeOK` |
| | `SchemaCorrect` | `Spec => []SchemaHolds` |
| | `ClosedCorrect` | `Spec => []ClosedStaysClosed` |
| | `LateRefreshCorrect` | `Spec => LateRefreshFails` |
| | `AccessIsShortCorrect` | `Spec => []AccessIsShort` |
| | `ResetCountsAfreshCorrect` | `Spec => []ResetCountsAfresh` |
| | `StalePutsCorrect` | `Spec => OnlyStalePutsMisdelete` |
| | `ChirpsAreAuthoredCorrect` | `Spec => ChirpsAreAuthored` |
| | `AuthorsDeleteCorrect` | `Spec => OnlyAuthorsDeleteChirps` |
| | `LedgerKept` | `Spec => KeepsLedger`: the server implements `AccountLedger` |
| `AccountLedgerProofs` | `LedgerPromises` | `AccountLedger` itself keeps `TypeOK`, `LedgerHolds` and `ConfirmedIsOver`, if accounts and items have different ids |
| `PostgresRepositoryProofs` | `TypeCorrect` | `Spec => []TypeOK` |
| | `HonestyCorrect` | `Spec => []AnswersAreHonest` |
| | `LedgerKept` | `Spec => KeepsLedger`: so do the repository's methods |
| `MemoryRepositoryProofs` | `TypeCorrect` | `Spec => []TypeOK` |
| | `CredentialsCorrect` | `Spec => []CredentialsFound` |
| | `RacesCorrect` | `Spec => []OnlyTwoMethodsRace` |
| | `NoCircleCorrect` | `Spec => []NoCircle`: no deadlock but that of `RevokeSession` |
| | `LedgerKept` | `Spec => KeepsLedger`: every step of the maps is one of the ledger, except where an account goes without what it owns or takes an address in use |
| `ChirpListingProofs` | `RepliesFollowCorrect` | `Spec => []RepliesFollow` |
| `MigrationsProofs` | `RecordCorrect` | `Spec => []SchemaIsRecorded` |
| | `UpMeansAppliedCorrect` | `Spec => UpMeansApplied`: unless a rollback succeeded during the run |
| | `GetsThroughCorrect` | `Spec => []SomebodyGetsThrough` |
| `ServerEdgesProofs` | `PoolOutlivesListenerCorrect` | `Spec => []PoolOutlivesListener`: the listener closes before the pool does |
| | `NoBadWordCorrect` | `InputSpec => []NoBadWord` |
| | `NothingLostCorrect` | `InputSpec => []NothingLost` |
| | `TokensReturnCorrect` | `InputSpec => []TokensReturn` |
| | `OneKindCorrect` | `InputSpec => []OneKind` |

Every inductive invariant was an invariant of the component's TLC run before
it was proved.

**Statements.** `ChirpyDBProofs` has three lemmas for every SQL statement,
which the server and the repository both rest on: it keeps the types of the
rows; it keeps `TablesOK` (the schema, and every id in a table is spent) and
lets the tables evolve in one way only (`Evolves`: rows appear under fresh
ids, an account that stays keeps its address, a session that was revoked stays
revoked); and in sound tables it is a step of the ledger or leaves it as it is
(`CreateUserMaps`, `DeleteUsersMaps`, ...). `UpdateUser`, which no handler
sends, is the one that changes an address: it is `Move`, and has no place in
`Evolves`.

**Server.** `ClosedStaysClosed` is far from inductive. A PUT about to delete
`victim` will declare `old.id` closed; that is right only if `old.id` has no
row any more once `victim` is deleted, although `victim` was found by
*address*. The inductive invariant `IInv` adds what the argument needs, and
the proof goes in three layers:

1. *Statements*, as above.
2. *Frames.* A frame stays sound (`FrameSound`) when the tables evolve under
   it, whoever moved them: the account a PUT replaces either is gone or still
   has the address that was read; the victim, found by that address, *is* the
   old account or the old account is gone; a frame marked `late` holds a
   closed session.
3. *Closing.* Only four steps add to `closed`; each adds something the first
   two layers say is gone or revoked. Ids are never used twice, so it does not
   return.

`LateRefreshFails` follows: a frame that was read late holds a session that is
revoked, so `Refreshable` fails and no token is minted.

`LedgerKept` is the refinement. The lemmas of `ChirpyDBProofs` give the step
of the ledger; that no confirmation is given too early is the other half:
`ClosedMaps` derives from `IInv` that every id in `closed` either has no row
any more or is a revoked session. So the refinement rests on the same three
layers. Ids that are *not* distinct would break it: a chirp with the id of a
closed account would be in the way, which is what `IdsAreDistinct` excludes.

Two limits need less. `AccessIsShort` needs that a token made by a login but
not yet handed out is short as well (the session is stored in between, while
time passes). `ResetCountsAfresh` is inductive with the types: the step that
notes `from` also clears the counter, a visit adds one on both sides, and
another reset or a crash only lowers the counter.

Three action properties are about deeds that rest on an earlier look. The
invariant `TargetsSound` says that what a frame is about to delete or insert
is what its handler checked: the victim of a PUT still has the address it was
found by, the chirp still has the author that was compared, and a chirp is
only inserted with a valid token. It survives the steps of others because rows
only appear under fresh ids (`ChirpsEvolve`, and `Evolves` from above). With
`FrameSound` it follows that a PUT hits a stranger only if its own old account
was gone before: finding 1 is as bad as that and no worse.

**The ledger.** `LedgerPromises` says what the refinements gain. Its invariant
adds to the promise that ids are keys of items and only items that exist are
revoked; each step of the ledger then only moves ids from open to gone
(`OverStaysOver`).

**Repository.** Here addresses do change, so `Evolves` is of no use, and the
account `DeleteUser` found may have been moved away and its address taken by
another before it deletes by id. What saves the answer is `AddressesLinger`: a
statement takes an address from an account only by leaving it to *nobody*, so
that between two owners there is a moment at which it is free. The invariant
`FoundIsSound` therefore says of a `DeleteUser` between its statements: the
account still has the address it was found by, or that address has been seen
free during the call. The answer "deleted" is then true of one of these
moments. `IInv` is that, `TablesOK`, the types and `AnswersAreHonest` itself.

**In-memory repository.** Two halves. `MutexHolds` describes the RWMutex: who
owns it for writing is draining readers or inside alone, whoever is inside owns it
or is among `readers`, and a reader is shut out only while there is an owner.
The owner need not be inside: `RevokeSession` stands at the mutex it owns, for
ever. From this `OnlyTwoMethodsRace` is a matter of which maps each method
uses, and `NoCircle` a matter of cases: with an owner, it is inside, or waits
for readers, who are all inside, or waits for itself; without one, nobody is
kept out. `NoCircle` is the part of `CallsReturn` that needs no fairness; that
a goroutine inside can also leave is by the bound `Room`, which keeps an id for
it. `MapsHold` keeps ids fresh and gives every account its credentials; as
no method removes credentials, those `AuthenticateUser` is about to read
outside the lock stay (`CredentialsWait`). For `LedgerKept`, a deletion is
`Close` when what goes owns nothing (`DeletionKeeps`), and a new address is
`Move` when nobody has it (`MoveKeeps`); the other cases are the two the
property excepts. `MapsHold` speaks neither of owners nor of addresses, so it
survives them, and the steps after such a step are held to the ledger again.

**Listing.** A reply gets its time from the clock in a request that came in
after the other chirp's 201, so after that chirp's INSERT, so after its time
was taken. The invariant carries this through the two steps in between:
whatever a request can be a reply to was posted when it came in
(`prior`, a subset of `spent`), has a time not later than the clock when the
time is taken, and not later than `created` from then on, although other
requests insert chirps with *earlier* times meanwhile: those are not in
`prior`, as their ids are new (`FramesOK`). Then `TimesAgree`, and any order
by time, ties broken at will, is right.

**Migrations.** As long as no rollback has fallen into a run (`~crossed`),
what a process has still to run is a tail of the versions (`RestIsDone`), and
the rows are in the order of the versions (`RowsInOrder`), so that the row a
rollback looks up is that of the latest one (`LastIsLatest`). With
`SchemaIsRecorded` a transaction then has three outcomes (`ApplyInOrder`): the
next script; `SET NOT NULL` once more, when all is there; or an error, and
then the process was behind. After a rollback that crossed a run, what is left
of this is that a script which succeeds records all that it adds, and that a
Down script which succeeds takes away all that its version added (`DropsAre`).
`UpMeansApplied` rests on the rest of `RestIsDone`: in a run under which
nothing was rolled back, whatever is not on its list any more is recorded. For
`SomebodyGetsThrough` the invariant is `SomebodyLeads`: among runs that nobody
interrupts, there is always one whose list is exactly what is missing, and
that one cannot fail.

**Texts.** `Split`, `Join` and `Bytes` are recursions over a text of any
length, so what they compute is proved by induction. The library states its
induction theorems for an operator `P(_)`, which the provers cannot
instantiate; `NatSetInduction` and `SeqSetInduction` state them for the *set*
of what satisfies `P`, and follow from `WFMin`, the least element of a set in
a well-founded relation. `RecursionExists` and `RecursionIsUnique` then give
each recursion its one solution, `SplitAppend` and `JoinAppend` its step. The
argument about the filter is in three parts:

1. *Words.* `Join` undoes `Split` (`JoinOfSplit`), and `Split` undoes `Join`
   when no word has a space (`SplitOfJoin`). The words of a text in lower case
   are its words in lower case (`SplitOfLower`), which the code relies on when
   it looks at word `i` of the one and writes word `i` of the other.
2. *Filtering* replaces words by the mask, which is a word, not a bad one and
   not longer than one (`MaskedWordsFacts`). So there are as many spaces as
   before, no more characters, and nothing to filter a second time
   (`MaskedFacts`). A text has at least as many bytes as characters
   (`BytesCountCharacters`), so what `Validate` accepts is never cut
   (`AcceptedIsNotCut`): `NothingLost`.
3. *Reading.* `NoBadWord` does not speak of `Split`, but of words as readers
   see them: runs between spaces and ends. `CleanJoin` shows, word by word,
   that joining words none of which is bad leaves no such run that is.

**Headers.** `InputsInv` says that what a client was given was made by
`MakeRefreshToken`, `SignedString` or is a key, and that what was read is what
the getters make of the header. A refresh token has two digits for every byte
(`RefreshTokenIsHex`), a signed one has three parts (`SignedHasThreeParts`):
`TokensReturn`. Three parts need two dots, digits have none, and an API key
follows another word (`GettersExclude`): `OneKind`.

**Process.** `ClosingOrder` has the three steps of closing in their order:
`Shutdown` closes the listener before `ListenAndServe` returns, and `main`
closes the pool after that.

Only model-checked:

* the three properties the findings violate;
* liveness (`InterruptStops`, `RequestsAnswered`, `PutEndsWithOne`,
  `CallsReturn`, `RunsEnd`): fairness and `ENABLED` are out of this prover's
  reach. What these rest on besides fairness is proved where it is more than
  a guard: `NoCircle` for `CallsReturn`, `SomebodyGetsThrough` for the success
  of a migration.

## 7. Not modelled, and what comes next

Left out for good, with the reason:

* `internal/application` but for `metrics.go`: interfaces only. What they
  promise is `AccountLedger`.
* Domain types and error values: plain data, present as the rows of `ChirpyDB`.
* Test support (`internal/testutil`, `testdb`): containers and an HTTP client
  for tests; the repository the handler tests use is modelled.
* Configuration from the environment and static pages: pure input and output;
  `PLATFORM` is a constant.
* Cryptography, and the format of a JWT beyond its shape: signatures and hashes
  are taken as sound.
* `DeleteAllChirps`: an empty stub in both repositories.
* The wrap of the 32-bit hit counter after 2^31 visits: an atomic addition
  wraps by definition, and nothing in the code or its documents bounds it.
* A reset that answers 500 has cleared the counter already, PUT loses a paid
  membership and cannot keep its address, sessions are never purged: hazards
  without a property, because no document says otherwise.

All other invariants and action properties of the runs are theorems. What
could still be added, the most useful first:

1. The liveness arguments on paper, with the well-founded measures that the
   fair steps lower: the calls ahead of a writer, the scripts left to run.
2. The handlers of `ChirpyServer` over the repository as its callers see it
   (`PostgresRepository`) instead of over its statements, as a refinement
   between the two modules.
