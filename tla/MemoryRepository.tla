-------------------------- MODULE MemoryRepository --------------------------
(***************************************************************************)
(* internal/memory: one sync.RWMutex, four maps, and one method per        *)
(* repository operation. Every thread makes calls for ever. A call queues  *)
(* for the lock, is inside its critical section for a while, then takes    *)
(* effect and releases the lock in one step: "inside" is an interval, so   *)
(* that two accesses which may overlap can be told from two which cannot.  *)
(*                                                                         *)
(* A map is a set of rows with different ids. Passwords, times and texts   *)
(* are left out, and so is revoked_at: the only method that would set it   *)
(* sets it on a copy. Ids that do not parse return before a map is read.   *)
(***************************************************************************)
EXTENDS Integers, FiniteSets

CONSTANTS Thread, UserID, SessionID, ChirpID, Email, Nil, NoThread,
          MaxIds                        \* bound of the model

Methods == {"CreateUser", "UpgradeUser", "GetUserByEmail", "AuthenticateUser",
            "GetUserByID", "DeleteUser", "UpdateUserEmail", "DeleteAllUsers",
            "CreateSession", "GetSession", "RevokeSession", "DeleteSessionsByUserID",
            "CreateChirp", "GetUserChirps", "GetChirpByID", "DeleteChirp"}

ASSUME NobodyHoldsNothing == NoThread \notin Thread

ASSUME IdsAreDistinct ==
    UserID \cap SessionID = {} /\ UserID \cap ChirpID = {} /\ SessionID \cap ChirpID = {}

VARIABLES users,            \* [id, email, red]
          userCredentials,  \* ids that have a password
          userSessions,     \* [id, user]
          chirps,           \* [id, user]
          spent,            \* ids ever drawn
          writer,           \* who owns the mutex for writing or has announced itself
          readers,          \* who holds it for reading
          call              \* thread -> where its call is

maps == <<users, userCredentials, userSessions, chirps, spent>>
vars == <<maps, writer, readers, call>>

Idle == [at |-> "idle"]
At(t, step) == call[t].at = step
Threads(step) == {t \in Thread : At(t, step)}

Init ==
    /\ users = {} /\ userCredentials = {} /\ userSessions = {} /\ chirps = {}
    /\ spent = {}
    /\ writer = NoThread /\ readers = {}
    /\ call = [t \in Thread |-> Idle]

-----------------------------------------------------------------------------
(***************************************************************************)
(* sync.RWMutex. A writer first announces itself, which keeps new readers  *)
(* out, and then waits for the readers inside; Unlock lets in the readers  *)
(* that waited before the next writer can announce itself.                 *)
(***************************************************************************)
\* Mutant: a method that writes takes the lock for reading.
TakesRLockToDelete == {"UpgradeUser", "GetUserByEmail", "GetUserByID",
                       "AuthenticateUser", "DeleteChirp"}

TakesRLock == {"UpgradeUser", "GetUserByEmail", "GetUserByID", "AuthenticateUser"}

Goto(t, step) == call' = [call EXCEPT ![t].at = step]

\* Mutant: a reader counts as inside although it has been shut out.
RLockCountsFirst(t) ==
    /\ At(t, "lock") /\ call[t].op \in TakesRLock
    /\ readers' = readers \cup {t} /\ Goto(t, IF writer = NoThread THEN "inside" ELSE "shut out")
    /\ UNCHANGED <<maps, writer>>

RLock(t) ==
    /\ At(t, "lock") /\ call[t].op \in TakesRLock
    /\ \/ writer = NoThread /\ readers' = readers \cup {t} /\ Goto(t, "inside")
       \/ writer # NoThread /\ Goto(t, "shut out") /\ UNCHANGED readers
    /\ UNCHANGED <<maps, writer>>

Announce(t) ==
    /\ At(t, "lock") /\ call[t].op \notin TakesRLock
    /\ writer = NoThread
    /\ writer' = t /\ Goto(t, "drain")
    /\ UNCHANGED <<maps, readers>>

Lock(t) ==
    /\ At(t, "drain") /\ readers = {}
    /\ Goto(t, "inside")
    /\ UNCHANGED <<maps, writer, readers>>

\* The deferred Unlock or RUnlock of t, which goes on at "next".
Unlock(t, next) ==
    IF writer = t
    THEN /\ writer' = NoThread
         /\ readers' = Threads("shut out")
         /\ call' = [u \in Thread |-> IF u = t THEN next
                                      ELSE IF At(u, "shut out")
                                      THEN [call[u] EXCEPT !.at = "inside"]
                                      ELSE call[u]]
    ELSE /\ readers' = readers \ {t}
         /\ call' = [call EXCEPT ![t] = next]
         /\ UNCHANGED writer

Return(t) == Unlock(t, Idle)

-----------------------------------------------------------------------------
(***************************************************************************)
(* A call, and the methods. Inside(t, op) guards what a method does.       *)
(***************************************************************************)
Known(S) == (S \cap spent) \cup {Nil}
Fresh(S) == S \ spent

\* Bounds of the model: a call that draws an id finds one left, and MaxIds are
\* drawn in all.
Drawing(ops) == Cardinality({t \in Thread \ Threads("idle") : call[t].op \in ops})
Room(S, op) ==
    /\ Cardinality(Fresh(S)) > Drawing({op})
    /\ MaxIds > Cardinality(spent) + Drawing({"CreateUser", "CreateSession", "CreateChirp"})

Ask(t, op, args) == \E a \in args : call' = [call EXCEPT ![t] = [at |-> "lock", op |-> op, arg |-> a]]

\* What these are asked for makes no difference to the maps; nor does it to
\* RevokeSession, which never gets to its session.
OnlyLook == {"GetUserByEmail", "GetUserByID", "GetSession", "GetUserChirps", "GetChirpByID"}

Call(t) ==
    /\ At(t, "idle")
    /\ \/ Room(UserID, "CreateUser") /\ Ask(t, "CreateUser", Email)
       \/ Room(SessionID, "CreateSession") /\ Ask(t, "CreateSession", Known(UserID))
       \/ Room(ChirpID, "CreateChirp") /\ Ask(t, "CreateChirp", Known(UserID))
       \/ \E op \in {"AuthenticateUser", "DeleteUser"} : Ask(t, op, Email)
       \/ Ask(t, "UpdateUserEmail", Email \X Email)
       \/ \E op \in {"UpgradeUser", "DeleteSessionsByUserID"} : Ask(t, op, Known(UserID))
       \/ Ask(t, "DeleteChirp", Known(ChirpID))
       \/ \E op \in {"DeleteAllUsers", "RevokeSession"} \cup OnlyLook : Ask(t, op, {Nil})
    /\ UNCHANGED <<maps, writer, readers>>

Inside(t, op) == At(t, "inside") /\ call[t].op = op

\* Mutant: nor is the owner of what is stored.
AnybodyExists(id) == TRUE

HasEmail(e) == \E u \in users : u.email = e
Exists(id)  == \E u \in users : u.id = id

CreateUser(t) ==
    LET e == call[t].arg IN
    /\ Inside(t, "CreateUser") /\ Return(t)
    /\ \/ HasEmail(e) /\ UNCHANGED maps
       \/ /\ ~HasEmail(e)
          /\ \E id \in Fresh(UserID) :
                /\ users' = users \cup {[id |-> id, email |-> e, red |-> FALSE]}
                /\ userCredentials' = userCredentials \cup {id}
                /\ spent' = spent \cup {id}
          /\ UNCHANGED <<userSessions, chirps>>

\* The row is replaced in the map, although the lock is held for reading.
UpgradeUser(t) ==
    /\ Inside(t, "UpgradeUser") /\ Return(t)
    /\ users' = {IF u.id = call[t].arg THEN [u EXCEPT !.red = TRUE] ELSE u : u \in users}
    /\ UNCHANGED <<userCredentials, userSessions, chirps, spent>>

\* The methods that only look at a map; GetUserChirps does not even do that.
Looks(t, op) == Inside(t, op) /\ Return(t) /\ UNCHANGED maps

GetUserByEmail(t) == Looks(t, "GetUserByEmail")
GetUserByID(t)    == Looks(t, "GetUserByID")
GetSession(t)     == Looks(t, "GetSession")
GetUserChirps(t)  == Looks(t, "GetUserChirps")
GetChirpByID(t)   == Looks(t, "GetChirpByID")

\* Mutant: an address nobody has is looked for again.
AuthenticateUserWaits(t) ==
    /\ Inside(t, "AuthenticateUser")
    /\ \/ \E u \in users : /\ u.email = call[t].arg
                           /\ Unlock(t, [at |-> "credentials", op |-> "AuthenticateUser", arg |-> u.id])
       \/ ~HasEmail(call[t].arg) /\ Unlock(t, [call[t] EXCEPT !.at = "lock"])
    /\ UNCHANGED maps

\* GetUserByEmail has released the lock when the credentials are read.
AuthenticateUser(t) ==
    /\ Inside(t, "AuthenticateUser")
    /\ \/ \E u \in users : /\ u.email = call[t].arg
                           /\ Unlock(t, [at |-> "credentials", op |-> "AuthenticateUser", arg |-> u.id])
       \/ ~HasEmail(call[t].arg) /\ Return(t)
    /\ UNCHANGED maps

ReadCredentials(t) ==
    /\ At(t, "credentials") /\ call' = [call EXCEPT ![t] = Idle]
    /\ UNCHANGED <<maps, writer, readers>>

\* Mutant: a deletion that is thorough.
DeleteUserAndPassword(t) ==
    LET e == call[t].arg IN
    /\ Inside(t, "DeleteUser") /\ Return(t)
    /\ \/ \E u \in users : /\ u.email = e /\ users' = users \ {u}
                           /\ userCredentials' = userCredentials \ {u.id}
       \/ ~HasEmail(e) /\ UNCHANGED <<users, userCredentials>>
    /\ UNCHANGED <<userSessions, chirps, spent>>

\* Credentials, sessions and chirps of the account stay in their maps.
DeleteUser(t) ==
    LET e == call[t].arg IN
    /\ Inside(t, "DeleteUser") /\ Return(t)
    /\ \/ \E u \in users : u.email = e /\ users' = users \ {u}
       \/ ~HasEmail(e) /\ UNCHANGED users
    /\ UNCHANGED <<userCredentials, userSessions, chirps, spent>>

\* Mutant: the account that was taken out of the map is not put back.
UpdateUserEmailForgets(t) ==
    LET old == call[t].arg[1] IN
    /\ Inside(t, "UpdateUserEmail") /\ Return(t)
    /\ \/ \E u \in users : u.email = old /\ users' = users \ {u}
       \/ ~HasEmail(old) /\ UNCHANGED users
    /\ UNCHANGED <<userCredentials, userSessions, chirps, spent>>

\* Nobody looks whether the new address is in use.
UpdateUserEmail(t) ==
    LET old == call[t].arg[1]  new == call[t].arg[2] IN
    /\ Inside(t, "UpdateUserEmail") /\ Return(t)
    /\ \/ \E u \in users : u.email = old /\ users' = (users \ {u}) \cup {[u EXCEPT !.email = new]}
       \/ ~HasEmail(old) /\ UNCHANGED users
    /\ UNCHANGED <<userCredentials, userSessions, chirps, spent>>

DeleteAllUsers(t) ==
    /\ Inside(t, "DeleteAllUsers") /\ Return(t)
    /\ users' = {}
    /\ UNCHANGED <<userCredentials, userSessions, chirps, spent>>

CreateSession(t) ==
    LET user == call[t].arg IN
    /\ Inside(t, "CreateSession") /\ Return(t)
    /\ \/ /\ Exists(user)
          /\ \E id \in Fresh(SessionID) :
                /\ userSessions' = userSessions \cup {[id |-> id, user |-> user]}
                /\ spent' = spent \cup {id}
       \/ ~Exists(user) /\ UNCHANGED <<userSessions, spent>>
    /\ UNCHANGED <<users, userCredentials, chirps>>

\* GetSession is called with the lock held, and locks again.
RevokeSession(t) ==
    /\ Inside(t, "RevokeSession")
    /\ call' = [call EXCEPT ![t].at = "lock", ![t].op = "GetSession"]
    /\ UNCHANGED <<maps, writer, readers>>

DeleteSessionsByUserID(t) ==
    /\ Inside(t, "DeleteSessionsByUserID") /\ Return(t)
    /\ userSessions' = {s \in userSessions : s.user # call[t].arg}
    /\ UNCHANGED <<users, userCredentials, chirps, spent>>

CreateChirp(t) ==
    LET user == call[t].arg IN
    /\ Inside(t, "CreateChirp") /\ Return(t)
    /\ \/ /\ Exists(user)
          /\ \E id \in Fresh(ChirpID) :
                /\ chirps' = chirps \cup {[id |-> id, user |-> user]}
                /\ spent' = spent \cup {id}
       \/ ~Exists(user) /\ UNCHANGED <<chirps, spent>>
    /\ UNCHANGED <<users, userCredentials, userSessions>>

DeleteChirp(t) ==
    /\ Inside(t, "DeleteChirp") /\ Return(t)
    /\ chirps' = {c \in chirps : c.id # call[t].arg}
    /\ UNCHANGED <<users, userCredentials, userSessions, spent>>

Body(t) ==
    \/ CreateUser(t) \/ UpgradeUser(t) \/ GetUserByEmail(t) \/ GetUserByID(t)
    \/ AuthenticateUser(t) \/ DeleteUser(t) \/ UpdateUserEmail(t) \/ DeleteAllUsers(t)
    \/ CreateSession(t) \/ GetSession(t) \/ RevokeSession(t) \/ DeleteSessionsByUserID(t)
    \/ CreateChirp(t) \/ GetUserChirps(t) \/ GetChirpByID(t) \/ DeleteChirp(t)

Next == \E t \in Thread :
    Call(t) \/ RLock(t) \/ Announce(t) \/ Lock(t) \/ Body(t) \/ ReadCredentials(t)

Spec == Init /\ [][Next]_vars

(***************************************************************************)
(* Every goroutine that can run does, and sync.Mutex hands itself to the   *)
(* waiter in front once somebody has waited for a millisecond. Nobody has  *)
(* to call.                                                                *)
(***************************************************************************)
FairSpec == Spec /\ \A t \in Thread :
    /\ WF_vars(RLock(t) \/ Lock(t) \/ Body(t) \/ ReadCredentials(t))
    /\ SF_vars(Announce(t))

-----------------------------------------------------------------------------
CallRecord(step, op, args) == [at : step, op : op, arg : args]
TypeOK ==
    /\ users \subseteq [id : UserID, email : Email, red : BOOLEAN]
    /\ userCredentials \subseteq UserID
    /\ userSessions \subseteq [id : SessionID, user : UserID]
    /\ chirps \subseteq [id : ChirpID, user : UserID]
    /\ spent \subseteq UserID \cup SessionID \cup ChirpID
    /\ writer \in Thread \cup {NoThread} /\ readers \subseteq Thread
    /\ \A t \in Thread :
          call[t] \in {Idle}
             \cup CallRecord({"lock", "shut out", "drain", "inside"}, Methods,
                             Email \cup (Email \X Email) \cup UserID \cup SessionID \cup ChirpID \cup {Nil})
             \cup CallRecord({"credentials"}, {"AuthenticateUser"}, UserID)

\* The maps a method reads between two locks, and those it writes when it gets
\* past its checks.
Reads(op) ==
    CASE op \in {"CreateUser", "UpgradeUser", "GetUserByEmail", "AuthenticateUser", "GetUserByID",
                 "DeleteUser", "UpdateUserEmail", "CreateSession", "CreateChirp"} -> {"users"}
      [] op \in {"GetSession", "DeleteSessionsByUserID"} -> {"userSessions"}
      [] op = "GetChirpByID" -> {"chirps"}
      [] OTHER -> {}
Writes(op) ==
    CASE op = "CreateUser" -> {"users", "userCredentials"}
      [] op \in {"UpgradeUser", "DeleteUser", "UpdateUserEmail", "DeleteAllUsers"} -> {"users"}
      [] op \in {"CreateSession", "DeleteSessionsByUserID"} -> {"userSessions"}
      [] op \in {"CreateChirp", "DeleteChirp"} -> {"chirps"}
      [] OTHER -> {}

GetsToWrite(c) ==
    CASE c.op = "CreateUser" -> ~HasEmail(c.arg)
      [] c.op = "DeleteUser" -> HasEmail(c.arg)
      [] c.op = "UpdateUserEmail" -> HasEmail(c.arg[1])
      [] c.op \in {"UpgradeUser", "CreateSession", "CreateChirp"} -> Exists(c.arg)
      [] c.op = "DeleteSessionsByUserID" -> \E s \in userSessions : s.user = c.arg
      [] OTHER -> TRUE

ReadNow(t) == IF At(t, "inside") THEN Reads(call[t].op)
              ELSE IF At(t, "credentials") THEN {"userCredentials"} ELSE {}
WrittenNow(t) == IF At(t, "inside") /\ GetsToWrite(call[t]) THEN Writes(call[t].op) ELSE {}

(***************************************************************************)
(* Two accesses to one map, a write among them, overlap in two places      *)
(* only: UpgradeUser, which writes the map of users under a read lock, and *)
(* AuthenticateUser, which reads the credentials under none. Go gives such *)
(* a program no meaning; every other method has the lock its accesses need.*)
(***************************************************************************)
Overlap(t, u) == WrittenNow(t) \cap (ReadNow(u) \cup WrittenNow(u))

OnlyTwoMethodsRace ==
    \A t, u \in Thread : t # u =>
        /\ "users" \in Overlap(t, u) => "UpgradeUser" \in {call[t].op, call[u].op}
        /\ "userCredentials" \in Overlap(t, u) => At(u, "credentials")
        /\ Overlap(t, u) \subseteq {"users", "userCredentials"}

(***************************************************************************)
(* AuthenticateUser never checks a password against the zero value of a    *)
(* map: an account has credentials, and those of an account it has just    *)
(* looked up are still there once the lock is released, even if the        *)
(* account was deleted in between.                                         *)
(***************************************************************************)
CredentialsFound ==
    /\ \A u \in users : u.id \in userCredentials
    /\ \A t \in Thread : At(t, "credentials") => call[t].arg \in userCredentials

(***************************************************************************)
(* Every call returns, although readers and writers overtake each other,   *)
(* unless a RevokeSession stands in front of the mutex it holds itself:    *)
(* then neither it nor any later call ever returns.                        *)
(***************************************************************************)
WaitsForItself == \E t \in Thread : writer = t /\ At(t, "lock")
CallsReturn == \A t \in Thread : ~At(t, "idle") ~> (At(t, "idle") \/ WaitsForItself)

(***************************************************************************)
(* Calls never wait for each other in a circle: while any is under way,    *)
(* one of them holds the lock it needs or gets it now, and only a          *)
(* RevokeSession in front of the mutex it holds can make this untrue.      *)
(***************************************************************************)
GoesOn(t) ==
    \/ At(t, "inside") \/ At(t, "credentials")
    \/ At(t, "lock") /\ writer = NoThread
    \/ At(t, "drain") /\ readers = {}
NoCircle == ~WaitsForItself /\ Threads("idle") # Thread => \E t \in Thread : GoesOn(t)

IdsOf(T) == {x.id : x \in T}

\* The maps as the ledger sees them.
Accounts == {[id |-> u.id, email |-> u.email] : u \in users}
Items    == userSessions \cup chirps
Past     == spent \ (IdsOf(users) \cup IdsOf(userSessions) \cup IdsOf(chirps))

Ledger == INSTANCE AccountLedger WITH
    Account   <- UserID,
    Item      <- SessionID \cup ChirpID,
    accounts  <- Accounts,
    items     <- Items,
    revoked   <- {},
    past      <- Past,
    confirmed <- {}

Returns(t, op) == Inside(t, op) /\ call'[t] = Idle

\* Accounts are deleted, and a session or a chirp of theirs stays as it is.
LeavesOrphans ==
    /\ \E t \in Thread : Returns(t, "DeleteUser") \/ Returns(t, "DeleteAllUsers")
    /\ users' \subseteq users /\ UNCHANGED <<Items, spent>>
    /\ \E i \in Items : i.user \in IdsOf(users) \ IdsOf(users')

\* An account takes an address that another one has and keeps.
SharesAddress ==
    /\ \E t \in Thread : Returns(t, "UpdateUserEmail")
    /\ \E u, other \in users : /\ u # other
                               /\ users' = (users \ {u}) \cup {[u EXCEPT !.email = other.email]}
    /\ UNCHANGED <<Items, spent>>

(***************************************************************************)
(* The maps are a ledger of accounts like the tables of PostgreSQL: one    *)
(* account per address, nothing stored for an account that is gone, no id  *)
(* used twice. They leave it in two ways and no others, whatever overlaps  *)
(* and whatever such a step has left: an account that owns something is    *)
(* deleted without it, or takes an address that is in use.                 *)
(***************************************************************************)
KeepsLedger ==
    [][LeavesOrphans \/ SharesAddress \/ Ledger!Next \/ UNCHANGED Ledger!vars]_vars
=============================================================================
