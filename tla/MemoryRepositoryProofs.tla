----------------------- MODULE MemoryRepositoryProofs -----------------------
(***************************************************************************)
(* Theorems about the in-memory repository, for any number of goroutines,  *)
(* accounts, sessions and chirps. There are two halves that hardly touch:  *)
(*   1. the mutex: a writer is inside alone, and whoever is inside is the  *)
(*      writer or one of the readers (MutexHolds), which leaves two races; *)
(*   2. the maps: every method keeps ids fresh and distinct (MapsHold),    *)
(*      and credentials are only ever added, which is what makes the read  *)
(*      of AuthenticateUser that no lock protects find something.          *)
(* RevokeSession, which stands at the mutex it owns, is the reason that    *)
(* the owner of the mutex need not be inside.                              *)
(***************************************************************************)
EXTENDS MemoryRepository, TLAPS

Steps == {"lock", "shut out", "drain", "inside"}
AnyArg == Email \cup (Email \X Email) \cup UserID \cup SessionID \cup ChirpID \cup {Nil}
CallType == {Idle} \cup CallRecord(Steps, Methods, AnyArg)
                   \cup CallRecord({"credentials"}, {"AuthenticateUser"}, UserID)

\* A call has the argument its method takes, where what is stored depends on it.
Fits(c) == /\ c.op = "CreateUser" => c.arg \in Email
           /\ c.op = "UpdateUserEmail" => c.arg \in Email \X Email

CallsFit == /\ call \in [Thread -> CallType]
            /\ \A t \in Thread : call[t].at \in Steps => Fits(call[t])

\* Who owns the mutex for writing has let all readers leave before it goes on.
HoldsAlone(t) == writer = t /\ (At(t, "inside") \/ At(t, "lock"))

OwnersAreThreads == writer \in Thread \cup {NoThread} /\ readers \subseteq Thread
ReadersAreInside == \A t \in readers : At(t, "inside") /\ call[t].op \in TakesRLock
WriterWaitsOrHolds ==
    \A t \in Thread : writer = t => (At(t, "drain") \/ HoldsAlone(t)) /\ call[t].op \notin TakesRLock
WriterIsAlone == \A t \in Thread : HoldsAlone(t) => readers = {}
InsideIsOwned == \A t \in Thread : At(t, "inside") => writer = t \/ t \in readers
DrainIsOwned  == \A t \in Thread : At(t, "drain") => writer = t
ShutOutByWriter ==
    \A t \in Thread : At(t, "shut out") => writer # NoThread /\ call[t].op \in TakesRLock

MutexHolds == /\ OwnersAreThreads /\ ReadersAreInside /\ WriterWaitsOrHolds
              /\ WriterIsAlone /\ InsideIsOwned /\ DrainIsOwned /\ ShutOutByWriter

MapsTypeOK ==
    /\ users \subseteq [id : UserID, email : Email, red : BOOLEAN]
    /\ userCredentials \subseteq UserID
    /\ userSessions \subseteq [id : SessionID, user : UserID]
    /\ chirps \subseteq [id : ChirpID, user : UserID]
    /\ spent \subseteq UserID \cup SessionID \cup ChirpID

\* Ids are keys and were drawn; an account has credentials.
RowsHold ==
    /\ \A u \in users : u.id \in spent /\ u.id \in userCredentials
    /\ \A s \in userSessions : s.id \in spent
    /\ \A c \in chirps : c.id \in spent
    /\ \A u, v \in users : u.id = v.id => u = v
    /\ \A s, r \in userSessions : s.id = r.id => s = r
    /\ \A c, d \in chirps : c.id = d.id => c = d

MapsHold == MapsTypeOK /\ RowsHold

CredentialsWait == \A t \in Thread : At(t, "credentials") => call[t].arg \in userCredentials

\* The inductive invariant.
IInv == CallsFit /\ MutexHolds /\ MapsHold /\ CredentialsWait

-----------------------------------------------------------------------------
(* 1. Calls and the mutex.                                                 *)

\* How a method leaves the mutex: at rest, or with credentials to look up.
Leaves(t) ==
    \/ Return(t)
    \/ \E u \in users : Unlock(t, [at |-> "credentials", op |-> "AuthenticateUser", arg |-> u.id])

\* A method that does its work leaves the mutex, but for RevokeSession.
LEMMA BodyLeaves ==
    ASSUME NEW t \in Thread, Body(t)
    PROVE  At(t, "inside") /\ (Leaves(t) \/ RevokeSession(t))
BY DEF Body, CreateUser, UpgradeUser, GetUserByEmail, GetUserByID, AuthenticateUser, DeleteUser,
       UpdateUserEmail, DeleteAllUsers, CreateSession, GetSession, RevokeSession,
       DeleteSessionsByUserID, CreateChirp, GetUserChirps, GetChirpByID, DeleteChirp,
       Looks, Inside, Leaves

\* A call has one of three forms.
LEMMA CallForms ==
    ASSUME NEW c \in CallType
    PROVE  \/ c = Idle /\ c.at = "idle"
           \/ c \in CallRecord(Steps, Methods, AnyArg) /\ c.at \in Steps
           \/ c \in CallRecord({"credentials"}, {"AuthenticateUser"}, UserID) /\ c.at = "credentials"
BY DEF CallType, CallRecord, Idle

\* The step of a call moves on; method and argument remain.
LEMMA GotoMoves ==
    ASSUME CallsFit, NEW t \in Thread, call[t].at \in Steps, NEW step \in Steps, Goto(t, step)
    PROVE  /\ CallsFit'
           /\ call'[t].at = step /\ call'[t].op = call[t].op
           /\ \A u \in Thread \ {t} : call'[u] = call[u]
<1>1. call[t] \in CallRecord(Steps, Methods, AnyArg)
  BY CallForms DEF CallsFit, Steps
<1>2. call' = [call EXCEPT ![t] = [call[t] EXCEPT !.at = step]]
  BY DEF Goto
<1>3. /\ [call[t] EXCEPT !.at = step] \in CallRecord(Steps, Methods, AnyArg)
      /\ [call[t] EXCEPT !.at = step].at = step
      /\ [call[t] EXCEPT !.at = step].op = call[t].op
      /\ [call[t] EXCEPT !.at = step].arg = call[t].arg
  BY <1>1 DEF CallRecord
<1>. QED BY <1>2, <1>3 DEF CallsFit, CallType, Fits

\* RevokeSession goes on to GetSession.
LEMMA RevokeMoves ==
    ASSUME CallsFit, NEW t \in Thread, RevokeSession(t)
    PROVE  /\ CallsFit'
           /\ call'[t].at = "lock" /\ call'[t].op = "GetSession"
           /\ \A u \in Thread \ {t} : call'[u] = call[u]
<1>1. call[t] \in CallRecord(Steps, Methods, AnyArg)
  BY CallForms DEF CallsFit, Steps, RevokeSession, Inside, At
<1>2. call' = [call EXCEPT ![t] = [call[t] EXCEPT !.at = "lock", !.op = "GetSession"]]
  BY DEF RevokeSession
<1>3. /\ [call[t] EXCEPT !.at = "lock", !.op = "GetSession"] \in CallRecord(Steps, Methods, AnyArg)
      /\ [call[t] EXCEPT !.at = "lock", !.op = "GetSession"].at = "lock"
      /\ [call[t] EXCEPT !.at = "lock", !.op = "GetSession"].op = "GetSession"
  BY <1>1 DEF CallRecord, Steps, Methods
<1>. QED BY <1>2, <1>3 DEF CallsFit, CallType, Fits

\* A call that begins waits at the mutex.
LEMMA CallMoves ==
    ASSUME CallsFit, MapsTypeOK, NEW t \in Thread, Call(t)
    PROVE  /\ CallsFit'
           /\ call'[t].at = "lock"
           /\ \A u \in Thread \ {t} : call'[u] = call[u]
<1>1. PICK op \in Methods, a \in AnyArg :
         /\ call' = [call EXCEPT ![t] = [at |-> "lock", op |-> op, arg |-> a]]
         /\ op = "CreateUser" => a \in Email
         /\ op = "UpdateUserEmail" => a \in Email \X Email
  <2>1. \A S \in {UserID, SessionID, ChirpID} : Known(S) \subseteq AnyArg
    BY DEF Known, AnyArg
  <2>2. Email \subseteq AnyArg /\ Email \X Email \subseteq AnyArg /\ {Nil} \subseteq AnyArg
    BY DEF AnyArg
  <2>. QED BY <2>1, <2>2 DEF Call, Ask, Methods, OnlyLook
<1>. DEFINE c == [at |-> "lock", op |-> op, arg |-> a]
<1>2. c \in CallRecord(Steps, Methods, AnyArg) /\ c.at = "lock" /\ Fits(c)
  BY <1>1 DEF CallRecord, Steps, Fits
<1>. HIDE DEF c
<1>3. call' = [call EXCEPT ![t] = c]
  BY <1>1 DEF c
<1>. QED BY <1>2, <1>3 DEF CallsFit, CallType

\* A method that leaves the mutex is at rest, or has found its account; if it
\* was the writer, the readers that were shut out are let in.
LEMMA LeaveMoves ==
    ASSUME CallsFit, MapsTypeOK, NEW t \in Thread, Leaves(t)
    PROVE  /\ CallsFit'
           /\ \/ call'[t] = Idle /\ call'[t].at = "idle"
              \/ \E u \in users : /\ call'[t].at = "credentials" /\ call'[t].arg = u.id
           /\ \A u \in Thread \ {t} :
                 /\ call'[u].op = call[u].op /\ call'[u].arg = call[u].arg
                 /\ call'[u].at = IF writer = t /\ At(u, "shut out") THEN "inside" ELSE call[u].at
<1>. DEFINE in(u) == [call[u] EXCEPT !.at = "inside"]
<1>1. PICK next : /\ Unlock(t, next)
                  /\ \/ next = Idle
                     \/ \E u \in users :
                           next = [at |-> "credentials", op |-> "AuthenticateUser", arg |-> u.id]
  BY DEF Leaves, Return
<1>2. \A u \in users : [at |-> "credentials", op |-> "AuthenticateUser", arg |-> u.id]
                          \in CallRecord({"credentials"}, {"AuthenticateUser"}, UserID)
  BY DEF MapsTypeOK, CallRecord
<1>3. /\ next \in CallType /\ next.at \notin Steps
      /\ \/ next = Idle /\ next.at = "idle"
         \/ \E u \in users : next.at = "credentials" /\ next.arg = u.id
  <2>1. CASE next = Idle
    BY <2>1 DEF CallType, Idle, Steps
  <2>2. ASSUME NEW u \in users,
               next = [at |-> "credentials", op |-> "AuthenticateUser", arg |-> u.id]
        PROVE  next \in CallType /\ next.at = "credentials" /\ next.arg = u.id
    BY <1>2, <2>2 DEF CallType
  <2>. QED BY <1>1, <2>1, <2>2 DEF Steps
<1>4. ASSUME NEW u \in Thread, At(u, "shut out")
      PROVE  /\ in(u) \in CallType /\ in(u).at = "inside"
             /\ in(u).op = call[u].op /\ in(u).arg = call[u].arg
  <2>1. call[u] \in CallRecord(Steps, Methods, AnyArg)
    BY <1>4, CallForms DEF CallsFit, Steps, At
  <2>. QED BY <2>1 DEF CallRecord, CallType, Steps
<1>. HIDE DEF in
<1>5. CASE writer = t
  <2>1. call' = [u \in Thread |-> IF u = t THEN next ELSE IF At(u, "shut out") THEN in(u) ELSE call[u]]
    BY <1>1, <1>5 DEF Unlock, in
  <2>. QED BY <2>1, <1>3, <1>4, <1>5 DEF CallsFit, Fits, At, Steps
<1>6. CASE writer # t
  <2>1. call' = [call EXCEPT ![t] = next]
    BY <1>1, <1>6 DEF Unlock
  <2>. QED BY <2>1, <1>3, <1>6 DEF CallsFit
<1>. QED BY <1>5, <1>6

\* Who owns the mutex after Unlock.
LEMMA LeaveFrees ==
    ASSUME NEW t \in Thread, Leaves(t)
    PROVE  /\ writer = t => writer' = NoThread /\ readers' = Threads("shut out")
           /\ writer # t => writer' = writer /\ readers' = readers \ {t}
<1>1. PICK next : Unlock(t, next)
  BY DEF Leaves, Return
<1>. QED BY <1>1 DEF Unlock

\* A reader is let in while nobody owns the mutex, or is shut out.
LEMMA RLockKeeps ==
    ASSUME CallsFit, MutexHolds, NEW t \in Thread, RLock(t)
    PROVE  CallsFit' /\ MutexHolds'
<1>. USE DEF MutexHolds, OwnersAreThreads, ReadersAreInside, WriterWaitsOrHolds, WriterIsAlone,
             InsideIsOwned, DrainIsOwned, ShutOutByWriter, HoldsAlone, At
<1>1. call[t].at = "lock" /\ call[t].op \in TakesRLock /\ writer' = writer /\ writer # t
  BY DEF RLock
<1>2. CASE writer = NoThread /\ readers' = readers \cup {t} /\ Goto(t, "inside")
  <2>1. /\ CallsFit' /\ call'[t].at = "inside" /\ call'[t].op = call[t].op
        /\ \A u \in Thread \ {t} : call'[u] = call[u]
    BY <1>1, <1>2, GotoMoves DEF Steps
  <2>2. \A u \in Thread : u # NoThread
    BY NobodyHoldsNothing
  <2>3. OwnersAreThreads' /\ ReadersAreInside' /\ WriterWaitsOrHolds'
    BY <1>1, <1>2, <2>1, <2>2
  <2>4. WriterIsAlone' /\ InsideIsOwned' /\ DrainIsOwned' /\ ShutOutByWriter'
    BY <1>1, <1>2, <2>1, <2>2
  <2>. QED BY <2>1, <2>3, <2>4
<1>3. CASE writer # NoThread /\ readers' = readers /\ Goto(t, "shut out")
  <2>1. /\ CallsFit' /\ call'[t].at = "shut out" /\ call'[t].op = call[t].op
        /\ \A u \in Thread \ {t} : call'[u] = call[u]
    BY <1>1, <1>3, GotoMoves DEF Steps
  <2>2. OwnersAreThreads' /\ ReadersAreInside' /\ WriterWaitsOrHolds'
    BY <1>1, <1>3, <2>1
  <2>3. WriterIsAlone' /\ InsideIsOwned' /\ DrainIsOwned' /\ ShutOutByWriter'
    BY <1>1, <1>3, <2>1
  <2>. QED BY <2>1, <2>2, <2>3
<1>. QED BY <1>2, <1>3 DEF RLock

\* A writer announces itself only while there is none, and enters alone.
LEMMA LockKeeps ==
    ASSUME CallsFit, MutexHolds, NEW t \in Thread, Announce(t) \/ Lock(t)
    PROVE  CallsFit' /\ MutexHolds'
<1>. USE DEF MutexHolds, OwnersAreThreads, ReadersAreInside, WriterWaitsOrHolds, WriterIsAlone,
             InsideIsOwned, DrainIsOwned, ShutOutByWriter, HoldsAlone, At
<1>1. CASE Announce(t)
  <2>1. /\ call[t].at = "lock" /\ call[t].op \notin TakesRLock /\ writer = NoThread
        /\ writer' = t /\ readers' = readers /\ Goto(t, "drain")
    BY <1>1 DEF Announce
  <2>2. /\ CallsFit' /\ call'[t].at = "drain" /\ call'[t].op = call[t].op
        /\ \A u \in Thread \ {t} : call'[u] = call[u]
    BY <2>1, GotoMoves DEF Steps
  <2>3. \A u \in Thread : u # NoThread
    BY NobodyHoldsNothing
  <2>4. OwnersAreThreads' /\ ReadersAreInside' /\ WriterWaitsOrHolds'
    BY <2>1, <2>2, <2>3
  <2>5. WriterIsAlone' /\ InsideIsOwned' /\ DrainIsOwned' /\ ShutOutByWriter'
    BY <2>1, <2>2, <2>3
  <2>. QED BY <2>2, <2>4, <2>5
<1>2. CASE Lock(t)
  <2>1. /\ call[t].at = "drain" /\ readers = {} /\ Goto(t, "inside")
        /\ writer' = writer /\ readers' = readers /\ writer = t
    BY <1>2 DEF Lock
  <2>2. /\ CallsFit' /\ call'[t].at = "inside" /\ call'[t].op = call[t].op
        /\ \A u \in Thread \ {t} : call'[u] = call[u]
    BY <2>1, GotoMoves DEF Steps
  <2>3. OwnersAreThreads' /\ ReadersAreInside' /\ WriterWaitsOrHolds'
    BY <2>1, <2>2
  <2>4. WriterIsAlone' /\ InsideIsOwned' /\ DrainIsOwned' /\ ShutOutByWriter'
    BY <2>1, <2>2
  <2>. QED BY <2>2, <2>3, <2>4
<1>. QED BY <1>1, <1>2

\* A writer that leaves lets in those it shut out; a reader leaves by itself.
LEMMA LeaveKeeps ==
    ASSUME CallsFit, MapsTypeOK, MutexHolds, NEW t \in Thread, At(t, "inside"), Leaves(t)
    PROVE  CallsFit' /\ MutexHolds'
<1>. USE DEF MutexHolds, OwnersAreThreads, ReadersAreInside, WriterWaitsOrHolds, WriterIsAlone,
             InsideIsOwned, DrainIsOwned, ShutOutByWriter, HoldsAlone, At
<1>1. CallsFit' /\ call'[t].at \in {"idle", "credentials"}
  BY LeaveMoves
<1>2. \A u \in Thread \ {t} :
         /\ call'[u].op = call[u].op
         /\ call'[u].at = IF writer = t /\ At(u, "shut out") THEN "inside" ELSE call[u].at
  BY LeaveMoves
<1>3. CASE writer = t
  <2>1. writer' = NoThread /\ readers' = Threads("shut out") /\ readers = {}
    BY <1>3, LeaveFrees
  <2>2. \A u \in Thread : u # NoThread /\ (call[u].at \in {"inside", "drain"} => u = t)
    BY <1>3, <2>1, NobodyHoldsNothing
  <2>3. \A u : u \in readers' <=> u \in Thread /\ call[u].at = "shut out"
    BY <2>1 DEF Threads
  <2>4. OwnersAreThreads' /\ ReadersAreInside' /\ WriterWaitsOrHolds'
    BY <1>1, <1>2, <1>3, <2>1, <2>2, <2>3
  <2>5. WriterIsAlone' /\ InsideIsOwned'
    BY <1>1, <1>2, <1>3, <2>1, <2>2, <2>3
  <2>6. DrainIsOwned' /\ ShutOutByWriter'
    BY <1>1, <1>2, <1>3, <2>1, <2>2, <2>3
  <2>. QED BY <1>1, <2>4, <2>5, <2>6
<1>4. CASE writer # t
  <2>1. writer' = writer /\ readers' = readers \ {t}
    BY <1>4, LeaveFrees
  <2>2. \A u \in Thread \ {t} : call'[u].at = call[u].at
    BY <1>2, <1>4
  <2>3. OwnersAreThreads' /\ ReadersAreInside' /\ WriterWaitsOrHolds'
    BY <1>1, <1>2, <1>4, <2>1, <2>2
  <2>4. WriterIsAlone' /\ InsideIsOwned'
    BY <1>1, <1>2, <1>4, <2>1, <2>2
  <2>5. DrainIsOwned' /\ ShutOutByWriter'
    BY <1>1, <1>2, <1>4, <2>1, <2>2
  <2>. QED BY <1>1, <2>3, <2>4, <2>5
<1>. QED BY <1>3, <1>4

\* The steps that leave the mutex to whoever owns it: a call begins, reads the
\* credentials, or is RevokeSession, which then waits for itself.
LEMMA OthersKeep ==
    ASSUME CallsFit, MapsTypeOK, MutexHolds, NEW t \in Thread,
           Call(t) \/ ReadCredentials(t) \/ RevokeSession(t)
    PROVE  CallsFit' /\ MutexHolds'
<1>. USE DEF MutexHolds, OwnersAreThreads, ReadersAreInside, WriterWaitsOrHolds, WriterIsAlone,
             InsideIsOwned, DrainIsOwned, ShutOutByWriter, HoldsAlone, At
<1>1. writer' = writer /\ readers' = readers
  BY DEF Call, ReadCredentials, RevokeSession
<1>2. CASE Call(t)
  <2>1. call[t].at = "idle"
    BY <1>2 DEF Call
  <2>2. CallsFit' /\ call'[t].at = "lock" /\ \A u \in Thread \ {t} : call'[u] = call[u]
    BY <1>2, CallMoves
  <2>. QED BY <1>1, <2>1, <2>2
<1>3. CASE ReadCredentials(t)
  <2>1. call[t].at = "credentials" /\ call' = [call EXCEPT ![t] = Idle]
    BY <1>3 DEF ReadCredentials
  <2>2. CallsFit' /\ call'[t].at = "idle" /\ \A u \in Thread \ {t} : call'[u] = call[u]
    BY <2>1 DEF CallsFit, CallType, Idle, Steps
  <2>. QED BY <1>1, <2>1, <2>2
<1>4. CASE RevokeSession(t)
  <2>1. call[t].at = "inside" /\ call[t].op = "RevokeSession" /\ writer = t
    BY <1>4 DEF RevokeSession, Inside, TakesRLock
  <2>2. /\ CallsFit' /\ call'[t].at = "lock" /\ call'[t].op \notin TakesRLock
        /\ \A u \in Thread \ {t} : call'[u] = call[u]
    BY <1>4, RevokeMoves DEF TakesRLock
  <2>. QED BY <1>1, <2>1, <2>2
<1>. QED BY <1>2, <1>3, <1>4

\* Every step keeps the calls in form and the mutex in order.
LEMMA MutexKept ==
    ASSUME CallsFit, MapsTypeOK, MutexHolds, Next
    PROVE  CallsFit' /\ MutexHolds'
BY BodyLeaves, RLockKeeps, LockKeeps, LeaveKeeps, OthersKeep DEF Next

-----------------------------------------------------------------------------
(* 2. The maps.                                                            *)

\* What a method does to the maps: ids stay keys, no credentials are lost, and
\* the ledger takes a step of its own.
MapsStep == MapsHold' /\ userCredentials \subseteq userCredentials' /\ Ledger!Step

\* An id that is gone was drawn, and no row has it.
LEMMA PastIds ==
    \A x : x \in Past <=> /\ x \in spent
                          /\ \A u \in users : u.id # x
                          /\ \A s \in userSessions : s.id # x
                          /\ \A c \in chirps : c.id # x
BY DEF Past, IdsOf

\* The ids of the accounts and items the ledger sees are those of the rows.
LEMMA SeenIds ==
    /\ \A x : x \in Ledger!Ids(Accounts) <=> \E u \in users : u.id = x
    /\ \A x : x \in Ledger!Ids(Items) <=> \/ \E s \in userSessions : s.id = x
                                          \/ \E c \in chirps : c.id = x
<1>. DEFINE seen(u) == [id |-> u.id, email |-> u.email]
<1>1. \A u : seen(u).id = u.id
  OBVIOUS
<1>. HIDE DEF seen
<1>2. \A x : x \in Ledger!Ids({seen(u) : u \in users}) <=> \E u \in users : u.id = x
  BY <1>1 DEF Ledger!Ids
<1>3. Accounts = {seen(u) : u \in users}
  BY DEF Accounts, seen
<1>4. \A x : x \in Ledger!Ids(Items) <=> \E i \in Items : i.id = x
  BY DEF Ledger!Ids
<1>5. \A x : (\E i \in Items : i.id = x) <=> \/ \E s \in userSessions : s.id = x
                                             \/ \E c \in chirps : c.id = x
  BY DEF Items
<1>6. \A x : x \in Ledger!Ids(Accounts) <=> \E u \in users : u.id = x
  BY <1>2, <1>3
<1>. QED BY <1>4, <1>5, <1>6, Zenon

\* The types of the ids, apart from the rows they stand in.
LEMMA RowTypes ==
    ASSUME MapsHold
    PROVE  /\ \A u \in users : u.id \in UserID /\ u.id \in spent
           /\ \A s \in userSessions : s.id \in SessionID /\ s.id \in spent
           /\ \A c \in chirps : c.id \in ChirpID /\ c.id \in spent
BY DEF MapsHold, MapsTypeOK, RowsHold

\* A method that only looks, or refuses.
LEMMA LooksKeeps == ASSUME MapsHold, UNCHANGED maps PROVE MapsStep
<1>1. Accounts' = Accounts /\ Items' = Items /\ Past' = Past
  BY DEF maps, Accounts, Items, Past, IdsOf
<1>2. MapsHold' /\ userCredentials \subseteq userCredentials'
  BY DEF maps, MapsHold, MapsTypeOK, RowsHold
<1>. QED BY <1>1, <1>2 DEF MapsStep, Ledger!Step

\* CreateUser opens an account for an address nobody has.
LEMMA CreateUserKeeps ==
    ASSUME MapsHold, CallsFit, NEW t \in Thread, CreateUser(t)
    PROVE  MapsStep
<1>. DEFINE e == call[t].arg
<1>0. e \in Email
  BY DEF CreateUser, Inside, At, CallsFit, Fits, Steps
<1>1. CASE HasEmail(e)
  BY <1>1, LooksKeeps DEF CreateUser
<1>2. CASE ~HasEmail(e)
  <2>1. PICK id \in UserID :
           /\ id \notin spent
           /\ users' = users \cup {[id |-> id, email |-> e, red |-> FALSE]}
           /\ userCredentials' = userCredentials \cup {id}
           /\ spent' = spent \cup {id}
    BY <1>2 DEF CreateUser, Fresh
  <2>2. PICK n \in [id : UserID, email : Email, red : BOOLEAN] :
           n.id = id /\ n.email = e /\ users' = users \cup {n}
    BY <1>0, <2>1
  <2>3. userSessions' = userSessions /\ chirps' = chirps
    BY <1>2 DEF CreateUser
  <2>4. MapsTypeOK'
    BY <2>1, <2>2, <2>3 DEF MapsHold, MapsTypeOK
  <2>5. RowsHold'
    BY <2>1, <2>2, <2>3 DEF MapsHold, RowsHold
  <2>6. Accounts' = Accounts \cup {[id |-> id, email |-> e]}
    BY <2>2 DEF Accounts
  <2>7. Items' = Items
    BY <2>3 DEF Items
  <2>8. Past' = Past
    BY <2>1, <2>2, <2>3, RowTypes DEF Past, IdsOf
  <2>9. id \notin Ledger!Ids(Accounts) \cup Past
    BY <2>1, SeenIds, PastIds, RowTypes
  <2>10. \A x \in Accounts : x.email # e
    BY <1>2 DEF Accounts, HasEmail
  <2>11. Ledger!Open(id, e)
    BY <2>6, <2>7, <2>8, <2>9, <2>10 DEF Ledger!Open
  <2>. QED BY <1>0, <2>1, <2>4, <2>5, <2>11 DEF MapsStep, MapsHold, Ledger!Step
<1>. QED BY <1>1, <1>2

\* UpgradeUser replaces a row by one with the same id and address.
LEMMA UpgradeUserKeeps ==
    ASSUME MapsHold, NEW t \in Thread, UpgradeUser(t)
    PROVE  MapsStep
<1>. DEFINE up(u) == IF u.id = call[t].arg THEN [u EXCEPT !.red = TRUE] ELSE u
<1>1. /\ users' = {up(u) : u \in users} /\ userCredentials' = userCredentials
      /\ userSessions' = userSessions /\ chirps' = chirps /\ spent' = spent
  BY DEF UpgradeUser
<1>2. \A u \in users : /\ up(u).id = u.id /\ up(u).email = u.email
                       /\ up(u) \in [id : UserID, email : Email, red : BOOLEAN]
  BY DEF MapsHold, MapsTypeOK
<1>. HIDE DEF up
<1>3. MapsTypeOK'
  BY <1>1, <1>2 DEF MapsHold, MapsTypeOK
<1>4. RowsHold'
  BY <1>1, <1>2 DEF MapsHold, RowsHold
<1>5. Accounts' = Accounts
  BY <1>1, <1>2 DEF Accounts
<1>6. IdsOf(users)' = IdsOf(users)
  BY <1>1, <1>2 DEF IdsOf
<1>7. Items' = Items /\ Past' = Past
  BY <1>1, <1>6 DEF Items, Past, IdsOf
<1>. QED BY <1>1, <1>3, <1>4, <1>5, <1>7 DEF MapsStep, MapsHold, Ledger!Step

\* CreateSession attaches a session to an account that is in the map.
LEMMA CreateSessionKeeps ==
    ASSUME MapsHold, NEW t \in Thread, CreateSession(t)
    PROVE  MapsStep
<1>. DEFINE user == call[t].arg
<1>1. CASE ~Exists(user)
  <2>1. UNCHANGED maps
    BY <1>1 DEF CreateSession, maps
  <2>. QED BY <2>1, LooksKeeps
<1>2. CASE Exists(user)
  <2>1. PICK id \in SessionID :
           /\ id \notin spent
           /\ userSessions' = userSessions \cup {[id |-> id, user |-> user]}
           /\ spent' = spent \cup {id}
    BY <1>2 DEF CreateSession, Fresh
  <2>2. /\ users' = users /\ userCredentials' = userCredentials /\ chirps' = chirps
        /\ user \in UserID /\ user \in Ledger!Ids(Accounts)
    BY <1>2, SeenIds, RowTypes DEF CreateSession, Exists
  <2>3. PICK n \in [id : SessionID, user : UserID] :
           n.id = id /\ userSessions' = userSessions \cup {n}
    BY <2>1, <2>2
  <2>4. MapsTypeOK'
    BY <2>1, <2>2, <2>3 DEF MapsHold, MapsTypeOK
  <2>5. RowsHold'
    BY <2>1, <2>2, <2>3 DEF MapsHold, RowsHold
  <2>6. Items' = Items \cup {[id |-> id, user |-> user]} /\ Accounts' = Accounts
    BY <2>1, <2>2 DEF Items, Accounts
  <2>7. Past' = Past
    <3>1. IdsOf(userSessions)' = IdsOf(userSessions) \cup {id}
      BY <2>3 DEF IdsOf
    <3>2. IdsOf(users)' = IdsOf(users) /\ IdsOf(chirps)' = IdsOf(chirps)
      BY <2>2 DEF IdsOf
    <3>. QED BY <3>1, <3>2, <2>1 DEF Past
  <2>8. id \notin Ledger!Ids(Items) \cup Past
    BY <2>1, SeenIds, PastIds, RowTypes
  <2>9. Ledger!Attach(id, user)
    BY <2>2, <2>6, <2>7, <2>8 DEF Ledger!Attach
  <2>. QED BY <2>2, <2>4, <2>5, <2>9 DEF MapsStep, MapsHold, Ledger!Step
<1>. QED BY <1>1, <1>2

\* CreateChirp attaches a chirp to an account that is in the map.
LEMMA CreateChirpKeeps ==
    ASSUME MapsHold, NEW t \in Thread, CreateChirp(t)
    PROVE  MapsStep
<1>. DEFINE user == call[t].arg
<1>1. CASE ~Exists(user)
  <2>1. UNCHANGED maps
    BY <1>1 DEF CreateChirp, maps
  <2>. QED BY <2>1, LooksKeeps
<1>2. CASE Exists(user)
  <2>1. PICK id \in ChirpID :
           /\ id \notin spent
           /\ chirps' = chirps \cup {[id |-> id, user |-> user]}
           /\ spent' = spent \cup {id}
    BY <1>2 DEF CreateChirp, Fresh
  <2>2. /\ users' = users /\ userCredentials' = userCredentials
        /\ userSessions' = userSessions
        /\ user \in UserID /\ user \in Ledger!Ids(Accounts)
    BY <1>2, SeenIds, RowTypes DEF CreateChirp, Exists
  <2>3. PICK n \in [id : ChirpID, user : UserID] :
           n.id = id /\ chirps' = chirps \cup {n}
    BY <2>1, <2>2
  <2>4. MapsTypeOK'
    BY <2>1, <2>2, <2>3 DEF MapsHold, MapsTypeOK
  <2>5. RowsHold'
    BY <2>1, <2>2, <2>3 DEF MapsHold, RowsHold
  <2>6. Items' = Items \cup {[id |-> id, user |-> user]} /\ Accounts' = Accounts
    BY <2>1, <2>2 DEF Items, Accounts
  <2>7. Past' = Past
    <3>1. IdsOf(chirps)' = IdsOf(chirps) \cup {id}
      BY <2>3 DEF IdsOf
    <3>2. IdsOf(users)' = IdsOf(users) /\ IdsOf(userSessions)' = IdsOf(userSessions)
      BY <2>2 DEF IdsOf
    <3>. QED BY <3>1, <3>2, <2>1 DEF Past
  <2>8. id \notin Ledger!Ids(Items) \cup Past
    BY <2>1, SeenIds, PastIds, RowTypes
  <2>9. Ledger!Attach(id, user)
    BY <2>2, <2>6, <2>7, <2>8 DEF Ledger!Attach
  <2>. QED BY <2>2, <2>4, <2>5, <2>9 DEF MapsStep, MapsHold, Ledger!Step
<1>. QED BY <1>1, <1>2

\* A method that removes the items with the ids in S, and nothing else.
LEMMA RemovalKeeps ==
    ASSUME MapsHold, NEW S \in SUBSET (SessionID \cup ChirpID),
           userSessions' = {s \in userSessions : s.id \notin S},
           chirps' = {c \in chirps : c.id \notin S},
           UNCHANGED <<users, userCredentials, spent>>
    PROVE  MapsStep
<1>1. MapsTypeOK' /\ RowsHold'
  BY DEF MapsHold, MapsTypeOK, RowsHold
<1>2. Items' = {i \in Items : i.id \notin S} /\ Accounts' = Accounts
  BY DEF Items, Accounts
<1>3. \A x : x \in Past' <=> /\ x \in spent
                             /\ \A u \in users : u.id # x
                             /\ \A s \in userSessions : s.id = x => x \in S
                             /\ \A c \in chirps : c.id = x => x \in S
  BY DEF Past, IdsOf
<1>4. ASSUME NEW x, x \in Past' PROVE x \in Past \/ x \in S \cap Ledger!Ids(Items)
  <2>1. CASE x \in Ledger!Ids(Items)
    BY <1>3, <1>4, <2>1, SeenIds
  <2>2. CASE x \notin Ledger!Ids(Items)
    <3>1. (\A s \in userSessions : s.id # x) /\ (\A c \in chirps : c.id # x)
      BY <2>2, SeenIds
    <3>. QED BY <1>3, <1>4, <3>1, PastIds
  <2>. QED BY <2>1, <2>2
<1>5. ASSUME NEW x, x \in Past PROVE x \in Past'
  BY <1>3, <1>5, PastIds
<1>6. ASSUME NEW x \in S, x \in Ledger!Ids(Items) PROVE x \in Past'
  BY <1>3, <1>6, SeenIds, RowTypes, IdsAreDistinct
<1>7. Past' = Past \cup (S \cap Ledger!Ids(Items))
  BY <1>4, <1>5, <1>6
<1>8. Ledger!Detach(S)
  BY <1>2, <1>7 DEF Ledger!Detach
<1>. QED BY <1>1, <1>8 DEF MapsStep, MapsHold, Ledger!Step

\* DeleteSessionsByUserID and DeleteChirp are such methods.
LEMMA DeletesKeep ==
    ASSUME MapsHold, NEW t \in Thread, DeleteSessionsByUserID(t) \/ DeleteChirp(t)
    PROVE  MapsStep
<1>1. CASE DeleteSessionsByUserID(t)
  <2>. DEFINE S == {s.id : s \in {r \in userSessions : r.user = call[t].arg}}
  <2>1. /\ userSessions' = {s \in userSessions : s.user # call[t].arg} /\ chirps' = chirps
        /\ UNCHANGED <<users, userCredentials, spent>>
    BY <1>1 DEF DeleteSessionsByUserID
  <2>2. S \subseteq SessionID
    BY RowTypes
  <2>3. \A s \in userSessions : s.id \notin S <=> s.user # call[t].arg
    BY DEF MapsHold, RowsHold
  <2>. HIDE DEF S
  <2>4. userSessions' = {s \in userSessions : s.id \notin S}
    BY <2>1, <2>3
  <2>5. chirps' = {c \in chirps : c.id \notin S}
    BY <2>1, <2>2, RowTypes, IdsAreDistinct
  <2>. QED BY <2>1, <2>2, <2>4, <2>5, RemovalKeeps
<1>2. CASE DeleteChirp(t)
  <2>. DEFINE S == {call[t].arg} \cap ChirpID
  <2>1. /\ chirps' = {c \in chirps : c.id # call[t].arg} /\ userSessions' = userSessions
        /\ UNCHANGED <<users, userCredentials, spent>>
    BY <1>2 DEF DeleteChirp
  <2>2. userSessions' = {s \in userSessions : s.id \notin S}
    BY <2>1, RowTypes, IdsAreDistinct
  <2>3. chirps' = {c \in chirps : c.id \notin S}
    BY <2>1, RowTypes
  <2>4. S \in SUBSET (SessionID \cup ChirpID)
    OBVIOUS
  <2>. QED BY <2>1, <2>2, <2>3, <2>4, RemovalKeeps
<1>. QED BY <1>1, <1>2

\* Only the accounts, with their ids kept distinct.
OnlyUsers == /\ UNCHANGED <<userCredentials, userSessions, chirps, spent>>
             /\ users' \subseteq [id : UserID, email : Email, red : BOOLEAN]
             /\ \A u \in users' : u.id \in spent /\ u.id \in userCredentials
             /\ \A u, v \in users' : u.id = v.id => u = v

LEMMA OnlyUsersKeeps == ASSUME MapsHold, OnlyUsers
                        PROVE  MapsHold' /\ userCredentials \subseteq userCredentials'
BY DEF MapsHold, MapsTypeOK, RowsHold, OnlyUsers

\* A method that deletes accounts closes them, unless one of them owns something.
LEMMA DeletionKeeps ==
    ASSUME MapsHold, CallsFit, NEW t \in Thread, NEW op \in {"DeleteUser", "DeleteAllUsers"},
           Inside(t, op), Return(t), users' \subseteq users,
           UNCHANGED <<userCredentials, userSessions, chirps, spent>>
    PROVE  MapsStep \/ (MapsHold' /\ userCredentials' = userCredentials /\ LeavesOrphans)
<1>. DEFINE S == IdsOf(users) \ IdsOf(users')
<1>1. MapsHold'
  <2>1. OnlyUsers
    BY DEF OnlyUsers, MapsHold, MapsTypeOK, RowsHold
  <2>. QED BY <2>1, OnlyUsersKeeps
<1>2. Returns(t, op)
  BY DEF Returns, Return, Unlock, CallsFit
<1>3. Items' = Items
  BY DEF Items
<1>4. CASE \E i \in Items : i.user \in S
  BY <1>1, <1>2, <1>3, <1>4 DEF LeavesOrphans
<1>5. CASE \A i \in Items : i.user \notin S
  <2>1. \A u \in users : u.id \in S <=> u \notin users'
    BY DEF IdsOf, MapsHold, RowsHold
  <2>2. S \in SUBSET UserID
    BY DEF IdsOf, MapsHold, MapsTypeOK
  <2>3. \A x \in S : \E u \in users : u.id = x
    BY DEF IdsOf
  <2>. HIDE DEF S
  <2>4. Accounts' = {x \in Accounts : x.id \notin S}
    <3>1. users' = {u \in users : u.id \notin S}
      BY <2>1
    <3>. QED BY <3>1 DEF Accounts
  <2>5. Items' = {i \in Items : i.user \notin S}
    BY <1>3, <1>5
  <2>6. Ledger!Ids({i \in Items : i.user \in S}) = {}
    BY <1>5 DEF Ledger!Ids
  <2>7. S \cap Ledger!Ids(Accounts) = S
    BY <2>3, SeenIds
  <2>8. Past' = Past \cup S
    <3>1. ASSUME NEW x, x \in Past' PROVE x \in Past \cup S
      <4>1. /\ x \in spent /\ \A u \in users' : u.id # x
            /\ \A s \in userSessions : s.id # x /\ \A c \in chirps : c.id # x
        BY <3>1 DEF Past, IdsOf
      <4>2. CASE \E u \in users : u.id = x
        BY <2>1, <4>1, <4>2
      <4>3. CASE \A u \in users : u.id # x
        BY <3>1, <4>1, <4>3, PastIds DEF Past, IdsOf
      <4>. QED BY <4>2, <4>3
    <3>2. ASSUME NEW x, x \in Past PROVE x \in Past'
      BY <3>2 DEF Past, IdsOf
    <3>3. ASSUME NEW x \in S PROVE x \in Past'
      <4>1. PICK u \in users : u.id = x
        BY <2>3, <3>3
      <4>2. x \in UserID /\ x \in spent
        BY <4>1, RowTypes
      <4>3. \A v \in users' : v.id # x
        <5>1. SUFFICES ASSUME NEW v \in users', v.id = x PROVE FALSE
          OBVIOUS
        <5>. QED BY <2>1, <3>3, <5>1
      <4>4. (\A s \in userSessions : s.id # x) /\ (\A c \in chirps : c.id # x)
        BY <4>2, RowTypes, IdsAreDistinct
      <4>. QED BY <4>2, <4>3, <4>4 DEF Past, IdsOf
    <3>. QED BY <3>1, <3>2, <3>3
  <2>9. Ledger!Close(S)
    BY <2>4, <2>5, <2>6, <2>7, <2>8 DEF Ledger!Close
  <2>. QED BY <1>1, <2>2, <2>9 DEF MapsStep, Ledger!Step
<1>. QED BY <1>4, <1>5

\* UpdateUserEmail moves an account to an address that nobody has, or shares one.
LEMMA MoveKeeps ==
    ASSUME MapsHold, CallsFit, NEW t \in Thread, UpdateUserEmail(t)
    PROVE  MapsStep \/ (MapsHold' /\ userCredentials' = userCredentials /\ SharesAddress)
<1>. DEFINE e == call[t].arg[2]
<1>1. /\ UNCHANGED <<userCredentials, userSessions, chirps, spent>>
      /\ Inside(t, "UpdateUserEmail") /\ Return(t)
  BY DEF UpdateUserEmail
<1>2. e \in Email
  BY <1>1 DEF Inside, At, CallsFit, Fits, Steps
<1>3. CASE users' = users
  BY <1>1, <1>3, LooksKeeps DEF maps
<1>4. CASE users' # users
  <2>1. PICK u \in users : users' = (users \ {u}) \cup {[u EXCEPT !.email = e]}
    BY <1>4 DEF UpdateUserEmail
  <2>. DEFINE n == [id |-> u.id, email |-> e, red |-> u.red]
  <2>2. /\ u.id \in UserID /\ u.email \in Email /\ u.red \in BOOLEAN
        /\ u = [id |-> u.id, email |-> u.email, red |-> u.red]
        /\ u.id \in spent /\ u.id \in userCredentials
    BY DEF MapsHold, MapsTypeOK, RowsHold
  <2>3. users' = (users \ {u}) \cup {n}
    BY <2>1, <2>2
  <2>4. /\ n \in [id : UserID, email : Email, red : BOOLEAN]
        /\ n.id = u.id /\ n.email = e
    BY <1>2, <2>2
  <2>. HIDE DEF n, e
  <2>5. MapsHold' /\ userCredentials' = userCredentials
    <3>1. OnlyUsers
      BY <1>1, <2>2, <2>3, <2>4 DEF OnlyUsers, MapsHold, MapsTypeOK, RowsHold
    <3>. QED BY <1>1, <3>1, OnlyUsersKeeps
  <2>6. CASE \E w \in users : w # u /\ w.email = e
    <3>1. Returns(t, "UpdateUserEmail")
      BY <1>1 DEF Returns, Return, Unlock, CallsFit
    <3>2. Items' = Items /\ spent' = spent
      BY <1>1 DEF Items
    <3>. QED BY <2>1, <2>5, <2>6, <3>1, <3>2 DEF SharesAddress
  <2>7. CASE \A w \in users : w # u => w.email # e
    <3>1. u.email # e
      <4>1. SUFFICES ASSUME u.email = e PROVE FALSE
        OBVIOUS
      <4>2. n = u
        BY <2>2, <4>1 DEF n
      <4>. QED BY <1>4, <2>3, <4>2
    <3>2. \A x \in Accounts : x.email # e
      BY <2>7, <3>1 DEF Accounts
    <3>3. u.id \in Ledger!Ids(Accounts)
      BY SeenIds
    <3>4. Accounts' = {IF x.id = u.id THEN [id |-> u.id, email |-> e] ELSE x : x \in Accounts}
      <4>. DEFINE R == {IF x.id = u.id THEN [id |-> u.id, email |-> e] ELSE x : x \in Accounts}
      <4>1. \A w \in users : w.id = u.id => w = u
        BY DEF MapsHold, RowsHold
      <4>2. ASSUME NEW w \in users'
            PROVE  [id |-> w.id, email |-> w.email] \in R
        <5>1. CASE w = n
          <6>1. [id |-> u.id, email |-> u.email] \in Accounts
            BY DEF Accounts
          <6>. QED BY <2>4, <5>1, <6>1
        <5>2. CASE w \in users /\ w # u
          <6>1. [id |-> w.id, email |-> w.email] \in Accounts /\ w.id # u.id
            BY <4>1, <5>2 DEF Accounts
          <6>. QED BY <6>1
        <5>. QED BY <2>3, <5>1, <5>2
      <4>3. ASSUME NEW w \in users
            PROVE  (IF w.id = u.id THEN [id |-> u.id, email |-> e]
                                   ELSE [id |-> w.id, email |-> w.email]) \in Accounts'
        <5>1. CASE w.id = u.id
          <6>1. n \in users'
            BY <2>3
          <6>. QED BY <2>4, <5>1, <6>1 DEF Accounts
        <5>2. CASE w.id # u.id
          <6>1. w \in users'
            BY <2>3, <5>2
          <6>. QED BY <5>2, <6>1 DEF Accounts
        <5>. QED BY <5>1, <5>2
      <4>4. Accounts' \subseteq R
        <5>1. SUFFICES ASSUME NEW x \in Accounts' PROVE x \in R
          OBVIOUS
        <5>2. PICK w \in users' : x = [id |-> w.id, email |-> w.email]
          BY <5>1 DEF Accounts
        <5>. QED BY <4>2, <5>2
      <4>5. R \subseteq Accounts'
        <5>1. SUFFICES ASSUME NEW x \in Accounts
                       PROVE (IF x.id = u.id THEN [id |-> u.id, email |-> e] ELSE x) \in Accounts'
          OBVIOUS
        <5>2. PICK w \in users : x = [id |-> w.id, email |-> w.email]
          BY <5>1 DEF Accounts
        <5>3. x.id = w.id
          BY <5>2
        <5>. QED BY <4>3, <5>2, <5>3
      <4>. QED BY <4>4, <4>5
    <3>5. Items' = Items
      BY <1>1 DEF Items
    <3>6. Past' = Past
      <4>1. IdsOf(users') = IdsOf(users)
        BY <2>3, <2>4 DEF IdsOf
      <4>. QED BY <1>1, <4>1 DEF Past, IdsOf
    <3>7. Ledger!Move(u.id, e)
      BY <3>2, <3>3, <3>4, <3>5, <3>6 DEF Ledger!Move
    <3>. QED BY <1>1, <1>2, <2>2, <2>5, <3>7 DEF MapsStep, Ledger!Step, e
  <2>. QED BY <2>6, <2>7
<1>. QED BY <1>3, <1>4

\* What no step of the ledger is.
LeavesLedger == LeavesOrphans \/ SharesAddress

LEMMA LeaversKeep ==
    ASSUME MapsHold, CallsFit, NEW t \in Thread,
           DeleteUser(t) \/ UpdateUserEmail(t) \/ DeleteAllUsers(t)
    PROVE  MapsStep \/ (MapsHold' /\ userCredentials' = userCredentials /\ LeavesLedger)
<1>1. CASE DeleteUser(t)
  <2>1. users' \subseteq users /\ Inside(t, "DeleteUser") /\ Return(t)
        /\ UNCHANGED <<userCredentials, userSessions, chirps, spent>>
    BY <1>1 DEF DeleteUser
  <2>. QED BY <2>1, DeletionKeeps DEF LeavesLedger
<1>2. CASE DeleteAllUsers(t)
  <2>1. users' \subseteq users /\ Inside(t, "DeleteAllUsers") /\ Return(t)
        /\ UNCHANGED <<userCredentials, userSessions, chirps, spent>>
    BY <1>2 DEF DeleteAllUsers
  <2>. QED BY <2>1, DeletionKeeps DEF LeavesLedger
<1>3. CASE UpdateUserEmail(t)
  BY <1>3, MoveKeeps DEF LeavesLedger
<1>. QED BY <1>1, <1>2, <1>3

\* What any step does to the maps.
LEMMA MapsKept ==
    ASSUME IInv, Next
    PROVE  /\ MapsHold' /\ userCredentials \subseteq userCredentials'
           /\ LeavesLedger \/ Ledger!Step
<1>. USE DEF IInv
<1>1. PICK t \in Thread :
         Call(t) \/ RLock(t) \/ Announce(t) \/ Lock(t) \/ Body(t) \/ ReadCredentials(t)
  BY DEF Next
<1>2. ASSUME UNCHANGED maps PROVE MapsStep
  BY <1>2, LooksKeeps
<1>3. CASE Call(t) \/ RLock(t) \/ Announce(t) \/ Lock(t) \/ ReadCredentials(t)
  BY <1>2, <1>3 DEF MapsStep, Call, RLock, Announce, Lock, ReadCredentials
<1>4. CASE \/ GetUserByEmail(t) \/ GetUserByID(t) \/ AuthenticateUser(t) \/ GetSession(t)
           \/ RevokeSession(t) \/ GetUserChirps(t) \/ GetChirpByID(t)
  BY <1>2, <1>4 DEF MapsStep, GetUserByEmail, GetUserByID, AuthenticateUser, GetSession,
     RevokeSession, GetUserChirps, GetChirpByID, Looks
<1>5. CASE \/ CreateUser(t) \/ UpgradeUser(t) \/ CreateSession(t) \/ CreateChirp(t)
           \/ DeleteSessionsByUserID(t) \/ DeleteChirp(t)
  BY <1>5, CreateUserKeeps, UpgradeUserKeeps, CreateSessionKeeps, CreateChirpKeeps, DeletesKeep
     DEF MapsStep
<1>6. CASE DeleteUser(t) \/ UpdateUserEmail(t) \/ DeleteAllUsers(t)
  BY <1>6, LeaversKeep DEF MapsStep
<1>. QED BY <1>1, <1>3, <1>4, <1>5, <1>6 DEF Body

\* Credentials that wait to be read are in the map.
LEMMA CredentialsKept ==
    ASSUME IInv, Next, userCredentials \subseteq userCredentials'
    PROVE  CredentialsWait'
<1>. USE DEF IInv, CredentialsWait, At
<1>1. PICK t \in Thread :
         Call(t) \/ RLock(t) \/ Announce(t) \/ Lock(t) \/ Body(t) \/ ReadCredentials(t)
  BY DEF Next
<1>2. CASE Call(t)
  BY <1>2, CallMoves DEF MapsHold
<1>3. CASE RLock(t) \/ Announce(t) \/ Lock(t)
  <2>1. call[t].at \in Steps /\ \E step \in Steps : step # "credentials" /\ Goto(t, step)
    BY <1>3 DEF RLock, Announce, Lock, Steps
  <2>. QED BY <2>1, GotoMoves
<1>4. CASE RevokeSession(t)
  BY <1>4, RevokeMoves
<1>5. CASE Leaves(t)
  <2>1. \A u \in users : u.id \in userCredentials
    BY DEF MapsHold, RowsHold
  <2>2. \A u \in Thread \ {t} : call'[u].at = "credentials" => call[u].at = "credentials"
    BY <1>5, LeaveMoves DEF MapsHold
  <2>. QED BY <1>5, <2>1, <2>2, LeaveMoves DEF MapsHold
<1>6. CASE ReadCredentials(t)
  <2>1. call' = [call EXCEPT ![t] = Idle] /\ Idle.at = "idle"
    BY <1>6 DEF ReadCredentials, Idle
  <2>. QED BY <2>1 DEF CallsFit
<1>. QED BY <1>1, <1>2, <1>3, <1>4, <1>5, <1>6, BodyLeaves

-----------------------------------------------------------------------------
(* The theorems.                                                           *)

\* Calls, mutex, maps and credentials stay in order.
LEMMA Inductive == Spec => []IInv
<1>1. Init => IInv
  <2>. SUFFICES ASSUME Init PROVE IInv
    OBVIOUS
  <2>1. \A t \in Thread : call[t] = Idle /\ call[t].at = "idle" /\ writer # t
    BY NobodyHoldsNothing DEF Init, Idle
  <2>2. CallsFit
    BY <2>1 DEF Init, CallsFit, CallType, Steps
  <2>3. MutexHolds
    BY <2>1 DEF Init, MutexHolds, OwnersAreThreads, ReadersAreInside, WriterWaitsOrHolds,
       WriterIsAlone, InsideIsOwned, DrainIsOwned, ShutOutByWriter, HoldsAlone, At
  <2>4. MapsHold
    BY DEF Init, MapsHold, MapsTypeOK, RowsHold
  <2>5. CredentialsWait
    BY <2>1 DEF CredentialsWait, At
  <2>. QED BY <2>2, <2>3, <2>4, <2>5 DEF IInv
<1>2. ASSUME IInv, Next PROVE IInv'
  <2>1. CallsFit' /\ MutexHolds'
    BY <1>2, MutexKept DEF IInv, MapsHold
  <2>2. MapsHold' /\ CredentialsWait'
    BY <1>2, MapsKept, CredentialsKept
  <2>. QED BY <2>1, <2>2 DEF IInv
<1>3. ASSUME IInv, UNCHANGED vars PROVE IInv'
  BY <1>3 DEF IInv, CallsFit, Fits, MutexHolds, OwnersAreThreads, ReadersAreInside,
     WriterWaitsOrHolds, WriterIsAlone, InsideIsOwned, DrainIsOwned, ShutOutByWriter, HoldsAlone,
     At, MapsHold, MapsTypeOK, RowsHold, CredentialsWait, vars, maps
<1>. QED BY <1>1, <1>2, <1>3, PTL DEF Spec

\* Maps, mutex and calls keep their types.
THEOREM TypeCorrect == Spec => []TypeOK
<1>1. IInv => TypeOK
  BY DEF IInv, MapsHold, MapsTypeOK, MutexHolds, OwnersAreThreads, CallsFit, CallType, Steps,
     AnyArg, TypeOK
<1>. QED BY <1>1, Inductive, PTL

(***************************************************************************)
(* AuthenticateUser always finds the credentials it looks up after it has  *)
(* released the lock.                                                      *)
(***************************************************************************)
THEOREM CredentialsCorrect == Spec => []CredentialsFound
<1>1. IInv => CredentialsFound
  BY DEF IInv, MapsHold, RowsHold, CredentialsWait, CredentialsFound
<1>. QED BY <1>1, Inductive, PTL

(***************************************************************************)
(* Only UpgradeUser and AuthenticateUser are exposed to a data race: what  *)
(* any other method writes, nobody else reads or writes meanwhile.         *)
(***************************************************************************)
THEOREM RacesCorrect == Spec => []OnlyTwoMethodsRace
<1>1. ASSUME IInv PROVE OnlyTwoMethodsRace
  <2>. SUFFICES ASSUME NEW t \in Thread, NEW u \in Thread, t # u
                PROVE  /\ "users" \in Overlap(t, u) => "UpgradeUser" \in {call[t].op, call[u].op}
                       /\ "userCredentials" \in Overlap(t, u) => At(u, "credentials")
                       /\ Overlap(t, u) \subseteq {"users", "userCredentials"}
    BY DEF OnlyTwoMethodsRace
  <2>1. CASE ~At(t, "inside")
    BY <2>1 DEF Overlap, WrittenNow
  <2>2. CASE At(t, "inside") /\ writer = t
    <3>1. readers = {}
      BY <1>1, <2>2 DEF IInv, MutexHolds, WriterIsAlone, HoldsAlone
    <3>2. ~At(u, "inside")
      BY <1>1, <2>2, <3>1 DEF IInv, MutexHolds, InsideIsOwned
    <3>3. WrittenNow(u) = {} /\ ReadNow(u) \subseteq {"userCredentials"}
      BY <3>2 DEF WrittenNow, ReadNow
    <3>4. ReadNow(u) # {} => At(u, "credentials")
      BY <3>2 DEF ReadNow
    <3>. QED BY <3>3, <3>4 DEF Overlap
  <2>3. CASE At(t, "inside") /\ t \in readers
    <3>1. call[t].op \in TakesRLock
      BY <1>1, <2>3 DEF IInv, MutexHolds, ReadersAreInside
    <3>2. WrittenNow(t) \subseteq {"users"} /\ (WrittenNow(t) # {} => call[t].op = "UpgradeUser")
      BY <3>1 DEF WrittenNow, Writes, TakesRLock
    <3>. QED BY <3>2 DEF Overlap
  <2>. QED BY <1>1, <2>1, <2>2, <2>3 DEF IInv, MutexHolds, InsideIsOwned
<1>. QED BY <1>1, Inductive, PTL

(***************************************************************************)
(* Whatever the goroutines do, every step is one of the ledger's, but for  *)
(* two: accounts are deleted without what they own, and an account takes   *)
(* an address that another has. A DeleteUser or DeleteAllUsers of accounts *)
(* that own nothing closes them, an UpdateUserEmail to an address nobody   *)
(* has moves the account, and on what the two steps have left behind all   *)
(* other methods still keep the ledger.                                    *)
(***************************************************************************)
THEOREM LedgerKept == Spec => KeepsLedger
<1>1. ASSUME IInv, Next PROVE LeavesOrphans \/ SharesAddress \/ Ledger!Next
  BY <1>1, MapsKept DEF LeavesLedger, Ledger!Next, Ledger!Confirm
<1>2. IInv /\ [Next]_vars =>
          [LeavesOrphans \/ SharesAddress \/ Ledger!Next \/ UNCHANGED Ledger!vars]_vars
  BY <1>1
<1>. QED BY <1>2, Inductive, PTL DEF Spec, KeepsLedger

(***************************************************************************)
(* No circle of calls: whoever owns the mutex is inside, waits for readers *)
(* that are inside, or waits for itself, and where nobody owns it nobody   *)
(* is kept out.                                                            *)
(***************************************************************************)
THEOREM NoCircleCorrect == Spec => []NoCircle
<1>1. ASSUME IInv PROVE NoCircle
  <2>. SUFFICES ASSUME ~WaitsForItself, NEW t \in Thread, ~At(t, "idle"),
                       \A u \in Thread : ~GoesOn(u)
                PROVE  FALSE
    BY DEF NoCircle, Threads
  <2>1. readers = {}
    BY <1>1 DEF IInv, MutexHolds, OwnersAreThreads, ReadersAreInside, GoesOn
  <2>2. CASE writer = NoThread
    <3>1. ~At(t, "shut out") /\ ~At(t, "drain")
      BY <1>1, <2>2, NobodyHoldsNothing DEF IInv, MutexHolds, ShutOutByWriter, DrainIsOwned
    <3>2. ~At(t, "inside") /\ ~At(t, "credentials") /\ ~At(t, "lock")
      BY <2>2 DEF GoesOn
    <3>. QED BY <1>1, <3>1, <3>2, CallForms DEF IInv, CallsFit, Steps, At
  <2>3. CASE writer \in Thread
    <3>1. At(writer, "drain") \/ HoldsAlone(writer)
      BY <1>1, <2>3 DEF IInv, MutexHolds, WriterWaitsOrHolds
    <3>. QED BY <2>1, <2>3, <3>1 DEF HoldsAlone, GoesOn, WaitsForItself
  <2>. QED BY <1>1, <2>2, <2>3 DEF IInv, MutexHolds, OwnersAreThreads
<1>. QED BY <1>1, Inductive, PTL
=============================================================================
