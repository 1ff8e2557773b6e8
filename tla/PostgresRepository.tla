------------------------- MODULE PostgresRepository -------------------------
(***************************************************************************)
(* internal/postgres: the repository methods as callers of the interface   *)
(* in internal/application see them, those that no route uses included.    *)
(* The methods of more than one statement, UpdateUserEmail and DeleteUser, *)
(* are taken statement by statement; the others are one statement each.    *)
(***************************************************************************)
EXTENDS TableLedger

CONSTANTS Caller,      \* goroutines that call the repository
          MaxFaults    \* bound of the model: statements that fail

ASSUME FaultsAreBounded == MaxFaults \in Nat

VARIABLES call,     \* caller -> the call it makes, or made last, and its result
          faults,   \* statements failed so far
          sight     \* history: was the old address free, and the new one taken,
                    \* at some moment of that call?

repoVars == <<tables, call, faults, sight>>

\* A call has an old and a new address; DeleteUser has no new one.
Results == {"none", "nil", "conflict", "not found", "error"}
NeverCalled == [at |-> "done", result |-> "none"]
CallFrame ==
    {NeverCalled}
    \cup [at : {"look up new", "look up old", "update"}, old : Email, new : Email, result : {"none"}]
    \cup [at : {"find"}, old : Email, new : {Nil}, result : {"none"}]
    \cup [at : {"delete"}, old : Email, new : {Nil}, result : {"none"}, id : UserID]
    \cup [at : {"done"}, old : Email, new : Email \cup {Nil}, result : Results]

At(t, step) == call[t].at = step

Init ==
    /\ DBInit /\ faults = 0
    /\ call = [t \in Caller |-> NeverCalled]
    /\ sight = [t \in Caller |-> [free |-> FALSE, taken |-> FALSE]]

Meter(o) == \/ o = "ok" /\ UNCHANGED faults
            \/ o # "ok" /\ faults < MaxFaults /\ faults' = faults + 1

Goto(t, step) == call' = [call EXCEPT ![t].at = step]
Return(t, result) ==
    call' = [call EXCEPT ![t] = [at |-> "done", old |-> @.old, new |-> @.new, result |-> result]]

-----------------------------------------------------------------------------
Begin(t) ==
    /\ At(t, "done")
    /\ \/ \E old, new \in Email :
             call' = [call EXCEPT ![t] = [at |-> "look up new", old |-> old, new |-> new, result |-> "none"]]
       \/ \E e \in Email :
             call' = [call EXCEPT ![t] = [at |-> "find", old |-> e, new |-> Nil, result |-> "none"]]
    /\ UNCHANGED <<tables, faults>>

\* UpdateUserEmail. Any error of the first look-up counts as "not in use".
LookUpNew(t) ==
    \E o \in Outcome :
        /\ At(t, "look up new") /\ Meter(o)
        /\ \/ o = "ok" /\ EmailTaken(call[t].new) /\ Return(t, "conflict")
           \/ (o # "ok" \/ ~EmailTaken(call[t].new)) /\ Goto(t, "look up old")
        /\ UNCHANGED tables

LookUpOld(t) ==
    \E o \in Outcome :
        /\ At(t, "look up old") /\ Meter(o)
        /\ \/ o = "ok" /\ EmailTaken(call[t].old) /\ Goto(t, "update")
           \/ o = "ok" /\ ~EmailTaken(call[t].old) /\ Return(t, "not found")
           \/ o # "ok" /\ Return(t, "error")
        /\ UNCHANGED tables

\* Mutant: Email and Email_2 of UpdateUserParams mixed up.
UpdateSwapped(t) ==
    \E o \in Outcome :
        LET old == call[t].new  new == call[t].old IN
        /\ At(t, "update") /\ Meter(o)
        /\ UpdateUser(o, old, new)
        /\ \/ o = "ok" /\ Movable(old, new) /\ Return(t, "nil")
           \/ o = "ok" /\ ~EmailTaken(old) /\ Return(t, "not found")
           \/ o = "ok" /\ EmailTaken(old) /\ ~Movable(old, new) /\ Return(t, "conflict")
           \/ o # "ok" /\ Return(t, "error")

\* mapError: sql.ErrNoRows is "not found", 23505 is a conflict.
Update(t) ==
    \E o \in Outcome :
        LET old == call[t].old  new == call[t].new IN
        /\ At(t, "update") /\ Meter(o)
        /\ UpdateUser(o, old, new)
        /\ \/ o = "ok" /\ Movable(old, new) /\ Return(t, "nil")
           \/ o = "ok" /\ ~EmailTaken(old) /\ Return(t, "not found")
           \/ o = "ok" /\ EmailTaken(old) /\ ~Movable(old, new) /\ Return(t, "conflict")
           \/ o # "ok" /\ Return(t, "error")

\* DeleteUser: find the id, delete by id; no row is no error then.
Find(t) ==
    \E o \in Outcome :
        /\ At(t, "find") /\ Meter(o)
        /\ \/ /\ o = "ok"
              /\ \E u \in users :
                    /\ u.email = call[t].old
                    /\ call' = [call EXCEPT ![t] = [at |-> "delete", old |-> @.old, new |-> @.new,
                                                    result |-> "none", id |-> u.id]]
           \/ o = "ok" /\ ~EmailTaken(call[t].old) /\ Return(t, "not found")
           \/ o # "ok" /\ Return(t, "error")
        /\ UNCHANGED tables

Delete(t) ==
    \E o \in Outcome :
        /\ At(t, "delete") /\ Meter(o)
        /\ DeleteUsers(o, {call[t].id})
        /\ Return(t, IF o = "ok" THEN "nil" ELSE "error")

\* The methods of one statement; nobody's result is looked at.
SignUp(o)    == Fresh(UserID) # {} /\ \E e \in Email, p \in Password : CreateUser(o, e, p)
Upgrade(o)   == \E id \in Known(UserID) : UpgradeUser(o, id)
DeleteAll(o) == DeleteUsers(o, UserID)

OpenSession(o)   == Fresh(SessionID) # {} /\ \E u \in Known(UserID) : CreateSession(o, u, 0)
Revoke(o)        == \E s \in Known(SessionID) : RevokeSession(o, s)
DropSessions(o)  == \E u \in Known(UserID) : DeleteSessionsByUserID(o, u)

\* CreateChirp looks the author up first, and so refuses early what the foreign
\* key would: an account that went away in between is refused all the same.
StoreChirp(o)  == Fresh(ChirpID) # {} /\ \E u \in Known(UserID) : CreateChirp(o, u)
RemoveChirp(o) == \E c \in Known(ChirpID) : DeleteChirp(o, c)

OneStatement ==
    /\ \E o \in Outcome :
          /\ Meter(o)
          /\ \/ SignUp(o) \/ Upgrade(o) \/ DeleteAll(o)
             \/ OpenSession(o) \/ Revoke(o) \/ DropSessions(o)
             \/ StoreChirp(o) \/ RemoveChirp(o)
    /\ UNCHANGED call

\* What each call under way gets to see of its two addresses.
Witness ==
    sight' = [t \in Caller |->
        IF At(t, "done") /\ call'[t] = call[t] THEN sight[t]
        ELSE [free  |-> \/ ~At(t, "done") /\ sight[t].free
                        \/ \A u \in users' : u.email # call'[t].old,
              taken |-> \/ ~At(t, "done") /\ sight[t].taken
                        \/ \E u \in users' : u.email = call'[t].new]]

Step(t) == Begin(t) \/ LookUpNew(t) \/ LookUpOld(t) \/ Update(t) \/ Find(t) \/ Delete(t)

Next == (OneStatement \/ \E t \in Caller : Step(t)) /\ Witness

Spec == Init /\ [][Next]_repoVars

-----------------------------------------------------------------------------
TypeOK ==
    /\ DBTypeOK /\ faults \in 0..MaxFaults
    /\ call \in [Caller -> CallFrame]
    /\ sight \in [Caller -> [free : BOOLEAN, taken : BOOLEAN]]

(***************************************************************************)
(* What UpdateUserEmail and DeleteUser answer was true at some moment of   *)
(* the call, although they look before they write: a conflict only if the  *)
(* new address was in use, "not found" only if nobody had the old one,     *)
(* success only if the old address was free and, for UpdateUserEmail, the  *)
(* new one taken.                                                          *)
(***************************************************************************)
AnswersAreHonest ==
    \A t \in Caller : At(t, "done") =>
        /\ call[t].result = "conflict"  => sight[t].taken
        /\ call[t].result = "not found" => sight[t].free
        /\ call[t].result = "nil" /\ call[t].old # call[t].new =>
              sight[t].free /\ (sight[t].taken \/ call[t].new = Nil)

(***************************************************************************)
(* Called in any order and interleaved statement by statement, the methods *)
(* keep the ledger of accounts; UpdateUserEmail in particular moves one    *)
(* account to an address nobody has, or moves none.                        *)
(***************************************************************************)
KeepsLedger == Tables!Spec
=============================================================================
