---------------------- MODULE PostgresRepositoryProofs ----------------------
(***************************************************************************)
(* Theorems about the methods of internal/postgres, for any number of      *)
(* callers, rows, addresses and failures. UpdateUserEmail and DeleteUser   *)
(* take several statements, and others come between them:                  *)
(*   1. any statement keeps the tables sound, is a step of the ledger, and *)
(*      takes an address from an account only by leaving it to nobody      *)
(*      (AddressesLinger);                                                 *)
(*   2. so the account DeleteUser found either still has the address it    *)
(*      was found by, or that address has been free since (FoundIsSound);  *)
(*   3. so what the methods answer was true during the call.               *)
(***************************************************************************)
EXTENDS PostgresRepository, ChirpyDBProofs

\* A statement takes an address from an account only by leaving it to nobody.
AddressesLinger ==
    \A u \in users : \/ \E v \in users' : v.id = u.id /\ v.email = u.email
                     \/ \A v \in users' : v.email # u.email

\* What DeleteUser knows between its two statements.
FoundIsSound ==
    \A t \in Caller : At(t, "delete") =>
        \/ sight[t].free
        \/ \E u \in users : u.id = call[t].id /\ u.email = call[t].old

\* The inductive invariant.
IInv == TypeOK /\ TablesOK /\ FoundIsSound /\ AnswersAreHonest

-----------------------------------------------------------------------------
(* 1. Statements.                                                          *)

\* A statement that writes nothing takes no address.
LEMMA UnchangedLinger == ASSUME users' = users PROVE AddressesLinger
BY DEF AddressesLinger

\* An INSERT takes no address either.
LEMMA CreateUserLingers ==
    ASSUME NEW o, NEW e, NEW p, CreateUser(o, e, p)
    PROVE  AddressesLinger
<1>1. users \subseteq users'
  BY DEF CreateUser, NoWrite, tables
<1>. QED BY <1>1 DEF AddressesLinger

\* Nor does an UPDATE of the membership.
LEMMA UpgradeUserLingers ==
    ASSUME DBTypeOK, NEW o, NEW id, UpgradeUser(o, id)
    PROVE  AddressesLinger
<1>1. CASE users' = users
  BY <1>1, UnchangedLinger
<1>2. CASE users' # users
  <2>. DEFINE up(u) == IF u.id = id THEN [u EXCEPT !.red = TRUE] ELSE u
  <2>1. users' = {up(u) : u \in users}
    BY <1>2 DEF UpgradeUser, NoWrite, tables
  <2>2. \A u \in users : up(u).id = u.id /\ up(u).email = u.email
    BY DEF DBTypeOK, UserRow
  <2>. HIDE DEF up
  <2>. QED BY <2>1, <2>2 DEF AddressesLinger
<1>. QED BY <1>1, <1>2

\* An UPDATE of the address takes it from everybody who has it.
LEMMA UpdateUserLingers ==
    ASSUME DBTypeOK, NEW o, NEW old, NEW new, UpdateUser(o, old, new)
    PROVE  AddressesLinger
<1>1. CASE users' = users
  BY <1>1, UnchangedLinger
<1>2. CASE users' # users
  <2>. DEFINE up(u) == IF u.email = old THEN [u EXCEPT !.email = new] ELSE u
  <2>1. users' = {up(u) : u \in users}
    BY <1>2 DEF UpdateUser, NoWrite, tables
  <2>2. \A u \in users : /\ up(u).id = u.id
                         /\ up(u).email = IF u.email = old THEN new ELSE u.email
    BY DEF DBTypeOK, UserRow
  <2>. HIDE DEF up
  <2>. QED BY <2>1, <2>2 DEF AddressesLinger
<1>. QED BY <1>1, <1>2

\* A DELETE removes the only account that has the address.
LEMMA DeleteUsersLingers ==
    ASSUME TablesOK, NEW o, NEW ids, DeleteUsers(o, ids)
    PROVE  AddressesLinger
BY DEF DeleteUsers, NoWrite, tables, AddressesLinger, TablesOK, SchemaHolds, OneAccountPerEmail

\* What any step does to the tables.
TablesStep == Sound' /\ AddressesLinger /\ Tables!Step

\* A step that only looks does nothing to them.
LEMMA LooksAreSteps == ASSUME Sound, UNCHANGED tables PROVE TablesStep
<1>1. NoWrite /\ users' = users
  BY DEF NoWrite, tables
<1>2. DBTypeOK'
  BY DEF Sound, DBTypeOK, tables
<1>. QED BY <1>1, <1>2, NoWriteKeeps, UnchangedLinger, NoWriteMaps DEF Sound, TablesStep

\* The two statements of the methods that take several.
LEMMA UpdateIsStep ==
    ASSUME Sound, NEW o, NEW old \in Email, NEW new \in Email, UpdateUser(o, old, new)
    PROVE  TablesStep
BY UpdateUserType, UpdateUserKeeps, UpdateUserLingers, UpdateUserMaps DEF Sound, TablesStep

LEMMA DeleteIsStep ==
    ASSUME Sound, NEW o, NEW ids \in SUBSET UserID, DeleteUsers(o, ids)
    PROVE  TablesStep
BY DeleteUsersType, DeleteUsersKeeps, DeleteUsersLingers, DeleteUsersMaps DEF Sound, TablesStep

\* The methods of one statement, on users, ...
LEMMA OnUsersIsStep ==
    ASSUME Sound, NEW o, SignUp(o) \/ Upgrade(o) \/ DeleteAll(o)
    PROVE  TablesStep
<1>1. ASSUME NEW e \in Email, NEW p \in Password, CreateUser(o, e, p) PROVE TablesStep
  BY <1>1, CreateUserType, CreateUserKeeps, CreateUserLingers, CreateUserMaps DEF Sound, TablesStep
<1>2. ASSUME NEW id, UpgradeUser(o, id) PROVE TablesStep
  BY <1>2, UpgradeUserType, UpgradeUserKeeps, UpgradeUserLingers, UpgradeUserMaps DEF Sound, TablesStep
<1>3. ASSUME DeleteUsers(o, UserID) PROVE TablesStep
  <2>1. UserID \in SUBSET UserID
    OBVIOUS
  <2>. QED BY <1>3, <2>1, DeleteIsStep
<1>. QED BY <1>1, <1>2, <1>3 DEF SignUp, Upgrade, DeleteAll

\* ... on sessions, where an owner that is uuid.Nil has no row, ...
LEMMA OnSessionsIsStep ==
    ASSUME Sound, NEW o, OpenSession(o) \/ Revoke(o) \/ DropSessions(o)
    PROVE  TablesStep
<1>1. ASSUME NEW u, CreateSession(o, u, 0) PROVE TablesStep
  <2>1. CASE NoWrite
    BY <2>1, LooksAreSteps DEF NoWrite
  <2>2. CASE ~NoWrite
    <3>1. u \in UserID /\ 0 \in Nat
      BY <1>1, <2>2 DEF CreateSession, UserExists, Sound, DBTypeOK, UserRow
    <3>2. DBTypeOK'
      BY <1>1, <3>1, CreateSessionType DEF Sound
    <3>3. users' = users
      BY <1>1, <2>2 DEF CreateSession
    <3>. QED BY <1>1, <3>2, <3>3, CreateSessionKeeps, UnchangedLinger, CreateSessionMaps
             DEF Sound, TablesStep
  <2>. QED BY <2>1, <2>2
<1>2. ASSUME NEW s, RevokeSession(o, s) PROVE TablesStep
  <2>1. users' = users
    BY <1>2 DEF RevokeSession, NoWrite, tables
  <2>. QED BY <1>2, <2>1, RevokeSessionType, RevokeSessionKeeps, UnchangedLinger, RevokeSessionMaps
           DEF Sound, TablesStep
<1>3. ASSUME NEW u, DeleteSessionsByUserID(o, u) PROVE TablesStep
  <2>1. users' = users
    BY <1>3 DEF DeleteSessionsByUserID, NoWrite, tables
  <2>. QED BY <1>3, <2>1, DeleteSessionsByUserIDType, DeleteSessionsByUserIDKeeps, UnchangedLinger,
              DeleteSessionsByUserIDMaps DEF Sound, TablesStep
<1>. QED BY <1>1, <1>2, <1>3 DEF OpenSession, Revoke, DropSessions

\* ... and on chirps, where uuid.Nil names none.
LEMMA OnChirpsIsStep ==
    ASSUME Sound, NEW o, StoreChirp(o) \/ RemoveChirp(o)
    PROVE  TablesStep
<1>1. ASSUME NEW u, CreateChirp(o, u) PROVE TablesStep
  <2>1. CASE NoWrite
    BY <2>1, LooksAreSteps DEF NoWrite
  <2>2. CASE ~NoWrite
    <3>1. u \in UserID
      BY <1>1, <2>2 DEF CreateChirp, UserExists, Sound, DBTypeOK, UserRow
    <3>2. users' = users
      BY <1>1, <2>2 DEF CreateChirp
    <3>. QED BY <1>1, <3>1, <3>2, CreateChirpType, CreateChirpKeeps, UnchangedLinger, CreateChirpMaps
             DEF Sound, TablesStep
  <2>. QED BY <2>1, <2>2
<1>2. ASSUME NEW c \in Known(ChirpID), DeleteChirp(o, c) PROVE TablesStep
  <2>1. CASE c \in ChirpID
    <3>1. users' = users
      BY <1>2 DEF DeleteChirp, NoWrite, tables
    <3>. QED BY <1>2, <2>1, <3>1, DeleteChirpType, DeleteChirpKeeps, UnchangedLinger, DeleteChirpMaps
             DEF Sound, TablesStep
  <2>2. CASE c = Nil
    <3>1. \A d \in chirps : d.id # c
      BY <2>2, IdsAreDistinct DEF Sound, DBTypeOK, ChirpRow
    <3>2. UNCHANGED tables
      BY <1>2, <3>1 DEF DeleteChirp, NoWrite, tables
    <3>. QED BY <3>2, LooksAreSteps
  <2>. QED BY <2>1, <2>2 DEF Known
<1>. QED BY <1>1, <1>2 DEF StoreChirp, RemoveChirp

-----------------------------------------------------------------------------
(* 2. Calls.                                                               *)

\* A call under way is that of one of the two methods, at one of its steps,
LEMMA CallKinds ==
    ASSUME NEW c \in CallFrame, c.at # "done"
    PROVE  \/ c \in [at : {"look up new", "look up old", "update"}, old : Email, new : Email,
                     result : {"none"}]
           \/ c \in [at : {"find"}, old : Email, new : {Nil}, result : {"none"}]
           \/ c \in [at : {"delete"}, old : Email, new : {Nil}, result : {"none"}, id : UserID]
<1>1. c # NeverCalled
  BY DEF NeverCalled
<1>2. c \notin [at : {"done"}, old : Email, new : Email \cup {Nil}, result : Results]
  OBVIOUS
<1>. QED BY <1>1, <1>2 DEF CallFrame

\* with the fields of that step.
LEMMA CallFields ==
    ASSUME NEW c \in CallFrame
    PROVE  /\ c.at # "done" => c.old \in Email /\ c.new \in Email \cup {Nil}
           /\ c.at \in {"look up new", "look up old", "update"} => c.new \in Email
           /\ c.at \in {"find", "delete"} => c.new = Nil
           /\ c.at = "delete" => c.id \in UserID
BY CallKinds

\* What a step makes of its own call: it begins, goes on, or returns.
Proceeds(t) == \E f \in CallFrame : call' = [call EXCEPT ![t] = f]

\* A method returns an answer of the kinds there are.
LEMMA ReturnProceeds ==
    ASSUME call \in [Caller -> CallFrame], NEW t \in Caller, ~At(t, "done"),
           NEW r \in Results, Return(t, r)
    PROVE  Proceeds(t)
<1>1. call[t].old \in Email /\ call[t].new \in Email \cup {Nil}
  BY CallFields DEF At
<1>2. [at |-> "done", old |-> call[t].old, new |-> call[t].new, result |-> r] \in CallFrame
  BY <1>1 DEF CallFrame
<1>. QED BY <1>2 DEF Return, Proceeds

\* UpdateUserEmail goes on to its next statement.
LEMMA GotoProceeds ==
    ASSUME call \in [Caller -> CallFrame], NEW t \in Caller,
           At(t, "look up new") \/ At(t, "look up old"),
           NEW step \in {"look up old", "update"}, Goto(t, step)
    PROVE  Proceeds(t)
<1>0. call[t] \in CallFrame /\ call[t].at \notin {"done", "find", "delete"}
  BY DEF At
<1>1. call[t] \in [at : {"look up new", "look up old", "update"}, old : Email, new : Email,
                   result : {"none"}]
  BY <1>0, CallKinds
<1>2. [call[t] EXCEPT !.at = step] \in CallFrame
  BY <1>1 DEF CallFrame
<1>3. call' = [call EXCEPT ![t] = [call[t] EXCEPT !.at = step]]
  BY DEF Goto
<1>. QED BY <1>2, <1>3 DEF Proceeds

\* What a caller's step does to the tables and to its call.
LEMMA StepIsStep ==
    ASSUME TypeOK, TablesOK, NEW t \in Caller, Step(t)
    PROVE  TablesStep /\ Proceeds(t)
<1>t. Sound /\ call \in [Caller -> CallFrame] /\ call[t] \in CallFrame
  BY DEF TypeOK, Sound
<1>n. UNCHANGED tables => TablesStep
  BY <1>t, LooksAreSteps
<1>r. ASSUME ~At(t, "done"), NEW r, r \in {"nil", "conflict", "not found", "error"}, Return(t, r)
      PROVE  Proceeds(t)
  <2>1. r \in Results
    BY <1>r DEF Results
  <2>. QED BY <1>r, <1>t, <2>1, ReturnProceeds
<1>1. CASE Begin(t)
  <2>1. TablesStep
    BY <1>1, <1>n DEF Begin
  <2>2. Proceeds(t)
    <3>1. ASSUME NEW old \in Email, NEW new \in Email
          PROVE  [at |-> "look up new", old |-> old, new |-> new, result |-> "none"] \in CallFrame
      BY DEF CallFrame
    <3>2. ASSUME NEW e \in Email
          PROVE  [at |-> "find", old |-> e, new |-> Nil, result |-> "none"] \in CallFrame
      BY DEF CallFrame
    <3>. QED BY <1>1, <3>1, <3>2 DEF Begin, Proceeds
  <2>. QED BY <2>1, <2>2
<1>2. CASE LookUpNew(t)
  <2>1. ~At(t, "done") /\ At(t, "look up new") /\ TablesStep
    BY <1>2, <1>n DEF LookUpNew, At
  <2>2. Return(t, "conflict") \/ Goto(t, "look up old")
    BY <1>2 DEF LookUpNew
  <2>. QED BY <2>1, <2>2, <1>r, <1>t, GotoProceeds
<1>3. CASE LookUpOld(t)
  <2>1. ~At(t, "done") /\ At(t, "look up old") /\ TablesStep
    BY <1>3, <1>n DEF LookUpOld, At
  <2>2. Goto(t, "update") \/ Return(t, "not found") \/ Return(t, "error")
    BY <1>3 DEF LookUpOld
  <2>. QED BY <2>1, <2>2, <1>r, <1>t, GotoProceeds
<1>4. CASE Update(t)
  <2>1. ~At(t, "done") /\ call[t].old \in Email /\ call[t].new \in Email
    BY <1>4, <1>t, CallFields DEF Update, At
  <2>2. PICK o : /\ UpdateUser(o, call[t].old, call[t].new)
                 /\ \/ Return(t, "nil") \/ Return(t, "not found")
                    \/ Return(t, "conflict") \/ Return(t, "error")
    BY <1>4 DEF Update
  <2>. QED BY <2>1, <2>2, <1>r, <1>t, UpdateIsStep
<1>5. CASE Find(t)
  <2>1. ~At(t, "done") /\ TablesStep /\ call[t].old \in Email /\ call[t].new = Nil
    BY <1>5, <1>t, <1>n, CallFields DEF Find, At
  <2>2. \/ Return(t, "not found") \/ Return(t, "error")
        \/ \E u \in users :
              call' = [call EXCEPT ![t] = [at |-> "delete", old |-> call[t].old, new |-> call[t].new,
                                           result |-> "none", id |-> u.id]]
    BY <1>5 DEF Find
  <2>3. ASSUME NEW u \in users
        PROVE  [at |-> "delete", old |-> call[t].old, new |-> call[t].new,
                result |-> "none", id |-> u.id] \in CallFrame
    <3>1. u.id \in UserID
      BY DEF TypeOK, DBTypeOK, UserRow
    <3>. QED BY <2>1, <3>1 DEF CallFrame
  <2>. QED BY <2>1, <2>2, <2>3, <1>r DEF Proceeds
<1>6. CASE Delete(t)
  <2>1. ~At(t, "done") /\ {call[t].id} \in SUBSET UserID
    BY <1>6, <1>t, CallFields DEF Delete, At
  <2>2. PICK o : /\ DeleteUsers(o, {call[t].id})
                 /\ Return(t, "nil") \/ Return(t, "error")
    BY <1>6 DEF Delete
  <2>. QED BY <2>1, <2>2, <1>r, <1>t, DeleteIsStep
<1>. QED BY <1>1, <1>2, <1>3, <1>4, <1>5, <1>6 DEF Step

\* So every step keeps the tables sound and is one of the ledger's, or none.
LEMMA NextIsStep ==
    ASSUME TypeOK, TablesOK, Next
    PROVE  TablesStep
<1>1. ASSUME OneStatement PROVE TablesStep
  <2>1. Sound
    BY DEF TypeOK, Sound
  <2>. QED BY <1>1, <2>1, OnUsersIsStep, OnSessionsIsStep, OnChirpsIsStep DEF OneStatement
<1>. QED BY <1>1, StepIsStep DEF Next

\* Calls that make no step stand still.
LEMMA OthersStand ==
    ASSUME call \in [Caller -> CallFrame], NEW t \in Caller, Proceeds(t)
    PROVE  call' \in [Caller -> CallFrame] /\ \A u \in Caller \ {t} : call'[u] = call[u]
BY DEF Proceeds

\* What Witness records of a call: nothing new of one that is over, else
\* whether its addresses are free and taken by now.
LEMMA WitnessRecords ==
    ASSUME Witness, NEW t \in Caller
    PROVE  /\ At(t, "done") /\ call'[t] = call[t] => sight'[t] = sight[t]
           /\ ~(At(t, "done") /\ call'[t] = call[t]) =>
                 /\ sight'[t].free <=> \/ ~At(t, "done") /\ sight[t].free
                                       \/ \A u \in users' : u.email # call'[t].old
                 /\ sight'[t].taken <=> \/ ~At(t, "done") /\ sight[t].taken
                                        \/ \E u \in users' : u.email = call'[t].new
BY DEF Witness

\* Every step keeps the types.
LEMMA NextType ==
    ASSUME TypeOK, TablesOK, Next
    PROVE  TypeOK'
<1>1. DBTypeOK'
  BY NextIsStep DEF TablesStep, Sound
<1>2. faults' \in 0 .. MaxFaults
  <2>1. UNCHANGED faults \/ \E o \in Outcome : Meter(o)
    BY DEF Next, OneStatement, Step, Begin, LookUpNew, LookUpOld, Update, Find, Delete
  <2>. QED BY <2>1, FaultsAreBounded DEF Meter, TypeOK
<1>3. call' \in [Caller -> CallFrame]
  <2>1. call' = call \/ \E t \in Caller : Proceeds(t)
    BY StepIsStep DEF Next, OneStatement
  <2>. QED BY <2>1, OthersStand DEF TypeOK
<1>4. sight' \in [Caller -> [free : BOOLEAN, taken : BOOLEAN]]
  <2>1. \A A, B : [free |-> (A \/ B), taken |-> (A \/ B)] \in [free : BOOLEAN, taken : BOOLEAN]
    OBVIOUS
  <2>. QED BY <2>1 DEF Next, Witness, TypeOK
<1>. QED BY <1>1, <1>2, <1>3, <1>4 DEF TypeOK

-----------------------------------------------------------------------------
(* 3. Answers.                                                             *)

\* Where a step leaves its call: it returns, goes on, or has begun.
LEMMA WhereTo ==
    ASSUME call \in [Caller -> CallFrame], NEW t \in Caller
    PROVE  /\ \A r : Return(t, r) => At(t, "done")'
           /\ \A step : Goto(t, step) /\ ~At(t, "done") => call'[t].at = step
           /\ Begin(t) => call'[t].at \in {"look up new", "find"}
<1>1. \A r : Return(t, r) => At(t, "done")'
  BY DEF Return, At
<1>2. ASSUME NEW step, Goto(t, step), ~At(t, "done") PROVE call'[t].at = step
  <2>1. call[t] \in CallFrame /\ call[t].at # "done"
    BY <1>2 DEF At
  <2>2. call'[t] = [call[t] EXCEPT !.at = step]
    BY <1>2 DEF Goto
  <2>. QED BY <2>1, <2>2, CallKinds
<1>3. ASSUME Begin(t) PROVE call'[t].at \in {"look up new", "find"}
  <2>1. ASSUME NEW f, call' = [call EXCEPT ![t] = f] PROVE call'[t] = f
    BY <2>1
  <2>2. \/ \E old, new \in Email :
              call'[t] = [at |-> "look up new", old |-> old, new |-> new, result |-> "none"]
        \/ \E e \in Email :
              call'[t] = [at |-> "find", old |-> e, new |-> Nil, result |-> "none"]
    BY <1>3, <2>1, Zenon DEF Begin
  <2>3. \A old, new : [at |-> "look up new", old |-> old, new |-> new, result |-> "none"].at
                         = "look up new"
    OBVIOUS
  <2>4. \A e : [at |-> "find", old |-> e, new |-> Nil, result |-> "none"].at = "find"
    OBVIOUS
  <2>. QED BY <2>2, <2>3, <2>4, Zenon
<1>. QED BY <1>1, <1>2, <1>3

\* A call that is about to delete has been so, or has found its account now.
LEMMA FoundNow ==
    ASSUME TypeOK, NEW t \in Caller, Step(t), At(t, "delete")'
    PROVE  /\ users' = users
           /\ \E u \in users : u.id = call'[t].id /\ u.email = call'[t].old
<1>t. call \in [Caller -> CallFrame]
  BY DEF TypeOK
<1>1. ~Begin(t) /\ \A r : ~Return(t, r)
  BY <1>t, WhereTo DEF At
<1>2. ~LookUpNew(t) /\ ~LookUpOld(t)
  BY <1>t, <1>1, WhereTo DEF LookUpNew, LookUpOld, At
<1>3. ~Update(t) /\ ~Delete(t)
  BY <1>1 DEF Update, Delete
<1>4. Find(t)
  BY <1>1, <1>2, <1>3 DEF Step
<1>5. users' = users
  BY <1>4 DEF Find, tables
<1>6. PICK u \in users :
         /\ u.email = call[t].old
         /\ call' = [call EXCEPT ![t] = [at |-> "delete", old |-> @.old, new |-> @.new,
                                         result |-> "none", id |-> u.id]]
  BY <1>1, <1>4 DEF Find
<1>. QED BY <1>5, <1>6, <1>t

\* The account DeleteUser found has its address still, or nobody has had it since.
LEMMA FoundStaysSound ==
    ASSUME IInv, Next
    PROVE  FoundIsSound'
<1>. SUFFICES ASSUME NEW t \in Caller, At(t, "delete")'
              PROVE  \/ sight'[t].free
                     \/ \E u \in users' : u.id = call'[t].id /\ u.email = call'[t].old
  BY DEF FoundIsSound
<1>w. Witness
  BY DEF Next
<1>1. CASE call'[t] = call[t]
  <2>1. At(t, "delete") /\ ~At(t, "done")
    BY <1>1 DEF At
  <2>2. AddressesLinger
    BY NextIsStep DEF IInv, TablesStep
  <2>3. sight[t].free => sight'[t].free
    BY <2>1, <1>w, WitnessRecords
  <2>4. (\A u \in users' : u.email # call'[t].old) => sight'[t].free
    BY <2>1, <1>w, WitnessRecords
  <2>. QED BY <1>1, <2>1, <2>2, <2>3, <2>4 DEF IInv, FoundIsSound, AddressesLinger
<1>2. CASE call'[t] # call[t]
  <2>1. Step(t)
    BY <1>2, StepIsStep, OthersStand DEF Next, OneStatement, IInv, TypeOK
  <2>. QED BY <2>1, FoundNow DEF IInv
<1>. QED BY <1>1, <1>2

\* An answer as it is given.
Answer(t, r) == /\ call'[t].result = r
                /\ call'[t].old = call[t].old /\ call'[t].new = call[t].new

LEMMA ReturnAnswers ==
    ASSUME call \in [Caller -> CallFrame], NEW t \in Caller, NEW r, Return(t, r)
    PROVE  Answer(t, r)
BY DEF Return, Answer

\* What a method answers is true of its addresses now, or was recorded before.
AnswerIsTrue(t) ==
    /\ call'[t].result = "conflict"  => \E u \in users' : u.email = call'[t].new
    /\ call'[t].result = "not found" => \A u \in users' : u.email # call'[t].old
    /\ call'[t].result = "nil" /\ call'[t].old # call'[t].new =>
          /\ sight[t].free \/ \A u \in users' : u.email # call'[t].old
          /\ (\E u \in users' : u.email = call'[t].new) \/ call'[t].new = Nil

\* The UPDATE, with its three ways to go.
LEMMA UpdateAnswers ==
    ASSUME IInv, NEW t \in Caller, Update(t)
    PROVE  AnswerIsTrue(t)
<1>t. call \in [Caller -> CallFrame] /\ DBTypeOK
  BY DEF IInv, TypeOK
<1>. DEFINE old == call[t].old
            new == call[t].new
<1>1. PICK o \in Outcome :
         /\ UpdateUser(o, old, new)
         /\ \/ o = "ok" /\ Movable(old, new) /\ Answer(t, "nil")
            \/ o = "ok" /\ ~EmailTaken(old) /\ Answer(t, "not found")
            \/ o = "ok" /\ EmailTaken(old) /\ ~Movable(old, new) /\ Answer(t, "conflict")
            \/ Answer(t, "error")
  BY <1>t, ReturnAnswers DEF Update
<1>2. CASE o = "ok" /\ Movable(old, new) /\ Answer(t, "nil")
  <2>. DEFINE up(u) == IF u.email = old THEN [u EXCEPT !.email = new] ELSE u
  <2>1. users' = {up(u) : u \in users}
    BY <1>1, <1>2 DEF UpdateUser, Committed
  <2>2. \A u \in users : up(u).email = IF u.email = old THEN new ELSE u.email
    BY <1>t DEF DBTypeOK, UserRow
  <2>. HIDE DEF up
  <2>3. old # new => /\ \A u \in users' : u.email # old
                     /\ \E u \in users' : u.email = new
    BY <1>2, <2>1, <2>2 DEF Movable, EmailTaken
  <2>. QED BY <1>2, <2>3 DEF Answer, AnswerIsTrue
<1>3. CASE o = "ok" /\ ~EmailTaken(old) /\ Answer(t, "not found")
  <2>1. users' = users
    BY <1>1, <1>3 DEF UpdateUser, Movable, NoWrite, tables
  <2>. QED BY <1>3, <2>1 DEF Answer, AnswerIsTrue, EmailTaken
<1>4. CASE o = "ok" /\ EmailTaken(old) /\ ~Movable(old, new) /\ Answer(t, "conflict")
  <2>1. users' = users
    BY <1>1, <1>4 DEF UpdateUser, NoWrite, tables
  <2>2. EmailTaken(new)
    BY <1>4 DEF Movable
  <2>. QED BY <1>4, <2>1, <2>2 DEF Answer, AnswerIsTrue, EmailTaken
<1>5. CASE Answer(t, "error")
  BY <1>5 DEF Answer, AnswerIsTrue
<1>. QED BY <1>1, <1>2, <1>3, <1>4, <1>5

\* The DELETE by the id that was found: nobody else has had the address, or
\* it has been free.
LEMMA DeleteAnswers ==
    ASSUME IInv, NEW t \in Caller, Delete(t)
    PROVE  AnswerIsTrue(t)
<1>t. call \in [Caller -> CallFrame] /\ At(t, "delete") /\ call[t].new = Nil
  BY CallFields DEF IInv, TypeOK, Delete, At
<1>1. PICK o \in Outcome : /\ DeleteUsers(o, {call[t].id})
                           /\ Answer(t, IF o = "ok" THEN "nil" ELSE "error")
  BY <1>t, ReturnAnswers DEF Delete
<1>2. CASE o = "ok"
  <2>1. users' = {u \in users : u.id \notin {call[t].id}}
    BY <1>1, <1>2 DEF DeleteUsers, Committed
  <2>2. sight[t].free \/ \A u \in users' : u.email # call[t].old
    BY <1>t, <2>1 DEF IInv, FoundIsSound, TablesOK, SchemaHolds, OneAccountPerEmail
  <2>. QED BY <1>1, <1>2, <1>t, <2>2 DEF Answer, AnswerIsTrue
<1>3. CASE o # "ok"
  BY <1>1, <1>3 DEF Answer, AnswerIsTrue
<1>. QED BY <1>2, <1>3

\* Every step that returns answers the truth.
LEMMA StepAnswers ==
    ASSUME IInv, NEW t \in Caller, Step(t), At(t, "done")'
    PROVE  AnswerIsTrue(t) /\ ~At(t, "done")
<1>t. call \in [Caller -> CallFrame]
  BY DEF IInv, TypeOK
<1>a. \A r : Return(t, r) => Answer(t, r)
  BY <1>t, ReturnAnswers
<1>g. \A step : Goto(t, step) /\ ~At(t, "done") => step = "done"
  BY <1>t, WhereTo DEF At
<1>1. ~Begin(t)
  BY <1>t, WhereTo DEF At
<1>2. CASE LookUpNew(t)
  <2>1. ~At(t, "done") /\ users' = users
    BY <1>2 DEF LookUpNew, At, tables
  <2>2. EmailTaken(call[t].new) /\ Answer(t, "conflict")
    BY <1>2, <1>a, <1>g, <2>1 DEF LookUpNew
  <2>. QED BY <2>1, <2>2 DEF AnswerIsTrue, Answer, EmailTaken
<1>3. CASE LookUpOld(t)
  <2>1. ~At(t, "done") /\ users' = users
    BY <1>3 DEF LookUpOld, At, tables
  <2>2. \/ ~EmailTaken(call[t].old) /\ Answer(t, "not found")
        \/ Answer(t, "error")
    BY <1>3, <1>a, <1>g, <2>1 DEF LookUpOld
  <2>. QED BY <2>1, <2>2 DEF AnswerIsTrue, Answer, EmailTaken
<1>4. CASE Update(t)
  BY <1>4, UpdateAnswers DEF Update, At
<1>5. CASE Find(t)
  <2>1. ~At(t, "done") /\ users' = users
    BY <1>5 DEF Find, At, tables
  <2>2. \A u : call' # [call EXCEPT ![t] = [at |-> "delete", old |-> call[t].old,
                                           new |-> call[t].new, result |-> "none", id |-> u]]
    BY <1>t DEF At
  <2>3. \/ ~EmailTaken(call[t].old) /\ Answer(t, "not found")
        \/ Answer(t, "error")
    BY <1>5, <1>a, <2>2 DEF Find
  <2>. QED BY <2>1, <2>3 DEF AnswerIsTrue, Answer, EmailTaken
<1>6. CASE Delete(t)
  BY <1>6, DeleteAnswers DEF Delete, At
<1>. QED BY <1>1, <1>2, <1>3, <1>4, <1>5, <1>6 DEF Step

\* So answers stay honest: those given before stand, with what was seen.
LEMMA AnswersStayHonest ==
    ASSUME IInv, Next
    PROVE  AnswersAreHonest'
<1>. SUFFICES ASSUME NEW t \in Caller, At(t, "done")'
              PROVE  /\ call'[t].result = "conflict"  => sight'[t].taken
                     /\ call'[t].result = "not found" => sight'[t].free
                     /\ call'[t].result = "nil" /\ call'[t].old # call'[t].new =>
                           sight'[t].free /\ (sight'[t].taken \/ call'[t].new = Nil)
  BY DEF AnswersAreHonest
<1>w. Witness
  BY DEF Next
<1>1. CASE call'[t] = call[t]
  <2>1. At(t, "done")
    BY <1>1 DEF At
  <2>. QED BY <1>1, <2>1, <1>w, WitnessRecords DEF IInv, AnswersAreHonest
<1>2. CASE call'[t] # call[t]
  <2>1. Step(t)
    BY <1>2, StepIsStep, OthersStand DEF Next, OneStatement, IInv, TypeOK
  <2>2. AnswerIsTrue(t) /\ ~At(t, "done")
    BY <2>1, StepAnswers
  <2>. QED BY <2>2, <1>w, WitnessRecords DEF AnswerIsTrue
<1>. QED BY <1>1, <1>2

-----------------------------------------------------------------------------
(* The theorems.                                                           *)

\* Tables, calls and what they saw keep their types; the schema holds; calls
\* know what they have to.
LEMMA Inductive == Spec => []IInv
<1>1. Init => IInv
  <2>. SUFFICES ASSUME Init PROVE IInv
    OBVIOUS
  <2>1. TypeOK
    BY FaultsAreBounded DEF Init, DBInit, TypeOK, DBTypeOK, CallFrame
  <2>2. TablesOK
    BY DEF Init, DBInit, TablesOK, SchemaHolds, OneAccountPerEmail, IdsAreKeys, OwnersExist, RowsSpent
  <2>3. FoundIsSound /\ AnswersAreHonest
    BY DEF Init, NeverCalled, FoundIsSound, AnswersAreHonest, At
  <2>. QED BY <2>1, <2>2, <2>3 DEF IInv
<1>2. ASSUME IInv, Next PROVE IInv'
  <2>1. TypeOK'
    BY <1>2, NextType DEF IInv
  <2>2. TablesOK'
    BY <1>2, NextIsStep DEF IInv, TablesStep, Sound
  <2>. QED BY <1>2, <2>1, <2>2, FoundStaysSound, AnswersStayHonest DEF IInv
<1>3. ASSUME IInv, UNCHANGED repoVars PROVE IInv'
  BY <1>3 DEF IInv, TypeOK, DBTypeOK, TablesOK, SchemaHolds, OneAccountPerEmail, IdsAreKeys,
     OwnersExist, UserExists, RowsSpent, FoundIsSound, AnswersAreHonest, At, repoVars, tables
<1>. QED BY <1>1, <1>2, <1>3, PTL DEF Spec

\* The tables hold rows, and calls and what they saw are of the expected kinds.
THEOREM TypeCorrect == Spec => []TypeOK
<1>1. IInv => TypeOK
  BY DEF IInv
<1>. QED BY <1>1, Inductive, PTL

(***************************************************************************)
(* What UpdateUserEmail and DeleteUser answer was true at some moment of   *)
(* the call, whoever else calls them and whatever fails.                   *)
(***************************************************************************)
THEOREM HonestyCorrect == Spec => []AnswersAreHonest
<1>1. IInv => AnswersAreHonest
  BY DEF IInv
<1>. QED BY <1>1, Inductive, PTL

(***************************************************************************)
(* The repository keeps the ledger of accounts, those of its methods that  *)
(* no handler calls included.                                              *)
(***************************************************************************)
THEOREM LedgerKept == Spec => KeepsLedger
<1>1. Init => Tables!Init
  BY DEF Init, DBInit, Tables!Init, Accounts, Items, Revoked, Past, IdsOf
<1>2. ASSUME IInv, Next PROVE Tables!Next
  <2>1. Tables!Step
    BY <1>2, NextIsStep DEF IInv, TablesStep
  <2>. QED BY <2>1 DEF Tables!Next, Tables!Confirm
<1>3. ASSUME UNCHANGED repoVars PROVE UNCHANGED Tables!vars
  BY <1>3 DEF repoVars, tables, Tables!vars, Accounts, Items, Revoked, Past, IdsOf
<1>. QED BY <1>1, <1>2, <1>3, Inductive, PTL DEF Spec, KeepsLedger, Tables!Spec
=============================================================================
