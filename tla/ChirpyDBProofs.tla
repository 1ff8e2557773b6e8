--------------------------- MODULE ChirpyDBProofs ---------------------------
(***************************************************************************)
(* What every statement of ChirpyDB does, for any tables and whoever sends *)
(* it: it keeps the types of the rows and the constraints of the schema,   *)
(* and is one step of the ledger of accounts, or none.                     *)
(***************************************************************************)
EXTENDS TableLedger, TLAPS

RowsSpent == /\ \A u \in users : u.id \in spent
             /\ \A s \in sessions : s.id \in spent
             /\ \A c \in chirps : c.id \in spent

TablesOK == SchemaHolds /\ RowsSpent

\* What any step may do to the tables.
Evolves ==
    /\ spent \subseteq spent'
    /\ \A u \in users' : u.id \notin spent \/ \E v \in users : v.id = u.id /\ v.email = u.email
    /\ \A s \in sessions' : \/ s.id \notin spent
                            \/ \E t \in sessions : t.id = s.id /\ (t.revoked => s.revoked)

-----------------------------------------------------------------------------
(* 1. Types.                                                               *)

\* What a statement leaves in the tables has the tables' types.
LEMMA CreateUserType ==
    ASSUME DBTypeOK, NEW o, NEW e \in Email, NEW p \in Password, CreateUser(o, e, p)
    PROVE  DBTypeOK'
<1>1. CASE NoWrite
  BY <1>1 DEF DBTypeOK, NoWrite, tables
<1>2. CASE ~NoWrite
  <2>1. PICK id \in UserID :
           /\ users' = users \cup {[id |-> id, email |-> e,
                                   password |-> HashPassword(p), red |-> FALSE]}
           /\ spent' = spent \cup {id}
    BY <1>2 DEF CreateUser, Fresh, Insert
  <2>2. sessions' = sessions /\ chirps' = chirps
    BY <1>2 DEF CreateUser
  <2>3. [id |-> id, email |-> e, password |-> HashPassword(p), red |-> FALSE] \in UserRow
    BY DEF UserRow, HashPassword
  <2>. QED BY <2>1, <2>2, <2>3 DEF DBTypeOK
<1>. QED BY <1>1, <1>2

\* UpgradeUser keeps the types of the tables.
LEMMA UpgradeUserType ==
    ASSUME DBTypeOK, NEW o, NEW id, UpgradeUser(o, id)
    PROVE  DBTypeOK'
<1>1. CASE NoWrite
  BY <1>1 DEF DBTypeOK, NoWrite, tables
<1>2. CASE ~NoWrite
  <2>1. \A u \in users : [u EXCEPT !.red = TRUE] \in UserRow
    BY DEF DBTypeOK, UserRow
  <2>. QED BY <1>2, <2>1 DEF DBTypeOK, UpgradeUser
<1>. QED BY <1>1, <1>2

\* UpdateUser keeps the types of the tables.
LEMMA UpdateUserType ==
    ASSUME DBTypeOK, NEW o, NEW old, NEW new \in Email, UpdateUser(o, old, new)
    PROVE  DBTypeOK'
<1>1. CASE NoWrite
  BY <1>1 DEF DBTypeOK, NoWrite, tables
<1>2. CASE ~NoWrite
  <2>1. \A u \in users : [u EXCEPT !.email = new] \in UserRow
    BY DEF DBTypeOK, UserRow
  <2>. QED BY <1>2, <2>1 DEF DBTypeOK, UpdateUser
<1>. QED BY <1>1, <1>2

\* DeleteUsers keeps the types of the tables.
LEMMA DeleteUsersType ==
    ASSUME DBTypeOK, NEW o, NEW ids, DeleteUsers(o, ids)
    PROVE  DBTypeOK'
BY DEF DBTypeOK, DeleteUsers, NoWrite, tables

\* CreateSession keeps the types of the tables.
LEMMA CreateSessionType ==
    ASSUME DBTypeOK, NEW o, NEW user \in UserID, NEW expires \in Nat,
           CreateSession(o, user, expires)
    PROVE  DBTypeOK'
<1>1. CASE NoWrite
  BY <1>1 DEF DBTypeOK, NoWrite, tables
<1>2. CASE ~NoWrite
  <2>1. PICK id \in SessionID :
           /\ sessions' = sessions \cup {[id |-> id, user |-> user,
                                         expires |-> expires, revoked |-> FALSE]}
           /\ spent' = spent \cup {id}
    BY <1>2 DEF CreateSession, Fresh, Insert
  <2>2. users' = users /\ chirps' = chirps
    BY <1>2 DEF CreateSession
  <2>3. [id |-> id, user |-> user, expires |-> expires, revoked |-> FALSE] \in SessionRow
    BY DEF SessionRow
  <2>. QED BY <2>1, <2>2, <2>3 DEF DBTypeOK
<1>. QED BY <1>1, <1>2

\* RevokeSession keeps the types of the tables.
LEMMA RevokeSessionType ==
    ASSUME DBTypeOK, NEW o, NEW id, RevokeSession(o, id)
    PROVE  DBTypeOK'
<1>1. CASE NoWrite
  BY <1>1 DEF DBTypeOK, NoWrite, tables
<1>2. CASE ~NoWrite
  <2>1. \A s \in sessions : [s EXCEPT !.revoked = TRUE] \in SessionRow
    BY DEF DBTypeOK, SessionRow
  <2>. QED BY <1>2, <2>1 DEF DBTypeOK, RevokeSession
<1>. QED BY <1>1, <1>2

\* DeleteSessionsByUserID keeps the types of the tables.
LEMMA DeleteSessionsByUserIDType ==
    ASSUME DBTypeOK, NEW o, NEW user, DeleteSessionsByUserID(o, user)
    PROVE  DBTypeOK'
BY DEF DBTypeOK, DeleteSessionsByUserID, NoWrite, tables

\* CreateChirp keeps the types of the tables.
LEMMA CreateChirpType ==
    ASSUME DBTypeOK, NEW o, NEW user \in UserID, CreateChirp(o, user)
    PROVE  DBTypeOK'
BY DEF DBTypeOK, CreateChirp, NoWrite, tables, Fresh, Insert, ChirpRow

\* DeleteChirp keeps the types of the tables.
LEMMA DeleteChirpType ==
    ASSUME DBTypeOK, NEW o, NEW id, DeleteChirp(o, id)
    PROVE  DBTypeOK'
BY DEF DBTypeOK, DeleteChirp, NoWrite, tables

-----------------------------------------------------------------------------
(* 2. What a statement leaves in order.                                    *)

\* A statement that writes nothing keeps the tables sound.
LEMMA NoWriteKeeps ==
    ASSUME TablesOK, NoWrite
    PROVE  TablesOK' /\ Evolves
BY DEF TablesOK, SchemaHolds, OneAccountPerEmail, IdsAreKeys, OwnersExist, UserExists,
       RowsSpent, Evolves, NoWrite, tables

\* UNIQUE (email) and a fresh id keep accounts distinct.
LEMMA CreateUserKeeps ==
    ASSUME TablesOK, NEW o, NEW e, NEW p, CreateUser(o, e, p)
    PROVE  TablesOK' /\ Evolves
<1>1. CASE NoWrite
  BY <1>1, NoWriteKeeps
<1>2. CASE ~NoWrite
  <2>. DEFINE row(id) == [id |-> id, email |-> e, password |-> HashPassword(p), red |-> FALSE]
  <2>0. PICK id \in UserID :
           id \notin spent /\ users' = users \cup {row(id)} /\ spent' = spent \cup {id}
    BY <1>2 DEF CreateUser, Fresh, Insert
  <2>1. PICK n : /\ n.id = id /\ n.email = e
                 /\ id \notin spent /\ users' = users \cup {n} /\ spent' = spent \cup {id}
    BY <2>0
  <2>2. sessions' = sessions /\ chirps' = chirps /\ ~EmailTaken(e)
    BY <1>2 DEF CreateUser
  <2>3. OneAccountPerEmail'
    BY <2>1, <2>2 DEF TablesOK, SchemaHolds, OneAccountPerEmail, EmailTaken
  <2>4. IdsAreKeys'
    BY <2>1, <2>2 DEF TablesOK, SchemaHolds, IdsAreKeys, RowsSpent
  <2>5. OwnersExist'
    BY <2>1, <2>2 DEF TablesOK, SchemaHolds, OwnersExist, UserExists
  <2>6. RowsSpent' /\ Evolves
    BY <2>1, <2>2 DEF TablesOK, RowsSpent, Evolves
  <2>. QED BY <2>3, <2>4, <2>5, <2>6 DEF TablesOK, SchemaHolds
<1>. QED BY <1>1, <1>2

\* UpgradeUser keeps every row where it is, under its id and its address.
LEMMA UpgradeUserKeeps ==
    ASSUME DBTypeOK, TablesOK, NEW o, NEW id, UpgradeUser(o, id)
    PROVE  TablesOK' /\ Evolves
<1>1. CASE NoWrite
  BY <1>1, NoWriteKeeps
<1>2. CASE ~NoWrite
  <2>. DEFINE up(u) == IF u.id = id THEN [u EXCEPT !.red = TRUE] ELSE u
  <2>1. /\ users' = {up(u) : u \in users}
        /\ sessions' = sessions /\ chirps' = chirps /\ spent' = spent
    BY <1>2 DEF UpgradeUser
  <2>2. \A u \in users : up(u).id = u.id /\ up(u).email = u.email
    BY DEF DBTypeOK, UserRow
  <2>. HIDE DEF up
  <2>3. OneAccountPerEmail'
    BY <2>1, <2>2 DEF TablesOK, SchemaHolds, OneAccountPerEmail
  <2>4. IdsAreKeys'
    BY <2>1, <2>2 DEF TablesOK, SchemaHolds, IdsAreKeys
  <2>5. OwnersExist'
    BY <2>1, <2>2 DEF TablesOK, SchemaHolds, OwnersExist, UserExists
  <2>6. RowsSpent' /\ Evolves
    BY <2>1, <2>2 DEF TablesOK, RowsSpent, Evolves
  <2>. QED BY <2>3, <2>4, <2>5, <2>6 DEF TablesOK, SchemaHolds
<1>. QED BY <1>1, <1>2

\* UpdateUser moves one account to an address nobody has; this is the one
\* statement after which an account does not have the address it had.
LEMMA UpdateUserKeeps ==
    ASSUME DBTypeOK, TablesOK, NEW o, NEW old, NEW new, UpdateUser(o, old, new)
    PROVE  TablesOK'
<1>1. CASE NoWrite
  BY <1>1, NoWriteKeeps
<1>2. CASE ~NoWrite
  <2>. DEFINE up(u) == IF u.email = old THEN [u EXCEPT !.email = new] ELSE u
  <2>1. /\ users' = {up(u) : u \in users}
        /\ sessions' = sessions /\ chirps' = chirps /\ spent' = spent
        /\ Movable(old, new)
    BY <1>2 DEF UpdateUser
  <2>2. \A u \in users : /\ up(u).id = u.id
                         /\ up(u).email = IF u.email = old THEN new ELSE u.email
    BY DEF DBTypeOK, UserRow
  <2>. HIDE DEF up
  <2>3. \A u, v \in users : up(u).email = up(v).email => u = v
    BY <2>1, <2>2 DEF Movable, EmailTaken, TablesOK, SchemaHolds, OneAccountPerEmail
  <2>4. OneAccountPerEmail'
    BY <2>1, <2>3 DEF OneAccountPerEmail
  <2>5. IdsAreKeys'
    BY <2>1, <2>2 DEF TablesOK, SchemaHolds, IdsAreKeys
  <2>6. OwnersExist'
    BY <2>1, <2>2 DEF TablesOK, SchemaHolds, OwnersExist, UserExists
  <2>7. RowsSpent'
    BY <2>1, <2>2 DEF TablesOK, RowsSpent
  <2>. QED BY <2>4, <2>5, <2>6, <2>7 DEF TablesOK, SchemaHolds
<1>. QED BY <1>1, <1>2

\* ON DELETE CASCADE keeps the foreign keys.
LEMMA DeleteUsersKeeps ==
    ASSUME TablesOK, NEW o, NEW ids, DeleteUsers(o, ids)
    PROVE  TablesOK' /\ Evolves
<1>1. CASE NoWrite
  BY <1>1, NoWriteKeeps
<1>2. CASE ~NoWrite
  <2>1. /\ users' = {u \in users : u.id \notin ids}
        /\ sessions' = {s \in sessions : s.user \notin ids}
        /\ chirps' = {c \in chirps : c.user \notin ids}
        /\ spent' = spent
    BY <1>2 DEF DeleteUsers
  <2>2. OneAccountPerEmail' /\ IdsAreKeys'
    BY <2>1 DEF TablesOK, SchemaHolds, OneAccountPerEmail, IdsAreKeys
  <2>3. OwnersExist'
    BY <2>1 DEF TablesOK, SchemaHolds, OwnersExist, UserExists
  <2>4. RowsSpent' /\ Evolves
    BY <2>1 DEF TablesOK, RowsSpent, Evolves
  <2>. QED BY <2>2, <2>3, <2>4 DEF TablesOK, SchemaHolds
<1>. QED BY <1>1, <1>2

\* CreateSession adds one row, under a fresh token, for an account that exists.
LEMMA CreateSessionKeeps ==
    ASSUME TablesOK, NEW o, NEW user, NEW expires, CreateSession(o, user, expires)
    PROVE  TablesOK' /\ Evolves
<1>1. CASE NoWrite
  BY <1>1, NoWriteKeeps
<1>2. CASE ~NoWrite
  <2>. DEFINE row(id) == [id |-> id, user |-> user, expires |-> expires, revoked |-> FALSE]
  <2>0. PICK id \in SessionID :
           id \notin spent /\ sessions' = sessions \cup {row(id)} /\ spent' = spent \cup {id}
    BY <1>2 DEF CreateSession, Fresh, Insert
  <2>1. PICK n : /\ n.id = id /\ n.user = user
                 /\ id \notin spent /\ sessions' = sessions \cup {n} /\ spent' = spent \cup {id}
    BY <2>0
  <2>2. users' = users /\ chirps' = chirps /\ UserExists(user)
    BY <1>2 DEF CreateSession
  <2>3. OneAccountPerEmail' /\ IdsAreKeys'
    BY <2>1, <2>2 DEF TablesOK, SchemaHolds, OneAccountPerEmail, IdsAreKeys, RowsSpent
  <2>4. OwnersExist'
    BY <2>1, <2>2 DEF TablesOK, SchemaHolds, OwnersExist, UserExists
  <2>5. RowsSpent' /\ Evolves
    BY <2>1, <2>2 DEF TablesOK, RowsSpent, Evolves
  <2>. QED BY <2>3, <2>4, <2>5 DEF TablesOK, SchemaHolds
<1>. QED BY <1>1, <1>2

\* RevokeSession makes no session live that was not.
LEMMA RevokeSessionKeeps ==
    ASSUME DBTypeOK, TablesOK, NEW o, NEW id, RevokeSession(o, id)
    PROVE  TablesOK' /\ Evolves
<1>1. CASE NoWrite
  BY <1>1, NoWriteKeeps
<1>2. CASE ~NoWrite
  <2>. DEFINE up(s) == IF s.id = id THEN [s EXCEPT !.revoked = TRUE] ELSE s
  <2>1. /\ sessions' = {up(s) : s \in sessions}
        /\ users' = users /\ chirps' = chirps /\ spent' = spent
    BY <1>2 DEF RevokeSession
  <2>2. \A s \in sessions : /\ up(s).id = s.id /\ up(s).user = s.user
                            /\ s.revoked => up(s).revoked
    BY DEF DBTypeOK, SessionRow
  <2>. HIDE DEF up
  <2>3. OneAccountPerEmail' /\ IdsAreKeys'
    BY <2>1, <2>2 DEF TablesOK, SchemaHolds, OneAccountPerEmail, IdsAreKeys
  <2>4. OwnersExist'
    BY <2>1, <2>2 DEF TablesOK, SchemaHolds, OwnersExist, UserExists
  <2>5. RowsSpent' /\ Evolves
    BY <2>1, <2>2 DEF TablesOK, RowsSpent, Evolves
  <2>. QED BY <2>3, <2>4, <2>5 DEF TablesOK, SchemaHolds
<1>. QED BY <1>1, <1>2

\* DeleteSessionsByUserID only removes rows.
LEMMA DeleteSessionsByUserIDKeeps ==
    ASSUME TablesOK, NEW o, NEW user, DeleteSessionsByUserID(o, user)
    PROVE  TablesOK' /\ Evolves
<1>1. CASE NoWrite
  BY <1>1, NoWriteKeeps
<1>2. CASE ~NoWrite
  BY <1>2 DEF DeleteSessionsByUserID, TablesOK, SchemaHolds, OneAccountPerEmail, IdsAreKeys,
              OwnersExist, UserExists, RowsSpent, Evolves
<1>. QED BY <1>1, <1>2

\* CreateChirp adds one row, under a fresh id, for an account that exists.
LEMMA CreateChirpKeeps ==
    ASSUME TablesOK, NEW o, NEW user, CreateChirp(o, user)
    PROVE  TablesOK' /\ Evolves
<1>1. CASE NoWrite
  BY <1>1, NoWriteKeeps
<1>2. CASE ~NoWrite
  <2>1. PICK id \in ChirpID :
           /\ id \notin spent
           /\ chirps' = chirps \cup {[id |-> id, user |-> user]}
           /\ spent' = spent \cup {id}
    BY <1>2 DEF CreateChirp, Fresh, Insert
  <2>2. users' = users /\ sessions' = sessions /\ UserExists(user)
    BY <1>2 DEF CreateChirp
  <2>3. OneAccountPerEmail' /\ IdsAreKeys'
    BY <2>1, <2>2 DEF TablesOK, SchemaHolds, OneAccountPerEmail, IdsAreKeys, RowsSpent
  <2>4. OwnersExist'
    BY <2>1, <2>2 DEF TablesOK, SchemaHolds, OwnersExist, UserExists
  <2>5. RowsSpent' /\ Evolves
    BY <2>1, <2>2 DEF TablesOK, RowsSpent, Evolves
  <2>. QED BY <2>3, <2>4, <2>5 DEF TablesOK, SchemaHolds
<1>. QED BY <1>1, <1>2

\* DeleteChirp only removes rows.
LEMMA DeleteChirpKeeps ==
    ASSUME TablesOK, NEW o, NEW id, DeleteChirp(o, id)
    PROVE  TablesOK' /\ Evolves
<1>1. CASE NoWrite
  BY <1>1, NoWriteKeeps
<1>2. CASE ~NoWrite
  BY <1>2 DEF DeleteChirp, TablesOK, SchemaHolds, OneAccountPerEmail, IdsAreKeys,
              OwnersExist, UserExists, RowsSpent, Evolves
<1>. QED BY <1>1, <1>2

-----------------------------------------------------------------------------
(* 3. What a statement is in the ledger.                                   *)

\* What the statements need to know of the tables.
Sound == DBTypeOK /\ TablesOK

\* An id the ledger sees is the id of a row, ...
LEMMA AccountIds ==
    ASSUME NEW S
    PROVE  \A x : x \in Tables!Ids({[id |-> u.id, email |-> u.email] : u \in S})
                      <=> \E u \in S : u.id = x
<1>. DEFINE seen(u) == [id |-> u.id, email |-> u.email]
<1>1. \A u : seen(u).id = u.id
  OBVIOUS
<1>. HIDE DEF seen
<1>2. \A x : x \in Tables!Ids({seen(u) : u \in S}) <=> \E u \in S : u.id = x
  BY <1>1 DEF Tables!Ids
<1>. QED BY <1>2 DEF seen

\* ... of an account, or of a session or a chirp.
LEMMA ItemIds ==
    ASSUME NEW S, NEW C
    PROVE  \A x : x \in Tables!Ids({[id |-> s.id, user |-> s.user] : s \in S} \cup C)
                      <=> (\E s \in S : s.id = x) \/ (\E c \in C : c.id = x)
<1>. DEFINE seen(s) == [id |-> s.id, user |-> s.user]
<1>1. \A s : seen(s).id = s.id
  OBVIOUS
<1>. HIDE DEF seen
<1>2. \A x : x \in Tables!Ids({seen(s) : s \in S} \cup C)
                 <=> (\E s \in S : s.id = x) \/ (\E c \in C : c.id = x)
  BY <1>1 DEF Tables!Ids
<1>. QED BY <1>2 DEF seen

\* An id that is gone was drawn, and no row has it.
LEMMA PastIds ==
    \A x : x \in Past <=> /\ x \in spent
                          /\ \A u \in users : u.id # x
                          /\ \A s \in sessions : s.id # x
                          /\ \A c \in chirps : c.id # x
BY DEF Past, IdsOf

\* Where the tables do not change, neither does what the ledger sees.
LEMMA NoWriteMaps ==
    ASSUME NoWrite
    PROVE  Tables!Step
<1>1. /\ Accounts' = Accounts /\ Items' = Items
      /\ Revoked' = Revoked /\ Past' = Past
  BY DEF NoWrite, tables, Accounts, Items, Revoked, Past, IdsOf
<1>. QED BY <1>1 DEF Tables!Step

\* An INSERT into users opens an account.
LEMMA CreateUserMaps ==
    ASSUME Sound, NEW o, NEW e \in Email, NEW p, CreateUser(o, e, p)
    PROVE  Tables!Step
<1>1. CASE NoWrite
  BY <1>1, NoWriteMaps
<1>2. CASE ~NoWrite
  <2>. DEFINE row(id) == [id |-> id, email |-> e, password |-> HashPassword(p), red |-> FALSE]
  <2>0. PICK id \in UserID :
           id \notin spent /\ users' = users \cup {row(id)} /\ spent' = spent \cup {id}
    BY <1>2 DEF CreateUser, Fresh, Insert
  <2>1. PICK n : /\ n.id = id /\ n.email = e
                 /\ id \notin spent /\ users' = users \cup {n} /\ spent' = spent \cup {id}
    BY <2>0
  <2>2. sessions' = sessions /\ chirps' = chirps /\ ~EmailTaken(e)
    BY <1>2 DEF CreateUser
  <2>3. Accounts' = Accounts \cup {[id |-> id, email |-> e]}
    BY <2>1 DEF Accounts
  <2>4. Items' = Items /\ Revoked' = Revoked
    BY <2>2 DEF Items, Revoked
  <2>5. Past' = Past
    BY <2>1, <2>2 DEF Past, IdsOf, Sound, TablesOK, RowsSpent
  <2>6. id \notin Tables!Ids(Accounts) \cup Past
    BY <2>1, AccountIds DEF Accounts, Past, Sound, TablesOK, RowsSpent
  <2>7. \A x \in Accounts : x.email # e
    BY <2>2 DEF Accounts, EmailTaken
  <2>8. Tables!Open(id, e)
    BY <2>3, <2>4, <2>5, <2>6, <2>7 DEF Tables!Open
  <2>. QED BY <2>8 DEF Tables!Step
<1>. QED BY <1>1, <1>2

\* A membership is none of the ledger's business.
LEMMA UpgradeUserMaps ==
    ASSUME Sound, NEW o, NEW id, UpgradeUser(o, id)
    PROVE  Tables!Step
<1>1. CASE NoWrite
  BY <1>1, NoWriteMaps
<1>2. CASE ~NoWrite
  <2>. DEFINE up(u) == IF u.id = id THEN [u EXCEPT !.red = TRUE] ELSE u
  <2>1. /\ users' = {up(u) : u \in users}
        /\ sessions' = sessions /\ chirps' = chirps /\ spent' = spent
    BY <1>2 DEF UpgradeUser
  <2>2. \A u \in users : up(u).id = u.id /\ up(u).email = u.email
    BY DEF Sound, DBTypeOK, UserRow
  <2>. HIDE DEF up
  <2>3. Accounts' = Accounts
    BY <2>1, <2>2 DEF Accounts
  <2>4. IdsOf(users)' = IdsOf(users)
    BY <2>1, <2>2 DEF IdsOf
  <2>5. Items' = Items /\ Revoked' = Revoked /\ Past' = Past
    BY <2>1, <2>4 DEF Items, Revoked, Past, IdsOf
  <2>. QED BY <2>3, <2>5 DEF Tables!Step
<1>. QED BY <1>1, <1>2

\* An UPDATE of an address moves the account that has the old one.
LEMMA UpdateUserMaps ==
    ASSUME Sound, NEW o, NEW old, NEW new \in Email, UpdateUser(o, old, new)
    PROVE  Tables!Step
<1>1. CASE NoWrite
  BY <1>1, NoWriteMaps
<1>2. CASE ~NoWrite
  <2>. DEFINE up(u) == IF u.email = old THEN [u EXCEPT !.email = new] ELSE u
              seen(u) == [id |-> u.id, email |-> u.email]
  <2>1. /\ users' = {up(u) : u \in users}
        /\ sessions' = sessions /\ chirps' = chirps /\ spent' = spent
        /\ Movable(old, new)
    BY <1>2 DEF UpdateUser
  <2>2. PICK v \in users : v.email = old
    BY <2>1 DEF Movable, EmailTaken
  <2>3. \A u \in users : u.id = v.id <=> u.email = old
    BY <2>2 DEF Sound, TablesOK, SchemaHolds, OneAccountPerEmail, IdsAreKeys
  <2>4. /\ Accounts = {seen(u) : u \in users}
        /\ Accounts' = {seen(up(u)) : u \in users}
    BY <2>1 DEF Accounts
  <2>5. \A u \in users : /\ up(u).id = u.id
                         /\ up(u).email = IF u.email = old THEN new ELSE u.email
    BY DEF Sound, DBTypeOK, UserRow
  <2>6. \A u : seen(u).id = u.id /\ seen(u).email = u.email
    OBVIOUS
  <2>7. \A u \in users : seen(up(u)) = IF seen(u).id = v.id THEN [id |-> v.id, email |-> new]
                                                           ELSE seen(u)
    BY <2>3, <2>5
  <2>. HIDE DEF up, seen
  <2>8. Accounts' = {IF x.id = v.id THEN [id |-> v.id, email |-> new] ELSE x : x \in Accounts}
    BY <2>4, <2>7
  <2>9. Items' = Items /\ Revoked' = Revoked
    BY <2>1 DEF Items, Revoked
  <2>10. Past' = Past
    <3>1. IdsOf(users)' = IdsOf(users)
      BY <2>1, <2>5 DEF IdsOf
    <3>. QED BY <3>1, <2>1 DEF Past, IdsOf
  <2>11. CASE new = old
    <3>1. \A u \in users : seen(up(u)) = seen(u)
      BY <2>3, <2>6, <2>7, <2>11 DEF seen
    <3>2. Accounts' = Accounts
      BY <3>1, <2>4
    <3>. QED BY <3>2, <2>9, <2>10 DEF Tables!Step
  <2>12. CASE new # old
    <3>1. \A x \in Accounts : x.email # new
      BY <2>1, <2>4, <2>6, <2>12 DEF Movable, EmailTaken
    <3>2. v.id \in Tables!Ids(Accounts) /\ v.id \in UserID
      BY <2>2, AccountIds DEF Accounts, Sound, DBTypeOK, UserRow
    <3>3. Tables!Move(v.id, new)
      BY <2>8, <2>9, <2>10, <3>1, <3>2 DEF Tables!Move
    <3>. QED BY <3>2, <3>3 DEF Tables!Step
  <2>. QED BY <2>11, <2>12
<1>. QED BY <1>1, <1>2

\* A DELETE with its cascades closes accounts with all they own.
LEMMA DeleteUsersMaps ==
    ASSUME Sound, NEW o, NEW ids \in SUBSET UserID, DeleteUsers(o, ids)
    PROVE  Tables!Step
<1>1. CASE NoWrite
  BY <1>1, NoWriteMaps
<1>2. CASE ~NoWrite
  <2>1. /\ users' = {u \in users : u.id \notin ids}
        /\ sessions' = {s \in sessions : s.user \notin ids}
        /\ chirps' = {c \in chirps : c.user \notin ids}
        /\ spent' = spent
    BY <1>2 DEF DeleteUsers
  <2>2. Accounts' = {x \in Accounts : x.id \notin ids}
    BY <2>1 DEF Accounts
  <2>3. Items' = {i \in Items : i.user \notin ids}
    BY <2>1 DEF Items
  <2>t. /\ \A u \in users : u.id \in UserID /\ u.id \in spent
        /\ \A s \in sessions : s.id \in SessionID /\ s.id \in spent
        /\ \A c \in chirps : c.id \in ChirpID /\ c.id \in spent
        /\ \A s, t \in sessions : s.id = t.id => s = t
        /\ \A c, d \in chirps : c.id = d.id => c = d
    BY DEF Sound, DBTypeOK, UserRow, SessionRow, ChirpRow, TablesOK, RowsSpent,
           SchemaHolds, IdsAreKeys
  <2>4. Past' = Past \cup (ids \cap Tables!Ids(Accounts))
                     \cup Tables!Ids({i \in Items : i.user \in ids})
    <3>1. \A x : x \in Tables!Ids(Accounts) <=> \E u \in users : u.id = x
      BY AccountIds DEF Accounts
    <3>2. \A x : x \in Tables!Ids({i \in Items : i.user \in ids})
                     <=> \/ \E s \in sessions : s.user \in ids /\ s.id = x
                         \/ \E c \in chirps : c.user \in ids /\ c.id = x
      <4>. DEFINE S == {t \in sessions : t.user \in ids}
                  C == {c \in chirps : c.user \in ids}
      <4>1. {i \in Items : i.user \in ids}
               = {[id |-> s.id, user |-> s.user] : s \in S} \cup C
        BY DEF Items
      <4>2. \A x : (\E s \in S : s.id = x) <=> \E s \in sessions : s.user \in ids /\ s.id = x
        OBVIOUS
      <4>3. \A x : (\E c \in C : c.id = x) <=> \E c \in chirps : c.user \in ids /\ c.id = x
        OBVIOUS
      <4>. HIDE DEF S, C
      <4>4. \A x : x \in Tables!Ids({[id |-> s.id, user |-> s.user] : s \in S} \cup C)
                       <=> (\E s \in S : s.id = x) \/ (\E c \in C : c.id = x)
        BY ItemIds
      <4>5. \A x : x \in Tables!Ids({i \in Items : i.user \in ids})
                       <=> (\E s \in S : s.id = x) \/ (\E c \in C : c.id = x)
        BY <4>1, <4>4
      <4>. QED BY <4>2, <4>3, <4>5
    <3>3. \A x : x \in Past' <=> /\ x \in spent
                                 /\ \A u \in users : u.id # x \/ u.id \in ids
                                 /\ \A s \in sessions : s.id # x \/ s.user \in ids
                                 /\ \A c \in chirps : c.id # x \/ c.user \in ids
      BY <2>1 DEF Past, IdsOf
    <3>4. ASSUME NEW x, x \in Past'
          PROVE  \/ x \in Past \/ x \in ids \cap Tables!Ids(Accounts)
                 \/ x \in Tables!Ids({i \in Items : i.user \in ids})
      BY <3>1, <3>2, <3>3, <3>4, PastIds
    <3>5. ASSUME NEW x, x \in Past PROVE x \in Past'
      BY <3>3, <3>5, PastIds
    <3>6. ASSUME NEW x \in ids, x \in Tables!Ids(Accounts) PROVE x \in Past'
      <4>1. PICK u \in users : u.id = x
        BY <3>1, <3>6
      <4>2. x \in UserID /\ x \in spent
        BY <4>1, <2>t
      <4>. QED BY <3>3, <3>6, <4>2, <2>t, IdsAreDistinct
    <3>7. ASSUME NEW x, x \in Tables!Ids({i \in Items : i.user \in ids}) PROVE x \in Past'
      BY <3>2, <3>3, <3>7, <2>t, IdsAreDistinct
    <3>. QED BY <3>4, <3>5, <3>6, <3>7
  <2>5. Revoked' = Revoked \cap Tables!Ids(Items')
    <3>1. \A x : x \in Tables!Ids(Items') <=> \/ \E s \in sessions' : s.id = x
                                              \/ \E c \in chirps' : c.id = x
      <4>1. Items' = {[id |-> s.id, user |-> s.user] : s \in sessions'} \cup chirps'
        BY DEF Items
      <4>. QED BY <4>1, ItemIds
    <3>2. \A x : x \in Revoked <=> \E s \in sessions : s.revoked /\ s.id = x
      BY DEF Revoked
    <3>3. \A x : x \in Revoked' <=> \E s \in sessions' : s.revoked /\ s.id = x
      BY DEF Revoked
    <3>4. ASSUME NEW x, x \in Revoked' PROVE x \in Revoked /\ x \in Tables!Ids(Items')
      BY <3>1, <3>2, <3>3, <3>4, <2>1
    <3>5. ASSUME NEW x, x \in Revoked, x \in Tables!Ids(Items') PROVE x \in Revoked'
      <4>1. PICK s \in sessions : s.revoked /\ x = s.id
        BY <3>2, <3>5
      <4>2. s \in sessions'
        BY <3>1, <3>5, <4>1, <2>1, <2>t, IdsAreDistinct
      <4>. QED BY <4>1, <4>2, <3>3
    <3>. QED BY <3>4, <3>5
  <2>6. Tables!Close(ids)
    BY <2>2, <2>3, <2>4, <2>5 DEF Tables!Close
  <2>. QED BY <2>6 DEF Tables!Step
<1>. QED BY <1>1, <1>2

\* An INSERT into user_sessions attaches an item that is not revoked.
LEMMA CreateSessionMaps ==
    ASSUME Sound, NEW o, NEW user, NEW expires, CreateSession(o, user, expires)
    PROVE  Tables!Step
<1>1. CASE NoWrite
  BY <1>1, NoWriteMaps
<1>2. CASE ~NoWrite
  <2>. DEFINE row(id) == [id |-> id, user |-> user, expires |-> expires, revoked |-> FALSE]
  <2>0. PICK id \in SessionID :
           id \notin spent /\ sessions' = sessions \cup {row(id)} /\ spent' = spent \cup {id}
    BY <1>2 DEF CreateSession, Fresh, Insert
  <2>1. PICK n : /\ n.id = id /\ n.user = user /\ n.revoked = FALSE
                 /\ id \notin spent /\ sessions' = sessions \cup {n} /\ spent' = spent \cup {id}
    BY <2>0
  <2>2. users' = users /\ chirps' = chirps /\ UserExists(user)
    BY <1>2 DEF CreateSession
  <2>3. Items' = Items \cup {[id |-> id, user |-> user]}
    BY <2>1, <2>2 DEF Items
  <2>4. Accounts' = Accounts
    BY <2>2 DEF Accounts
  <2>5. Revoked' = Revoked
    BY <2>1 DEF Revoked
  <2>6. Past' = Past
    <3>1. IdsOf(sessions)' = IdsOf(sessions) \cup {id}
      BY <2>1 DEF IdsOf
    <3>2. IdsOf(users)' = IdsOf(users) /\ IdsOf(chirps)' = IdsOf(chirps)
      BY <2>2 DEF IdsOf
    <3>. QED BY <3>1, <3>2, <2>1 DEF Past
  <2>7. id \notin Tables!Ids(Items) \cup Past
    <3>1. \A x : x \in Tables!Ids(Items) <=> \/ \E s \in sessions : s.id = x
                                             \/ \E c \in chirps : c.id = x
      BY ItemIds DEF Items
    <3>. QED BY <3>1, <2>1 DEF Past, Sound, TablesOK, RowsSpent
  <2>8. user \in Tables!Ids(Accounts) /\ user \in UserID
    BY <2>2, AccountIds DEF Accounts, UserExists, Sound, DBTypeOK, UserRow
  <2>9. Tables!Attach(id, user)
    BY <2>3, <2>4, <2>5, <2>6, <2>7, <2>8 DEF Tables!Attach
  <2>. QED BY <2>8, <2>9 DEF Tables!Step
<1>. QED BY <1>1, <1>2

\* An UPDATE of revoked_at revokes the item, if there is one.
LEMMA RevokeSessionMaps ==
    ASSUME Sound, NEW o, NEW id, RevokeSession(o, id)
    PROVE  Tables!Step
<1>1. CASE NoWrite
  BY <1>1, NoWriteMaps
<1>2. CASE ~NoWrite
  <2>. DEFINE up(s) == IF s.id = id THEN [s EXCEPT !.revoked = TRUE] ELSE s
  <2>1. /\ sessions' = {up(s) : s \in sessions}
        /\ users' = users /\ chirps' = chirps /\ spent' = spent
    BY <1>2 DEF RevokeSession
  <2>2. \A s \in sessions : /\ up(s).id = s.id /\ up(s).user = s.user
                            /\ up(s).revoked <=> s.revoked \/ s.id = id
    BY DEF Sound, DBTypeOK, SessionRow
  <2>. HIDE DEF up
  <2>3. Items' = Items /\ Accounts' = Accounts
    BY <2>1, <2>2 DEF Items, Accounts
  <2>4. Past' = Past
    <3>1. IdsOf(sessions)' = IdsOf(sessions)
      BY <2>1, <2>2 DEF IdsOf
    <3>. QED BY <3>1, <2>1 DEF Past, IdsOf
  <2>5. CASE \E s \in sessions : s.id = id
    <3>1. Revoked' = Revoked \cup {id}
      BY <2>1, <2>2, <2>5 DEF Revoked
    <3>2. id \in Tables!Ids(Items) /\ id \in SessionID
      BY <2>5, ItemIds DEF Items, Sound, DBTypeOK, SessionRow
    <3>3. Tables!Revoke(id)
      BY <2>3, <2>4, <3>1, <3>2 DEF Tables!Revoke
    <3>. QED BY <3>2, <3>3 DEF Tables!Step
  <2>6. CASE \A s \in sessions : s.id # id
    <3>1. Revoked' = Revoked
      BY <2>1, <2>2, <2>6 DEF Revoked
    <3>. QED BY <2>3, <2>4, <3>1 DEF Tables!Step
  <2>. QED BY <2>5, <2>6
<1>. QED BY <1>1, <1>2

\* A DELETE from user_sessions detaches what the account has there.
LEMMA DeleteSessionsByUserIDMaps ==
    ASSUME Sound, NEW o, NEW user, DeleteSessionsByUserID(o, user)
    PROVE  Tables!Step
<1>1. CASE NoWrite
  BY <1>1, NoWriteMaps
<1>2. CASE ~NoWrite
  <2>. DEFINE S == {s.id : s \in {x \in sessions : x.user = user}}
              seen(s) == [id |-> s.id, user |-> s.user]
  <2>1. /\ sessions' = {s \in sessions : s.user # user}
        /\ users' = users /\ chirps' = chirps /\ spent' = spent
    BY <1>2 DEF DeleteSessionsByUserID
  <2>t. /\ \A u \in users : u.id \in UserID
        /\ \A s \in sessions : s.id \in SessionID /\ s.id \in spent
        /\ \A c \in chirps : c.id \in ChirpID
        /\ \A s, t \in sessions : s.id = t.id => s = t
    BY DEF Sound, DBTypeOK, UserRow, SessionRow, ChirpRow, TablesOK, RowsSpent,
           SchemaHolds, IdsAreKeys
  <2>2. \A x : x \in S <=> \E s \in sessions : s.user = user /\ s.id = x
    OBVIOUS
  <2>3. S \subseteq SessionID
    BY <2>2, <2>t
  <2>. HIDE DEF S
  <2>4. \A s : seen(s).id = s.id
    OBVIOUS
  <2>5. /\ Items = {seen(s) : s \in sessions} \cup chirps
        /\ Items' = {seen(s) : s \in sessions'} \cup chirps
    BY <2>1 DEF Items
  <2>6. \A s \in sessions : s.user # user <=> s.id \notin S
    BY <2>2, <2>t
  <2>7. \A c \in chirps : c.id \notin S
    BY <2>3, <2>t, IdsAreDistinct
  <2>. HIDE DEF seen
  <2>8. Items' = {i \in Items : i.id \notin S}
    BY <2>1, <2>4, <2>5, <2>6, <2>7
  <2>9. Accounts' = Accounts
    BY <2>1 DEF Accounts
  <2>10. Revoked' = Revoked \ S
    BY <2>1, <2>6 DEF Revoked
  <2>11. Past' = Past \cup (S \cap Tables!Ids(Items))
    <3>1. \A x : x \in Tables!Ids(Items) <=> \/ \E s \in sessions : s.id = x
                                             \/ \E c \in chirps : c.id = x
      BY ItemIds DEF Items
    <3>2. \A x : x \in Past' <=> /\ x \in spent
                                 /\ \A u \in users : u.id # x
                                 /\ \A s \in sessions : s.id # x \/ s.user = user
                                 /\ \A c \in chirps : c.id # x
      BY <2>1 DEF Past, IdsOf
    <3>3. ASSUME NEW x, x \in Past' PROVE x \in Past \/ x \in S \cap Tables!Ids(Items)
      BY <3>1, <3>2, <3>3, <2>2, PastIds
    <3>4. ASSUME NEW x, x \in Past PROVE x \in Past'
      BY <3>2, <3>4, PastIds
    <3>5. ASSUME NEW x \in S PROVE x \in Past'
      BY <3>2, <2>2, <2>6, <2>t, IdsAreDistinct
    <3>. QED BY <3>3, <3>4, <3>5
  <2>12. Tables!Detach(S)
    BY <2>8, <2>9, <2>10, <2>11 DEF Tables!Detach
  <2>13. S \in SUBSET (SessionID \cup ChirpID)
    BY <2>3
  <2>. QED BY <2>12, <2>13 DEF Tables!Step
<1>. QED BY <1>1, <1>2

\* An INSERT into chirps attaches an item.
LEMMA CreateChirpMaps ==
    ASSUME Sound, NEW o, NEW user, CreateChirp(o, user)
    PROVE  Tables!Step
<1>1. CASE NoWrite
  BY <1>1, NoWriteMaps
<1>2. CASE ~NoWrite
  <2>1. PICK id \in ChirpID :
           /\ id \notin spent
           /\ chirps' = chirps \cup {[id |-> id, user |-> user]}
           /\ spent' = spent \cup {id}
    BY <1>2 DEF CreateChirp, Fresh, Insert
  <2>2. users' = users /\ sessions' = sessions /\ UserExists(user)
    BY <1>2 DEF CreateChirp
  <2>3. Items' = Items \cup {[id |-> id, user |-> user]}
    BY <2>1, <2>2 DEF Items
  <2>4. Accounts' = Accounts /\ Revoked' = Revoked
    BY <2>2 DEF Accounts, Revoked
  <2>5. Past' = Past
    <3>1. PICK n : n.id = id /\ chirps' = chirps \cup {n}
      BY <2>1
    <3>2. IdsOf(chirps)' = IdsOf(chirps) \cup {id}
      BY <3>1 DEF IdsOf
    <3>3. IdsOf(users)' = IdsOf(users) /\ IdsOf(sessions)' = IdsOf(sessions)
      BY <2>2 DEF IdsOf
    <3>. QED BY <3>2, <3>3, <2>1 DEF Past
  <2>6. id \notin Tables!Ids(Items) \cup Past
    <3>1. \A x : x \in Tables!Ids(Items) <=> \/ \E s \in sessions : s.id = x
                                             \/ \E c \in chirps : c.id = x
      BY ItemIds DEF Items
    <3>. QED BY <3>1, <2>1 DEF Past, Sound, TablesOK, RowsSpent
  <2>7. user \in Tables!Ids(Accounts) /\ user \in UserID
    BY <2>2, AccountIds DEF Accounts, UserExists, Sound, DBTypeOK, UserRow
  <2>8. Tables!Attach(id, user)
    BY <2>3, <2>4, <2>5, <2>6, <2>7 DEF Tables!Attach
  <2>. QED BY <2>7, <2>8 DEF Tables!Step
<1>. QED BY <1>1, <1>2

\* A DELETE from chirps detaches an item, if there is one.
LEMMA DeleteChirpMaps ==
    ASSUME Sound, NEW o, NEW id \in ChirpID, DeleteChirp(o, id)
    PROVE  Tables!Step
<1>1. CASE NoWrite
  BY <1>1, NoWriteMaps
<1>2. CASE ~NoWrite
  <2>1. /\ chirps' = {c \in chirps : c.id # id}
        /\ users' = users /\ sessions' = sessions /\ spent' = spent
    BY <1>2 DEF DeleteChirp
  <2>t. /\ \A u \in users : u.id \in UserID
        /\ \A s \in sessions : s.id \in SessionID
        /\ \A c \in chirps : c.id \in ChirpID /\ c.id \in spent
    BY DEF Sound, DBTypeOK, UserRow, SessionRow, ChirpRow, TablesOK, RowsSpent
  <2>2. Items' = {i \in Items : i.id \notin {id}}
    BY <2>1, <2>t, IdsAreDistinct DEF Items
  <2>3. Accounts' = Accounts
    BY <2>1 DEF Accounts
  <2>4. Revoked' = Revoked \ {id}
    BY <2>1, <2>t, IdsAreDistinct DEF Revoked
  <2>5. Past' = Past \cup ({id} \cap Tables!Ids(Items))
    <3>1. \A x : x \in Tables!Ids(Items) <=> \/ \E s \in sessions : s.id = x
                                             \/ \E c \in chirps : c.id = x
      BY ItemIds DEF Items
    <3>2. \A x : x \in Past' <=> /\ x \in spent
                                 /\ \A u \in users : u.id # x
                                 /\ \A s \in sessions : s.id # x
                                 /\ \A c \in chirps : c.id = x => x = id
      BY <2>1 DEF Past, IdsOf
    <3>3. ASSUME NEW x, x \in Past', x # id PROVE x \in Past
      BY <3>2, <3>3, PastIds
    <3>6. ASSUME id \in Past', id \notin Past PROVE id \in Tables!Ids(Items)
      BY <3>1, <3>2, <3>6, PastIds
    <3>4. ASSUME NEW x PROVE x \in Past => x \in Past'
      BY <3>2, PastIds
    <3>5. id \in Tables!Ids(Items) => id \in Past'
      BY <3>1, <3>2, <2>t, IdsAreDistinct
    <3>. QED BY <3>3, <3>4, <3>5, <3>6
  <2>6. Tables!Detach({id})
    BY <2>2, <2>3, <2>4, <2>5 DEF Tables!Detach
  <2>. QED BY <2>6 DEF Tables!Step
<1>. QED BY <1>1, <1>2
=============================================================================
