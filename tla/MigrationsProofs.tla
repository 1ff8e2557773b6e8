-------------------------- MODULE MigrationsProofs --------------------------
(***************************************************************************)
(* Any number of processes run `migrate up` at once, are interrupted any   *)
(* number of times, and a developer rolls back at any time: until a        *)
(* rollback falls into a run the schema is the one of the first few        *)
(* versions, a run under which nothing is rolled back and that succeeds    *)
(* leaves all of them applied, and runs that are left alone do not stop    *)
(* each other half way.                                                    *)
(***************************************************************************)
EXTENDS Migrations, TLAPS

Results == {"none", "failed", "applied"}

Processes ==
    [at : {"off"}, result : Results]
    \cup [at : {"list"}, command : {"up", "status"}]
    \cup [at : {"apply"}, todo : SUBSET Version, undone : BOOLEAN]

TypesOK ==
    /\ process \in [Migrator -> Processes]
    /\ row \in [Version -> Nat]
    /\ rolling \in {0} \cup Version
    /\ crossed \in BOOLEAN
    /\ interrupts \in Nat /\ downs \in Nat

\* Until a rollback falls into a run, the rows are in the order of the versions.
RowsInOrder ==
    ~crossed => \A v \in Recorded, w \in Recorded : v < w => row[v] < row[w]

\* What a rollback is about to undo stays recorded until it does.
RollsBackARow ==
    /\ rolling # 0 => rolling \in Recorded
    /\ downs = 0 => rolling = 0 /\ ~crossed

\* Somebody has run all that a run no longer has to, unless a rollback fell into
\* it; until one does, what is left is a tail of the versions.
RestIsDone ==
    \A m \in Migrator : Applying(m) =>
        /\ ~process[m].undone => Version \ process[m].todo \subseteq Recorded
        /\ ~crossed => ~process[m].undone /\ \E k \in 1 .. 7 : process[m].todo = k .. 6

\* The last run of m has answered for the schema.
Concluded(m) == process[m].at = "off" /\ process[m].result \in {"applied", "failed"}

\* Of the runs that started, one has not fallen behind: what it still has to
\* run is exactly what is missing. A run fails only when it is behind.
SomebodyLeads ==
    (/\ interrupts = 0 /\ downs = 0 /\ Recorded # Version
     /\ \/ Recorded # {}
        \/ \E m \in Migrator : Applying(m) \/ Concluded(m))
    => \E m \in Migrator : Applying(m) /\ process[m].todo = Version \ Recorded

RowsInv == SchemaIsRecorded /\ RowsInOrder /\ RollsBackARow

IInv == TypesOK /\ RowsInv /\ RestIsDone /\ SomebodyLeads

-----------------------------------------------------------------------------
(* The scripts.                                                            *)

LEMMA MinOfTail == ASSUME NEW k \in 1 .. 6 PROVE Min(k .. 6) = k
<1>1. k \in k .. 6 /\ \A y \in k .. 6 : k =< y
  OBVIOUS
<1>2. \A x \in k .. 6 : (\A y \in k .. 6 : x =< y) => x = k
  BY <1>1
<1>. QED BY <1>1, <1>2 DEF Min

LEMMA MinOfSome == ASSUME NEW S \in SUBSET Version, S # {} PROVE Min(S) \in S
<1>1. \E x \in S : \A y \in S : x =< y
  <2>1. \A x \in S : x = 1 \/ x = 2 \/ x = 3 \/ x = 4 \/ x = 5 \/ x = 6
    BY DEF Version
  <2>2. CASE 1 \in S  BY <2>1, <2>2
  <2>3. CASE 1 \notin S /\ 2 \in S  BY <2>1, <2>3
  <2>4. CASE 1 \notin S /\ 2 \notin S /\ 3 \in S  BY <2>1, <2>4
  <2>5. CASE {1, 2, 3} \cap S = {} /\ 4 \in S  BY <2>1, <2>5
  <2>6. CASE {1, 2, 3, 4} \cap S = {} /\ 5 \in S  BY <2>1, <2>6
  <2>7. CASE {1, 2, 3, 4, 5} \cap S = {} /\ 6 \in S  BY <2>1, <2>7
  <2>. QED BY <2>1, <2>2, <2>3, <2>4, <2>5, <2>6, <2>7
<1>. QED BY <1>1 DEF Min

LEMMA AddsAre ==
    /\ Adds(1) = {"users"}
    /\ Adds(2) = {"chirps"}
    /\ Adds(3) = {"users.password"}
    /\ Adds(4) = {"user_sessions"}
    /\ Adds(5) = {"users.is_chirpy_red_member"}
    /\ Adds(6) = {"is_chirpy_red_member NOT NULL"}
BY DEF Adds

\* The schema is made of a disjoint part of each version.
LEMMA AddsDisjoint ==
    ASSUME NEW v \in Version, NEW w \in Version, v # w
    PROVE  Adds(v) \cap Adds(w) = {} /\ Adds(v) # {}
<1>1. /\ v = 1 \/ v = 2 \/ v = 3 \/ v = 4 \/ v = 5 \/ v = 6
      /\ w = 1 \/ w = 2 \/ w = 3 \/ w = 4 \/ w = 5 \/ w = 6
  BY DEF Version
<1>2. CASE v = 1  BY <1>1, <1>2, AddsAre
<1>3. CASE v = 2  BY <1>1, <1>3, AddsAre
<1>4. CASE v = 3  BY <1>1, <1>4, AddsAre
<1>5. CASE v = 4  BY <1>1, <1>5, AddsAre
<1>6. CASE v = 5  BY <1>1, <1>6, AddsAre
<1>7. CASE v = 6  BY <1>1, <1>7, AddsAre
<1>. QED BY <1>1, <1>2, <1>3, <1>4, <1>5, <1>6, <1>7

LEMMA SchemaGrows ==
    ASSUME NEW n \in 0 .. 5
    PROVE  /\ 1 .. n + 1 = (1 .. n) \cup {n + 1}
           /\ SchemaOf(1 .. n + 1) = SchemaOf(1 .. n) \cup Adds(n + 1)
           /\ SchemaOf(1 .. n) \cap Adds(n + 1) = {}
           /\ SchemaOf(1 .. n + 1) \ Adds(n + 1) = SchemaOf(1 .. n)
<1>1. 1 .. n + 1 = (1 .. n) \cup {n + 1}
  OBVIOUS
<1>2. SchemaOf(1 .. n + 1) = SchemaOf(1 .. n) \cup Adds(n + 1)
  BY <1>1 DEF SchemaOf
<1>3. \A v \in 1 .. n : Adds(v) \cap Adds(n + 1) = {}
  BY AddsDisjoint DEF Version
<1>4. SchemaOf(1 .. n) \cap Adds(n + 1) = {}
  BY <1>3 DEF SchemaOf
<1>. QED BY <1>1, <1>2, <1>4

\* On the schema of the first n versions the script of the next one succeeds.
LEMMA NextSucceeds ==
    ASSUME NEW n \in 0 .. 5, schema = SchemaOf(1 .. n)
    PROVE  UpSucceeds(n + 1)
<1>1. SchemaOf(1 .. n) \cap Adds(n + 1) = {}
  BY SchemaGrows
<1>2. \A v \in 1 .. n : Adds(v) \subseteq schema
  BY DEF SchemaOf
<1>3. n >= 1 => "users" \in schema
  <2>1. n >= 1 => 1 \in 1 .. n
    OBVIOUS
  <2>. QED BY <1>2, <2>1, AddsAre
<1>4. n >= 5 => "users.is_chirpy_red_member" \in schema
  <2>1. n >= 5 => 5 \in 1 .. n
    OBVIOUS
  <2>. QED BY <1>2, <2>1, AddsAre
<1>5. Needs(n + 1) \subseteq schema
  BY <1>3, <1>4 DEF Needs
<1>. QED BY <1>1, <1>5 DEF UpSucceeds

\* Those before it fail, but for the last, which changes nothing.
LEMMA DoneFails ==
    ASSUME NEW n \in 0 .. 6, schema = SchemaOf(1 .. n), NEW v \in 1 .. n, UpSucceeds(v)
    PROVE  v = 6 /\ n = 6 /\ Adds(v) \subseteq schema
<1>1. Adds(v) \subseteq schema
  BY DEF SchemaOf
<1>2. Adds(v) # {}
  <2>1. v = 1 \/ v = 2 \/ v = 3 \/ v = 4 \/ v = 5 \/ v = 6
    OBVIOUS
  <2>. QED BY <2>1, AddsAre
<1>. QED BY <1>1, <1>2 DEF UpSucceeds

\* A Down script that succeeds takes away all that its Up script added, and of
\* the others only columns of a table that goes.
LEMMA DropsAre ==
    ASSUME NEW v \in Version, DownSucceeds(v), schema \subseteq SchemaOf(Version)
    PROVE  /\ Adds(v) \subseteq Drops(v)
           /\ v = 1 => schema \ Drops(v) = {}
           /\ v # 1 => Drops(v) = Adds(v)
<1>1. CASE v = 1
  <2>1. Drops(v) = SchemaOf(Version) \ {"chirps", "user_sessions"}
    BY <1>1 DEF Drops
  <2>2. {"chirps", "user_sessions"} \cap schema = {}
    BY <1>1 DEF DownSucceeds
  <2>3. Adds(v) \subseteq SchemaOf(Version)
    BY DEF SchemaOf
  <2>4. Adds(v) = {"users"}
    BY <1>1, AddsAre
  <2>. QED BY <1>1, <2>1, <2>2, <2>3, <2>4
<1>2. CASE v # 1
  BY <1>2 DEF Drops
<1>. QED BY <1>1, <1>2

-----------------------------------------------------------------------------
(* The rows.                                                               *)

LEMMA NextRowIsNew ==
    ASSUME row \in [Version -> Nat]
    PROVE  NextRow \in Nat \ {0} /\ \A v \in Version : row[v] < NextRow
<1>. DEFINE S == {row[v] : v \in Version}
<1>1. \E x \in S : \A y \in S : y =< x
  <2>1. \A v \in Version : v = 1 \/ v = 2 \/ v = 3 \/ v = 4 \/ v = 5 \/ v = 6
    BY DEF Version
  <2>2. \A v \in Version : row[v] \in Nat
    OBVIOUS
  <2>3. {1, 2, 3, 4, 5, 6} \subseteq Version
    BY DEF Version
  <2>4. PICK a \in {1, 2} : row[1] =< row[a] /\ row[2] =< row[a]
    BY <2>2, <2>3
  <2>5. PICK b \in {a, 3} : row[a] =< row[b] /\ row[3] =< row[b]
    BY <2>2, <2>3, <2>4
  <2>6. PICK c \in {b, 4} : row[b] =< row[c] /\ row[4] =< row[c]
    BY <2>2, <2>3, <2>4, <2>5
  <2>7. PICK d \in {c, 5} : row[c] =< row[d] /\ row[5] =< row[d]
    BY <2>2, <2>3, <2>4, <2>5, <2>6
  <2>8. PICK e \in {d, 6} : row[d] =< row[e] /\ row[6] =< row[e]
    BY <2>2, <2>3, <2>4, <2>5, <2>6, <2>7
  <2>9. {a, b, c, d, e} \subseteq Version
    BY <2>3, <2>4, <2>5, <2>6, <2>7, <2>8
  <2>10. /\ row[1] =< row[e] /\ row[2] =< row[e] /\ row[3] =< row[e]
         /\ row[4] =< row[e] /\ row[5] =< row[e] /\ row[6] =< row[e]
    BY <2>2, <2>3, <2>4, <2>5, <2>6, <2>7, <2>8, <2>9
  <2>. QED BY <2>1, <2>9, <2>10
<1>2. Max(S) \in S /\ \A y \in S : y =< Max(S)
  BY <1>1 DEF Max
<1>3. \A v \in Version : row[v] \in S /\ row[v] \in Nat
  OBVIOUS
<1>4. Max(S) \in Nat
  BY <1>2
<1>5. NextRow = 1 + Max(S)
  BY DEF NextRow
<1>. HIDE DEF S
<1>. QED BY <1>2, <1>3, <1>4, <1>5

LEMMA RecordedGrows ==
    ASSUME row \in [Version -> Nat], NEW v \in Version, row' = [row EXCEPT ![v] = NextRow]
    PROVE  /\ Recorded' = Recorded \cup {v}
           /\ SchemaOf(Recorded)' = SchemaOf(Recorded) \cup Adds(v)
<1>1. NextRow # 0
  BY NextRowIsNew
<1>2. Recorded' = Recorded \cup {v}
  BY <1>1 DEF Recorded
<1>. QED BY <1>2 DEF SchemaOf

\* In a schema of the first few versions the last row is that of the latest.
LEMMA LastIsLatest ==
    ASSUME TypesOK, RowsInv, ~crossed, NEW v \in Recorded, InsertedLast(v)
    PROVE  Recorded = 1 .. v
<1>1. PICK n \in 0 .. 6 : Recorded = 1 .. n
  BY DEF RowsInv, SchemaIsRecorded
<1>2. \A w \in Recorded : ~(v < w)
  <2>1. SUFFICES ASSUME NEW w \in Recorded, v < w PROVE FALSE
    OBVIOUS
  <2>2. row[v] < row[w]
    BY <2>1 DEF RowsInv, RowsInOrder
  <2>3. row[w] =< row[v] /\ row[v] \in Nat /\ row[w] \in Nat
    BY <2>1 DEF InsertedLast, Recorded, TypesOK
  <2>. QED BY <2>2, <2>3
<1>3. n \in 1 .. n \/ n = 0
  BY <1>1
<1>. QED BY <1>1, <1>2, <1>3

-----------------------------------------------------------------------------
(* The steps.                                                              *)

\* What only the rows, the schema and the rollback tell is kept without them.
LEMMA RowsKept ==
    ASSUME RowsInv, UNCHANGED <<schema, row, rolling, crossed>>, downs' = downs
    PROVE  RowsInv' /\ Recorded' = Recorded
BY DEF RowsInv, SchemaIsRecorded, RowsInOrder, RollsBackARow, Recorded, SchemaOf

LEMMA StartKeeps ==
    ASSUME IInv, NEW m \in Migrator, Start(m) PROVE IInv'
<1>1. process[m].at = "off"
  BY DEF Start, Running
<1>2. PICK p \in Processes :
          /\ p.at # "apply" /\ ~(p.at = "off" /\ p.result \in {"applied", "failed"})
          /\ process' = [process EXCEPT ![m] = p]
  <2>1. CASE process' = [process EXCEPT ![m] = [at |-> "list", command |-> "up"]]
    BY <2>1 DEF Processes
  <2>2. CASE process' = [process EXCEPT ![m] = [at |-> "list", command |-> "status"]]
    BY <2>2 DEF Processes
  <2>3. CASE End(m, "none")
    BY <2>3 DEF Processes, End, Off, Results
  <2>. QED BY <2>1, <2>2, <2>3 DEF Start
<1>3. UNCHANGED <<schema, row, rolling, crossed, interrupts, downs>>
  BY DEF Start
<1>4. TypesOK'
  BY <1>2, <1>3 DEF IInv, TypesOK
<1>5. RowsInv' /\ Recorded' = Recorded
  BY <1>3, RowsKept DEF IInv
<1>6. \A o \in Migrator : o # m => process'[o] = process[o]
  BY <1>2 DEF IInv, TypesOK
<1>7. process'[m].at # "apply" /\ ~Concluded(m)'
  BY <1>2 DEF IInv, TypesOK, Concluded
<1>8. RestIsDone'
  BY <1>3, <1>5, <1>6, <1>7 DEF IInv, RestIsDone, Applying
<1>9. SomebodyLeads'
  BY <1>1, <1>3, <1>5, <1>6, <1>7 DEF IInv, SomebodyLeads, Applying, Concluded
<1>. QED BY <1>4, <1>5, <1>8, <1>9 DEF IInv

LEMMA EndKeeps ==
    ASSUME IInv, NEW m \in Migrator, NEW r \in Results, End(m, r),
           UNCHANGED <<schema, row, rolling, crossed, downs>>, interrupts' \in Nat,
           SomebodyLeads'
    PROVE  IInv'
<1>1. /\ process'[m] = [at |-> "off", result |-> r]
      /\ \A o \in Migrator : o # m => process'[o] = process[o]
  BY DEF IInv, TypesOK, End, Off
<1>2. TypesOK'
  <2>1. [at |-> "off", result |-> r] \in Processes
    BY DEF Processes
  <2>. QED BY <1>1, <2>1 DEF IInv, TypesOK, End, Off
<1>3. RowsInv' /\ Recorded' = Recorded
  BY RowsKept DEF IInv
<1>4. RestIsDone'
  BY <1>1, <1>3 DEF IInv, RestIsDone, Applying
<1>. QED BY <1>2, <1>3, <1>4 DEF IInv

LEMMA ListKeeps ==
    ASSUME IInv, NEW m \in Migrator, List(m) PROVE IInv'
<1>1. process[m].at = "list" /\ UNCHANGED <<schema, row, rolling, crossed, interrupts, downs>>
  BY DEF List
<1>2. RowsInv' /\ Recorded' = Recorded
  BY <1>1, RowsKept DEF IInv
<1>3. ~crossed => /\ \E k \in 1 .. 7 : Version \ Recorded = k .. 6
                  /\ ~(\E v \in Pending(Recorded), w \in Recorded : v < w)
  <2>1. SUFFICES ASSUME ~crossed
                 PROVE  /\ \E k \in 1 .. 7 : Version \ Recorded = k .. 6
                        /\ ~(\E v \in Pending(Recorded), w \in Recorded : v < w)
    OBVIOUS
  <2>2. PICK n \in 0 .. 6 : Recorded = 1 .. n
    BY <2>1 DEF IInv, RowsInv, SchemaIsRecorded
  <2>3. Version \ Recorded = n + 1 .. 6 /\ n + 1 \in 1 .. 7
    BY <2>2 DEF Version
  <2>. QED BY <2>2, <2>3 DEF Pending, Version
<1>4. ASSUME NEW r \in {"none", "failed"}, End(m, r), r = "none" \/ crossed PROVE IInv'
  <2>1. End(m, r) /\ (r = "none" \/ crossed)
    BY <1>4
  <2>2. /\ process'[m] = [at |-> "off", result |-> r]
        /\ \A o \in Migrator : o # m => process'[o] = process[o]
    BY <2>1 DEF IInv, TypesOK, End, Off
  <2>3. SomebodyLeads'
    <3>1. CASE r = "none"
      BY <1>1, <1>2, <2>2, <3>1 DEF IInv, SomebodyLeads, Applying, Concluded
    <3>2. CASE crossed
      BY <1>1, <3>2 DEF IInv, RowsInv, RollsBackARow, SomebodyLeads
    <3>. QED BY <2>1, <3>1, <3>2
  <2>. QED BY <1>1, <2>1, <2>3, EndKeeps DEF Results, IInv, TypesOK
<1>5. CASE process' = [process EXCEPT ![m] =
                          [at |-> "apply", todo |-> Pending(Recorded), undone |-> FALSE]]
  <2>. DEFINE p == [at |-> "apply", todo |-> Version \ Recorded, undone |-> FALSE]
  <2>1. /\ p \in Processes /\ p.at = "apply" /\ p.todo = Version \ Recorded /\ p.undone = FALSE
        /\ process' = [process EXCEPT ![m] = p]
    BY <1>5 DEF Processes, Pending
  <2>. HIDE DEF p
  <2>2. process'[m] = p /\ \A o \in Migrator : o # m => process'[o] = process[o]
    BY <2>1 DEF IInv, TypesOK
  <2>3. TypesOK'
    BY <1>1, <2>1 DEF IInv, TypesOK
  <2>4. Version \ p.todo \subseteq Recorded
    BY <2>1
  <2>5. RestIsDone'
    BY <1>1, <1>2, <1>3, <2>1, <2>2, <2>4 DEF IInv, RestIsDone, Applying
  <2>6. SomebodyLeads'
    BY <1>2, <2>1, <2>2 DEF SomebodyLeads, Applying
  <2>. QED BY <1>2, <2>3, <2>5, <2>6 DEF IInv
<1>6. CASE \E v \in Pending(Recorded), w \in Recorded : v < w
  <2>1. End(m, "none") \/ End(m, "failed")
    BY <1>6 DEF List
  <2>2. crossed
    BY <1>3, <1>6
  <2>3. CASE End(m, "none")
    BY <1>4, <2>3
  <2>4. CASE End(m, "failed")
    BY <1>4, <2>2, <2>4
  <2>. QED BY <2>1, <2>3, <2>4
<1>7. CASE ~(\E v \in Pending(Recorded), w \in Recorded : v < w)
  <2>1. \/ End(m, "none")
        \/ process' = [process EXCEPT ![m] =
                          [at |-> "apply", todo |-> Pending(Recorded), undone |-> FALSE]]
    BY <1>7 DEF List
  <2>. QED BY <1>4, <1>5, <2>1
<1>. QED BY <1>6, <1>7

\* In a schema of the first n versions a process runs the script that follows;
\* or SET NOT NULL once more; or it is behind and fails.
LEMMA ApplyInOrder ==
    ASSUME IInv, ~crossed, NEW m \in Migrator, Apply(m)
    PROVE  \E n \in 0 .. 6, k \in 1 .. 6 :
               /\ Recorded = 1 .. n /\ schema = SchemaOf(1 .. n)
               /\ process[m].todo = k .. 6 /\ Min(process[m].todo) = k
               /\ ~UpSucceeds(k) => k \in 1 .. n
               /\ UpSucceeds(k) => k = n + 1 \/ (k = 6 /\ n = 6 /\ Adds(k) \subseteq schema)
<1>1. PICK n \in 0 .. 6 : Recorded = 1 .. n /\ schema = SchemaOf(1 .. n)
  BY DEF IInv, RowsInv, SchemaIsRecorded
<1>2. PICK k \in 1 .. 7 : process[m].todo = k .. 6 /\ Version \ (k .. 6) \subseteq 1 .. n
  BY <1>1 DEF IInv, RestIsDone, Apply
<1>3. k \in 1 .. 6
  BY <1>2 DEF Apply
<1>4. k =< n + 1
  <2>1. CASE k = 1
    BY <2>1
  <2>2. CASE k # 1
    <3>1. k - 1 \in Version \ (k .. 6)
      BY <1>3, <2>2 DEF Version
    <3>. QED BY <1>2, <1>3, <3>1
  <2>. QED BY <2>1, <2>2
<1>5. Min(process[m].todo) = k
  BY <1>2, <1>3, MinOfTail
<1>6. k = n + 1 => UpSucceeds(k)
  <2>1. SUFFICES ASSUME k = n + 1 PROVE UpSucceeds(n + 1)
    OBVIOUS
  <2>2. n \in 0 .. 5
    BY <1>3, <2>1
  <2>. QED BY <1>1, <2>2, NextSucceeds
<1>7. UpSucceeds(k) => k = n + 1 \/ (k = 6 /\ n = 6 /\ Adds(k) \subseteq schema)
  <2>1. SUFFICES ASSUME UpSucceeds(k), k # n + 1
                 PROVE  k = 6 /\ n = 6 /\ Adds(k) \subseteq schema
    OBVIOUS
  <2>2. k \in 1 .. n
    BY <1>3, <1>4, <2>1
  <2>. QED BY <1>1, <2>1, <2>2, DoneFails
<1>8. ~UpSucceeds(k) => k \in 1 .. n
  BY <1>3, <1>4, <1>6
<1>. QED BY <1>1, <1>2, <1>3, <1>5, <1>7, <1>8

LEMMA ApplyKeeps ==
    ASSUME IInv, NEW m \in Migrator, Apply(m) PROVE IInv'
<1>. DEFINE v == Min(process[m].todo)
<1>1. /\ process[m].at = "apply" /\ UNCHANGED <<rolling, crossed, interrupts, downs>>
      /\ process[m] \in Processes /\ process \in [Migrator -> Processes]
      /\ row \in [Version -> Nat]
  BY DEF Apply, Applying, IInv, TypesOK
<1>2. /\ process[m] = [at |-> "apply", todo |-> process[m].todo, undone |-> process[m].undone]
      /\ process[m].todo \in SUBSET Version /\ process[m].undone \in BOOLEAN
  BY <1>1 DEF Processes
<1>3. v \in process[m].todo /\ v \in Version
  BY <1>2, MinOfSome DEF Apply
<1>4. CASE UpSucceeds(v)
  <2>1. /\ schema' = schema \cup Adds(v) /\ row' = [row EXCEPT ![v] = NextRow]
        /\ process' = [process EXCEPT ![m].todo = @ \ {v}]
    BY <1>4 DEF Apply
  <2>2. /\ process'[m] = [at |-> "apply", todo |-> process[m].todo \ {v},
                          undone |-> process[m].undone]
        /\ \A o \in Migrator : o # m => process'[o] = process[o]
    BY <1>1, <1>2, <2>1
  <2>3. /\ Recorded' = Recorded \cup {v}
        /\ SchemaOf(Recorded)' = SchemaOf(Recorded) \cup Adds(v)
    BY <1>1, <1>3, <2>1, RecordedGrows
  <2>4. NextRow \in Nat \ {0} /\ \A w \in Version : row[w] < NextRow
    BY <1>1, NextRowIsNew
  <2>5. ~crossed => \E n \in 0 .. 6 :
                        /\ Recorded = 1 .. n /\ schema = SchemaOf(Recorded)
                        /\ process[m].todo = v .. 6
                        /\ v = n + 1 \/ (v = 6 /\ n = 6 /\ Adds(v) \subseteq schema)
    BY <1>4, ApplyInOrder
  <2>. HIDE DEF v
  <2>6. TypesOK'
    <3>1. process'[m] \in Processes
      BY <1>2, <2>2 DEF Processes
    <3>2. process' \in [Migrator -> Processes]
      BY <1>1, <2>1, <2>2, <3>1
    <3>3. row' \in [Version -> Nat]
      BY <1>1, <2>1, <2>4
    <3>. QED BY <1>1, <3>2, <3>3 DEF IInv, TypesOK
  <2>7. SchemaIsRecorded'
    <3>1. schema' \subseteq SchemaOf(Recorded)'
      BY <2>1, <2>3 DEF IInv, RowsInv, SchemaIsRecorded
    <3>2. ASSUME ~crossed
          PROVE  (\E n \in 0 .. 6 : Recorded' = 1 .. n) /\ schema' = SchemaOf(Recorded)'
      <4>1. PICK n \in 0 .. 6 :
                /\ Recorded = 1 .. n /\ schema = SchemaOf(Recorded)
                /\ v = n + 1 \/ (v = 6 /\ n = 6 /\ Adds(v) \subseteq schema)
        BY <2>5, <3>2
      <4>2. schema' = SchemaOf(Recorded)'
        BY <2>1, <2>3, <4>1
      <4>3. CASE v = n + 1
        <5>1. (1 .. n) \cup {n + 1} = 1 .. n + 1 /\ n + 1 \in 0 .. 6
          BY <1>3, <4>3 DEF Version
        <5>. QED BY <2>3, <4>1, <4>2, <4>3, <5>1
      <4>4. CASE v = 6 /\ n = 6
        <5>1. (1 .. n) \cup {v} = 1 .. n
          BY <4>4
        <5>. QED BY <2>3, <4>1, <4>2, <5>1
      <4>. QED BY <4>1, <4>3, <4>4
    <3>. QED BY <1>1, <3>1, <3>2 DEF SchemaIsRecorded, SchemaOf, Recorded
  <2>8. RowsInOrder'
    <3>1. SUFFICES ASSUME ~crossed, NEW x \in Recorded', NEW y \in Recorded', x < y
                   PROVE  row'[x] < row'[y]
      BY <1>1 DEF RowsInOrder, Recorded
    <3>2. x \in Version /\ y \in Version /\ x \in Recorded \cup {v} /\ y \in Recorded \cup {v}
      BY <1>3, <2>3 DEF Recorded
    <3>3. PICK n \in 0 .. 6 : Recorded = 1 .. n /\ (v = n + 1 \/ (v = 6 /\ n = 6))
      BY <2>5, <3>1
    <3>4. x # v
      <4>1. SUFFICES ASSUME x = v PROVE FALSE
        OBVIOUS
      <4>2. y =< 6 /\ y \in Nat /\ v \in Nat /\ y # v
        BY <1>3, <3>1, <3>2, <4>1 DEF Version
      <4>3. y \in 1 .. n
        BY <3>2, <3>3, <4>2
      <4>. QED BY <3>1, <3>3, <4>1, <4>2, <4>3
    <3>5. CASE y = v
      BY <1>1, <2>1, <2>4, <3>2, <3>4, <3>5
    <3>6. CASE y # v
      <4>1. row'[x] = row[x] /\ row'[y] = row[y]
        BY <1>1, <2>1, <3>2, <3>4, <3>6
      <4>2. x \in Recorded /\ y \in Recorded
        BY <3>2, <3>4, <3>6
      <4>. QED BY <3>1, <4>1, <4>2 DEF IInv, RowsInv, RowsInOrder
    <3>. QED BY <3>5, <3>6
  <2>9. RollsBackARow'
    BY <1>1, <2>3 DEF IInv, RowsInv, RollsBackARow
  <2>10. RestIsDone'
    <3>1. ASSUME NEW o \in Migrator, Applying(o)', o # m
          PROVE  /\ ~process'[o].undone => Version \ process'[o].todo \subseteq Recorded'
                 /\ ~crossed => ~process'[o].undone /\ \E k \in 1 .. 7 : process'[o].todo = k .. 6
      <4>1. process'[o] = process[o] /\ Applying(o)
        BY <2>2, <3>1 DEF Applying
      <4>. QED BY <2>3, <4>1 DEF IInv, RestIsDone
    <3>2. /\ ~process[m].undone => Version \ process[m].todo \subseteq Recorded
          /\ ~crossed => ~process[m].undone
      BY <1>1 DEF IInv, RestIsDone, Applying
    <3>3. process'[m].todo = process[m].todo \ {v} /\ process'[m].undone = process[m].undone
      BY <2>2
    <3>4. ~process'[m].undone => Version \ process'[m].todo \subseteq Recorded'
      BY <2>3, <3>2, <3>3
    <3>5. ~crossed => \E k \in 1 .. 7 : process'[m].todo = k .. 6
      <4>1. SUFFICES ASSUME ~crossed PROVE \E k \in 1 .. 7 : process'[m].todo = k .. 6
        OBVIOUS
      <4>2. (v .. 6) \ {v} = v + 1 .. 6 /\ v + 1 \in 1 .. 7
        BY <1>3 DEF Version
      <4>. QED BY <2>5, <3>3, <4>1, <4>2
    <3>. QED BY <1>1, <3>1, <3>2, <3>3, <3>4, <3>5 DEF RestIsDone
  <2>11. SomebodyLeads'
    <3>1. SUFFICES ASSUME interrupts = 0, downs = 0, Recorded' # Version
                   PROVE  \E o \in Migrator : Applying(o)' /\ process'[o].todo = Version \ Recorded'
      BY <1>1 DEF SomebodyLeads, Recorded
    <3>2. ~crossed
      BY <3>1 DEF IInv, RowsInv, RollsBackARow
    <3>3. PICK n \in 0 .. 6 : /\ Recorded = 1 .. n /\ process[m].todo = v .. 6
                              /\ v = n + 1 \/ (v = 6 /\ n = 6)
      BY <2>5, <3>2
    <3>4. v = n + 1
      <4>1. SUFFICES ASSUME v = 6, n = 6 PROVE FALSE
        BY <3>3
      <4>2. 1 .. n = Version /\ Recorded' = Version
        BY <1>3, <2>3, <3>3, <4>1 DEF Version
      <4>. QED BY <3>1, <4>2
    <3>5. process'[m].todo = Version \ Recorded'
      <4>1. process'[m].todo = (v .. 6) \ {v} /\ Recorded' = (1 .. n) \cup {n + 1}
        BY <2>2, <2>3, <3>3, <3>4
      <4>. QED BY <3>4, <4>1 DEF Version
    <3>. QED BY <2>2, <3>5 DEF Applying
  <2>. QED BY <2>6, <2>7, <2>8, <2>9, <2>10, <2>11 DEF IInv, RowsInv
<1>5. CASE ~UpSucceeds(v)
  <2>1. End(m, "failed") /\ UNCHANGED <<schema, row>>
    BY <1>5 DEF Apply
  <2>2. /\ process'[m] = [at |-> "off", result |-> "failed"]
        /\ \A o \in Migrator : o # m => process'[o] = process[o]
    BY <1>1, <2>1 DEF End, Off
  <2>3. ~crossed => v \in Recorded
    BY <1>5, ApplyInOrder
  <2>. HIDE DEF v
  <2>4. SomebodyLeads'
    <3>1. SUFFICES ASSUME interrupts = 0, downs = 0, Recorded # Version
                   PROVE  \E o \in Migrator : Applying(o)' /\ process'[o].todo = Version \ Recorded
      BY <1>1, <2>1 DEF SomebodyLeads, Recorded
    <3>2. PICK o \in Migrator : Applying(o) /\ process[o].todo = Version \ Recorded
      BY <1>1, <3>1 DEF IInv, SomebodyLeads, Applying
    <3>3. ~crossed
      BY <3>1 DEF IInv, RowsInv, RollsBackARow
    <3>4. o # m
      BY <1>3, <2>3, <3>2, <3>3
    <3>. QED BY <2>2, <3>2, <3>4 DEF Applying
  <2>. QED BY <1>1, <2>1, <2>4, EndKeeps DEF Results, IInv, TypesOK
<1>. QED BY <1>4, <1>5

\* A process that has run all of its list finds everything recorded, unless a
\* rollback fell into the run.
LEMMA FinishedIsApplied ==
    ASSUME IInv, NEW m \in Migrator, Finish(m), ~process[m].undone PROVE Recorded = Version
<1>1. Version \subseteq Recorded
  BY DEF IInv, RestIsDone, Finish
<1>. QED BY <1>1 DEF Recorded

LEMMA FinishKeeps ==
    ASSUME IInv, NEW m \in Migrator, Finish(m) PROVE IInv'
<1>1. End(m, "applied") /\ UNCHANGED <<schema, row, rolling, crossed, interrupts, downs>>
  BY DEF Finish
<1>2. SomebodyLeads'
  <2>1. SUFFICES ASSUME downs = 0, Recorded # Version PROVE FALSE
    BY <1>1 DEF SomebodyLeads, Recorded
  <2>2. ~process[m].undone
    BY <2>1 DEF IInv, RowsInv, RollsBackARow, RestIsDone, Finish
  <2>. QED BY <2>1, <2>2, FinishedIsApplied
<1>. QED BY <1>1, <1>2, EndKeeps DEF Results, IInv, TypesOK

LEMMA InterruptKeeps ==
    ASSUME IInv, NEW m \in Migrator, Interrupt(m) PROVE IInv'
<1>1. /\ End(m, "none") /\ UNCHANGED <<schema, row, rolling, crossed, downs>>
      /\ interrupts' \in Nat /\ interrupts' # 0
  BY DEF Interrupt, IInv, TypesOK
<1>2. SomebodyLeads'
  BY <1>1 DEF SomebodyLeads
<1>. QED BY <1>1, <1>2, EndKeeps DEF Results

LEMMA RollBackKeeps ==
    ASSUME IInv, RollBack PROVE IInv'
<1>1. /\ downs' = downs + 1 /\ UNCHANGED <<schema, row, process, crossed, interrupts>>
      /\ downs' \in Nat /\ downs' # 0
  BY DEF RollBack, IInv, TypesOK
<1>2. PICK v \in Version : row[v] # 0 /\ rolling' = v
  BY DEF RollBack, InsertedLast
<1>3. TypesOK'
  BY <1>1, <1>2 DEF IInv, TypesOK
<1>4. RowsInv'
  BY <1>1, <1>2 DEF IInv, RowsInv, SchemaIsRecorded, RowsInOrder, RollsBackARow, Recorded, SchemaOf
<1>5. RestIsDone'
  BY <1>1 DEF IInv, RestIsDone, Applying, Recorded
<1>6. SomebodyLeads'
  BY <1>1 DEF SomebodyLeads
<1>. QED BY <1>3, <1>4, <1>5, <1>6 DEF IInv

LEMMA UndoKeeps ==
    ASSUME IInv, Undo PROVE IInv'
<1>1. /\ rolling' = 0 /\ UNCHANGED <<interrupts, downs>>
      /\ rolling \in Recorded /\ rolling \in Version /\ downs # 0 /\ downs \in Nat
  BY DEF Undo, IInv, TypesOK, RowsInv, RollsBackARow, Recorded
<1>2. SomebodyLeads'
  BY <1>1 DEF SomebodyLeads
<1>3. CASE UNCHANGED <<schema, row, process, crossed>>
  <2>1. TypesOK'
    BY <1>1, <1>3 DEF IInv, TypesOK
  <2>2. RowsInv'
    BY <1>1, <1>3 DEF IInv, RowsInv, SchemaIsRecorded, RowsInOrder, RollsBackARow, Recorded, SchemaOf
  <2>3. RestIsDone'
    BY <1>3 DEF IInv, RestIsDone, Applying, Recorded
  <2>. QED BY <1>2, <2>1, <2>2, <2>3 DEF IInv
<1>4. CASE /\ DownSucceeds(rolling)
           /\ schema' = schema \ Drops(rolling)
           /\ row' = [row EXCEPT ![rolling] = 0]
           /\ process' = [m \in Migrator |->
                             IF Applying(m) THEN [process[m] EXCEPT !.undone = TRUE] ELSE process[m]]
           /\ crossed' = (crossed \/ ~InsertedLast(rolling) \/ \E m \in Migrator : Applying(m))
  <2>. DEFINE v == rolling
  <2>1. Recorded' = Recorded \ {v} /\ \A w \in Version : w # v => row'[w] = row[w]
    BY <1>1, <1>4 DEF Recorded, IInv, TypesOK
  <2>2. SchemaOf(Recorded) \ Adds(v) = SchemaOf(Recorded)'
    <3>1. \A w \in Recorded \ {v} : Adds(w) \cap Adds(v) = {}
      BY <1>1, AddsDisjoint DEF Recorded
    <3>. QED BY <1>1, <2>1, <3>1 DEF SchemaOf
  <2>3. schema \subseteq SchemaOf(Version)
    BY DEF IInv, RowsInv, SchemaIsRecorded, SchemaOf, Recorded
  <2>4. /\ v = 1 => schema' = {}
        /\ v # 1 => schema' = schema \ Adds(v)
    BY <1>1, <1>4, <2>3, DropsAre
  <2>5. TypesOK'
    <3>1. ASSUME NEW m \in Migrator PROVE process'[m] \in Processes
      <4>1. process[m] \in Processes
        BY DEF IInv, TypesOK
      <4>2. CASE Applying(m)
        <5>1. process[m].todo \in SUBSET Version
          BY <4>1, <4>2 DEF Processes, Applying
        <5>2. process'[m] = [at |-> "apply", todo |-> process[m].todo, undone |-> TRUE]
          BY <1>4, <4>1, <4>2 DEF Processes, Applying
        <5>. QED BY <5>1, <5>2 DEF Processes
      <4>3. CASE ~Applying(m)
        BY <1>4, <4>1, <4>3
      <4>. QED BY <4>2, <4>3
    <3>2. process' \in [Migrator -> Processes]
      BY <1>4, <3>1
    <3>3. row' \in [Version -> Nat] /\ crossed' \in BOOLEAN
      BY <1>4 DEF IInv, TypesOK
    <3>. QED BY <1>1, <3>2, <3>3 DEF IInv, TypesOK
  <2>6. ~crossed' => ~crossed /\ InsertedLast(v) /\ \A m \in Migrator : ~Applying(m)
    BY <1>4
  <2>7. ~crossed' => Recorded = 1 .. v
    BY <1>1, <2>6, LastIsLatest DEF IInv
  <2>8. SchemaIsRecorded'
    <3>1. schema' \subseteq SchemaOf(Recorded)'
      <4>1. schema \subseteq SchemaOf(Recorded)
        BY DEF IInv, RowsInv, SchemaIsRecorded
      <4>. QED BY <2>2, <2>4, <4>1
    <3>2. ASSUME ~crossed'
          PROVE  (\E n \in 0 .. 6 : Recorded' = 1 .. n) /\ schema' = SchemaOf(Recorded)'
      <4>1. Recorded' = 1 .. v - 1 /\ v - 1 \in 0 .. 6
        BY <1>1, <2>1, <2>7, <3>2 DEF Version
      <4>2. schema = SchemaOf(Recorded)
        BY <2>6, <3>2 DEF IInv, RowsInv, SchemaIsRecorded
      <4>3. CASE v = 1
        <5>1. Recorded' = {}
          BY <4>1, <4>3
        <5>2. SchemaOf(Recorded)' = {}
          BY <5>1 DEF SchemaOf
        <5>. QED BY <2>4, <4>1, <4>3, <5>2
      <4>4. CASE v # 1
        BY <2>2, <2>4, <4>1, <4>2, <4>4
      <4>. QED BY <4>3, <4>4
    <3>. QED BY <3>1, <3>2 DEF SchemaIsRecorded, SchemaOf, Recorded
  <2>9. RowsInOrder'
    <3>1. SUFFICES ASSUME ~crossed', NEW x \in Recorded', NEW y \in Recorded', x < y
                   PROVE  row'[x] < row'[y]
      BY DEF RowsInOrder, Recorded
    <3>2. x \in Recorded /\ y \in Recorded /\ row'[x] = row[x] /\ row'[y] = row[y]
      BY <2>1, <3>1 DEF Recorded
    <3>. QED BY <2>6, <3>1, <3>2 DEF IInv, RowsInv, RowsInOrder
  <2>10. RollsBackARow'
    BY <1>1 DEF RollsBackARow
  <2>11. RestIsDone'
    <3>1. SUFFICES ASSUME NEW m \in Migrator, Applying(m)'
                   PROVE  process'[m].undone /\ crossed'
      BY DEF RestIsDone
    <3>2. Applying(m)
      BY <1>4, <3>1 DEF Applying
    <3>3. process'[m].undone = TRUE
      <4>1. process[m] \in Processes
        BY DEF IInv, TypesOK
      <4>. QED BY <1>4, <3>2, <4>1 DEF Applying, Processes
    <3>. QED BY <1>4, <3>2, <3>3
  <2>. QED BY <1>2, <2>5, <2>8, <2>9, <2>10, <2>11 DEF IInv, RowsInv
<1>. QED BY <1>3, <1>4 DEF Undo

-----------------------------------------------------------------------------
LEMMA Starts == Init => IInv
<1>. SUFFICES ASSUME Init PROVE IInv
  OBVIOUS
<1>1. TypesOK
  BY DEF Init, TypesOK, Off, Processes, Results
<1>2. Recorded = {}
  BY DEF Init, Recorded
<1>3. RowsInv
  <2>1. {} = 1 .. 0 /\ 0 \in 0 .. 6
    OBVIOUS
  <2>2. SchemaOf({}) = {}
    BY DEF SchemaOf
  <2>. QED BY <1>2, <2>1, <2>2 DEF Init, RowsInv, SchemaIsRecorded, RowsInOrder, RollsBackARow
<1>4. RestIsDone
  BY DEF Init, RestIsDone, Applying, Off
<1>5. SomebodyLeads
  BY <1>2 DEF Init, SomebodyLeads, Applying, Concluded, Off
<1>. QED BY <1>1, <1>3, <1>4, <1>5 DEF IInv

LEMMA Keeps == IInv /\ [Next]_vars => IInv'
<1>. SUFFICES ASSUME IInv, [Next]_vars PROVE IInv'
  OBVIOUS
<1>1. ASSUME NEW m \in Migrator, Start(m) PROVE IInv'
  BY <1>1, StartKeeps
<1>2. ASSUME NEW m \in Migrator, List(m) PROVE IInv'
  BY <1>2, ListKeeps
<1>3. ASSUME NEW m \in Migrator, Apply(m) PROVE IInv'
  BY <1>3, ApplyKeeps
<1>4. ASSUME NEW m \in Migrator, Finish(m) PROVE IInv'
  BY <1>4, FinishKeeps
<1>5. ASSUME NEW m \in Migrator, Interrupt(m) PROVE IInv'
  BY <1>5, InterruptKeeps
<1>6. CASE RollBack
  BY <1>6, RollBackKeeps
<1>7. CASE Undo
  BY <1>7, UndoKeeps
<1>8. CASE UNCHANGED vars
  BY <1>8 DEF vars, IInv, TypesOK, RowsInv, SchemaIsRecorded, RowsInOrder, RollsBackARow,
              Recorded, SchemaOf, RestIsDone, SomebodyLeads, Applying, Concluded
<1>. QED BY <1>1, <1>2, <1>3, <1>4, <1>5, <1>6, <1>7, <1>8 DEF Next, Continue

\* Only Finish lets a process that runs exit with 0.
LEMMA OnlyFinishSucceeds ==
    ASSUME IInv, [Next]_vars, NEW m \in Migrator,
           Applying(m), ~process[m].undone, process'[m] = Off("applied")
    PROVE  Recorded' = Version
<1>. process \in [Migrator -> Processes] /\ process[m].at = "apply"
  BY DEF IInv, TypesOK, Applying
<1>1. ASSUME NEW o \in Migrator, Start(o) PROVE process'[m].at = "apply"
  BY <1>1 DEF Start, Running, End
<1>2. ASSUME NEW o \in Migrator, List(o) PROVE process'[m].at = "apply"
  BY <1>2 DEF List, Running, End
<1>3. ASSUME NEW o \in Migrator, Apply(o)
      PROVE  process'[m].at = "apply" \/ process'[m].result = "failed"
  <2>1. process' = [process EXCEPT ![o] = Off("failed")]
        \/ \E t : process' = [process EXCEPT ![o].todo = t]
    BY <1>3 DEF Apply, End
  <2>. QED BY <2>1 DEF Off
<1>4. ASSUME NEW o \in Migrator, Finish(o), o = m PROVE Recorded' = Version
  BY <1>4, FinishedIsApplied DEF Finish, Recorded
<1>5. ASSUME NEW o \in Migrator, Finish(o), o # m PROVE process'[m].at = "apply"
  BY <1>5 DEF Finish, End
<1>6. ASSUME NEW o \in Migrator, Interrupt(o)
      PROVE  process'[m].at = "apply" \/ process'[m].result = "none"
  BY <1>6 DEF Interrupt, End, Off
<1>7. CASE RollBack
  BY <1>7 DEF RollBack, Off
<1>8. CASE Undo
  <2>1. process'[m] = process[m] \/ process'[m] = [process[m] EXCEPT !.undone = TRUE]
    BY <1>8 DEF Undo
  <2>2. process'[m].at = "apply"
    BY <2>1 DEF Processes
  <2>. QED BY <2>2 DEF Off
<1>9. CASE UNCHANGED vars
  BY <1>9 DEF vars, Off
<1>. QED BY <1>1, <1>2, <1>3, <1>4, <1>5, <1>6, <1>7, <1>8, <1>9 DEF Next, Continue, Off

LEMMA InvariantHolds == Spec => []IInv
BY Starts, Keeps, PTL DEF Spec

(***************************************************************************)
(* For any number of `migrate up` at once, of interrupts and of rollbacks  *)
(* at any time, nothing is in the schema that is not recorded; and as long *)
(* as no rollback has fallen into a run the recorded versions are the      *)
(* first few, and the schema is what their scripts make.                   *)
(***************************************************************************)
THEOREM RecordCorrect == Spec => []SchemaIsRecorded
<1>1. IInv => SchemaIsRecorded
  BY DEF IInv, RowsInv
<1>. QED BY <1>1, InvariantHolds, PTL

(***************************************************************************)
(* A run that exits with 0 leaves every migration applied, whoever ran     *)
(* the scripts, unless a rollback succeeded while it was running them.     *)
(***************************************************************************)
THEOREM UpMeansAppliedCorrect == Spec => UpMeansApplied
<1>1. IInv /\ [Next]_vars =>
          [\A m \in Migrator : Applying(m) /\ ~process[m].undone /\ process'[m] = Off("applied")
                                   => Recorded' = Version]_vars
  BY OnlyFinishSucceeds
<1>. QED BY <1>1, InvariantHolds, PTL DEF Spec, UpMeansApplied

(***************************************************************************)
(* However many runs fail on each other's scripts, as long as nobody       *)
(* interrupts or rolls back one of them gets all the way: the leader never *)
(* runs a script that was run already.                                     *)
(***************************************************************************)
THEOREM GetsThroughCorrect == Spec => []SomebodyGetsThrough
<1>1. IInv => SomebodyGetsThrough
  <2>1. SUFFICES ASSUME IInv, interrupts = 0, downs = 0,
                        \A m \in Migrator : ~Running(m),
                        NEW o \in Migrator, process[o].result \in {"applied", "failed"}
                 PROVE  Recorded = Version
    BY DEF SomebodyGetsThrough
  <2>2. \A m \in Migrator : ~Applying(m)
    BY <2>1 DEF Running, Applying
  <2>3. Concluded(o)
    BY <2>1 DEF Running, Concluded
  <2>. QED BY <2>1, <2>2, <2>3 DEF IInv, SomebodyLeads
<1>. QED BY <1>1, InvariantHolds, PTL
=============================================================================
