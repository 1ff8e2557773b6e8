----------------------------- MODULE Migrations -----------------------------
(***************************************************************************)
(* `chirpy migrate up` (cmd/chirpy, internal/operations) over the scripts  *)
(* of internal/postgres/schema/migrations, run by any number of processes  *)
(* at once, as when a deployment starts several. goose is external: the    *)
(* provider is made without a session locker, so it lists the versions     *)
(* that are recorded, and then runs each script that was missing in a      *)
(* transaction of its own, with the row that records it. `make             *)
(* sql-migrate-down` looks up the row that was inserted last and runs the  *)
(* Down script of its version; nothing keeps it away from migrators.       *)
(***************************************************************************)
EXTENDS Naturals, FiniteSets, FiniteSetsExt

CONSTANTS Migrator,                     \* processes
          MaxInterrupts, MaxDowns       \* bounds of the model

ASSUME BoundsAreNatural == MaxInterrupts \in Nat /\ MaxDowns \in Nat

Version == 1 .. 6

VARIABLES schema,      \* tables, columns and constraints that exist
          row,         \* version -> number of its row in goose_db_version, or 0
          process,     \* migrator -> where it is, or how its last run ended
          rolling,     \* the version that a rollback is about to undo, or 0
          crossed,     \* history: a rollback and a run have undone each other's work
          interrupts, downs

vars == <<schema, row, process, rolling, crossed, interrupts, downs>>

-----------------------------------------------------------------------------
\* Mutant: a script uses a column that a later one adds.
NeedsLater(v) == CASE v = 1 -> {} [] v = 2 -> {"users.password"} [] OTHER -> {"users"}

\* What the Up script of each version needs, what it must not find, and adds.
Needs(v) == CASE v = 1 -> {} [] v = 6 -> {"users.is_chirpy_red_member"} [] OTHER -> {"users"}

Adds(v) == CASE v = 1 -> {"users"}
             [] v = 2 -> {"chirps"}
             [] v = 3 -> {"users.password"}
             [] v = 4 -> {"user_sessions"}
             [] v = 5 -> {"users.is_chirpy_red_member"}
             [] v = 6 -> {"is_chirpy_red_member NOT NULL"}

\* CREATE TABLE and ADD COLUMN are refused the second time, SET NOT NULL is not.
UpSucceeds(v) == Needs(v) \subseteq schema /\ (v = 6 \/ Adds(v) \cap schema = {})

SchemaOf(V) == UNION {Adds(v) : v \in V}

\* ADD COLUMN IF EXISTS, in two of the Down scripts, is not SQL. A table goes
\* only when no other refers to it, and a column must be there to be changed.
DownSucceeds(v) ==
    \/ v = 1 /\ {"chirps", "user_sessions"} \cap schema = {} /\ "users" \in schema
    \/ v \in {2, 4} /\ Adds(v) \subseteq schema
    \/ v = 6 /\ "users.is_chirpy_red_member" \in schema

\* DROP TABLE users takes its columns along, whichever script added them.
Drops(v) == IF v = 1 THEN SchemaOf(Version) \ {"chirps", "user_sessions"} ELSE Adds(v)

Recorded == {v \in Version : row[v] # 0}
NextRow == 1 + Max({row[v] : v \in Version})

\* Nobody has inserted a row since that of v.
InsertedLast(v) == row[v] # 0 /\ \A w \in Version : row[w] =< row[v]

\* How a run ended: "applied" or "failed", or without a word about the schema.
Off(result) == [at |-> "off", result |-> result]

Init ==
    /\ schema = {} /\ row = [v \in Version |-> 0]
    /\ process = [m \in Migrator |-> Off("none")]
    /\ rolling = 0 /\ crossed = FALSE
    /\ interrupts = 0 /\ downs = 0

Running(m) == process[m].at # "off"
Applying(m) == process[m].at = "apply"
End(m, result) == process' = [process EXCEPT ![m] = Off(result)]

-----------------------------------------------------------------------------
\* main takes the command; Run knows "up" and "status".
Start(m) ==
    /\ ~Running(m)
    /\ \/ process' = [process EXCEPT ![m] = [at |-> "list", command |-> "up"]]
       \/ process' = [process EXCEPT ![m] = [at |-> "list", command |-> "status"]]
       \/ End(m, "none")
    /\ UNCHANGED <<schema, row, rolling, crossed, interrupts, downs>>

Pending(done) == Version \ done

\* What is missing is read once, before the first script. goose refuses to
\* fill a gap below the latest version. `undone` is history: a rollback has
\* succeeded since.
List(m) ==
    LET missing == Pending(Recorded) IN
    /\ Running(m) /\ process[m].at = "list"
    /\ \/ process[m].command = "status" /\ End(m, "none")
       \/ /\ process[m].command = "up"
          /\ IF \E v \in missing, w \in Recorded : v < w
             THEN End(m, "failed")
             ELSE process' = [process EXCEPT ![m] =
                                 [at |-> "apply", todo |-> missing, undone |-> FALSE]]
    /\ UNCHANGED <<schema, row, rolling, crossed, interrupts, downs>>

\* One transaction: the script and its record, or an error that ends the run.
Apply(m) ==
    /\ Applying(m) /\ process[m].todo # {}
    /\ LET v == Min(process[m].todo) IN
       IF UpSucceeds(v)
       THEN /\ schema' = schema \cup Adds(v)
            /\ row' = [row EXCEPT ![v] = NextRow]
            /\ process' = [process EXCEPT ![m].todo = @ \ {v}]
       ELSE End(m, "failed") /\ UNCHANGED <<schema, row>>
    /\ UNCHANGED <<rolling, crossed, interrupts, downs>>

\* Mutants: Run does not return the error of Up; Run tries until nothing is left.
FinishIgnoresError(m) ==
    /\ Applying(m)
    /\ \/ process[m].todo = {}
       \/ process[m].todo # {} /\ ~UpSucceeds(Min(process[m].todo))
    /\ End(m, "applied")
    /\ UNCHANGED <<schema, row, rolling, crossed, interrupts, downs>>

FinishGoesRound(m) ==
    /\ Applying(m) /\ process[m].todo = {}
    /\ process' = [process EXCEPT ![m] = [at |-> "list", command |-> "up"]]
    /\ UNCHANGED <<schema, row, rolling, crossed, interrupts, downs>>

\* The results are printed and the process exits with 0.
Finish(m) ==
    /\ Applying(m) /\ process[m].todo = {}
    /\ End(m, "applied")
    /\ UNCHANGED <<schema, row, rolling, crossed, interrupts, downs>>

\* SIGINT cancels the context, the process is killed, the connection breaks:
\* a transaction under way is rolled back.
Interrupt(m) ==
    /\ Running(m) /\ interrupts < MaxInterrupts
    /\ interrupts' = interrupts + 1
    /\ End(m, "none")
    /\ UNCHANGED <<schema, row, rolling, crossed, downs>>

\* goose down reads which version is the current one...
RollBack ==
    /\ rolling = 0 /\ downs < MaxDowns
    /\ downs' = downs + 1
    /\ \E v \in Version : InsertedLast(v) /\ rolling' = v
    /\ UNCHANGED <<schema, row, process, crossed, interrupts>>

\* Mutant: a rollback outside a transaction, so that a script that fails is
\* recorded as rolled back.
UndoForgets ==
    /\ rolling # 0 /\ rolling' = 0
    /\ row' = [row EXCEPT ![rolling] = 0]
    /\ schema' = IF DownSucceeds(rolling) THEN schema \ Drops(rolling) ELSE schema
    /\ crossed' = (crossed \/ ~InsertedLast(rolling) \/ \E m \in Migrator : Applying(m))
    /\ UNCHANGED <<process, interrupts, downs>>

\* ... and undoes it in a transaction, whatever has been migrated since. When
\* the script fails or the rollback is cut off nothing changes.
Undo ==
    /\ rolling # 0 /\ rolling' = 0
    /\ \/ /\ DownSucceeds(rolling)
          /\ schema' = schema \ Drops(rolling)
          /\ row' = [row EXCEPT ![rolling] = 0]
          /\ process' = [m \in Migrator |->
                            IF Applying(m) THEN [process[m] EXCEPT !.undone = TRUE] ELSE process[m]]
          /\ crossed' = (crossed \/ ~InsertedLast(rolling) \/ \E m \in Migrator : Applying(m))
       \/ UNCHANGED <<schema, row, process, crossed>>
    /\ UNCHANGED <<interrupts, downs>>

Continue(m) == List(m) \/ Apply(m) \/ Finish(m)

Next == (\E m \in Migrator : Start(m) \/ Continue(m) \/ Interrupt(m)) \/ RollBack \/ Undo

Spec == Init /\ [][Next]_vars

\* A process that runs goes on; nobody has to start one.
FairSpec == Spec /\ \A m \in Migrator : WF_vars(Continue(m))

-----------------------------------------------------------------------------
(***************************************************************************)
(* Whoever migrates at the same time and wherever a run is cut off, nothing *)
(* is in the schema that no version records. As long as no rollback has    *)
(* fallen into a run, the recorded versions are the first few and the      *)
(* schema is exactly what their scripts make: the next `migrate up` can    *)
(* always go on, also after a rollback that failed.                        *)
(***************************************************************************)
SchemaIsRecorded ==
    /\ schema \subseteq SchemaOf(Recorded)
    /\ ~crossed => (\E n \in 0 .. 6 : Recorded = 1 .. n) /\ schema = SchemaOf(Recorded)

(***************************************************************************)
(* A `migrate up` that exits with 0 leaves every migration applied, even   *)
(* when others did part of the work, unless a rollback succeeded under it. *)
(***************************************************************************)
UpMeansApplied ==
    [][\A m \in Migrator : Applying(m) /\ ~process[m].undone /\ process'[m] = Off("applied")
                              => Recorded' = Version]_vars

(***************************************************************************)
(* Of several runs of `migrate up` at once most fail, since they run the   *)
(* same scripts; but they do not stop each other half way: when all have   *)
(* ended and none was interrupted, every migration has been applied.       *)
(***************************************************************************)
SomebodyGetsThrough ==
    (/\ interrupts = 0 /\ downs = 0
     /\ \A m \in Migrator : ~Running(m)
     /\ \E m \in Migrator : process[m].result \in {"applied", "failed"}) => Recorded = Version

\* Every run of the migrator ends.
RunsEnd == \A m \in Migrator : Running(m) ~> ~Running(m)
=============================================================================
