----------------------------- MODULE Migrations -----------------------------
(***************************************************************************)
(* The schema of the wallet database (database/migrations.hpp): migrate<V> *)
(* and rollback<V>, recursive templates that go through the versions one   *)
(* by one, each step followed by an update of the version that the         *)
(* database keeps.  The process may die, or a step throw, between any two  *)
(* statements.                                                             *)
(*                                                                         *)
(* The callers, performDatabaseMigration and performDatabaseRollback, are  *)
(* only declared in the repository: whether they put the steps in one      *)
(* transaction, committed when migrate returns true, is left open          *)
(* (wrapped).                                                              *)
(***************************************************************************)
EXTENDS Integers

CONSTANTS
  CurrentVersion,  \* CURRENT_DATABASE_SCHEME_VERSION
  NewestVersion,   \* of a database that a newer library may have left
  NoContent        \* what is in a database without wallets

ASSUME VersionsAssumption ==
  CurrentVersion \in Nat /\ NewestVersion \in Nat /\ CurrentVersion <= NewestVersion

VARIABLES
  db,       \* what the session sees: migrations applied, the version kept, the content
  file,     \* what a crash leaves of it
  wrapped,  \* the steps of a migration or rollback are one transaction
  step,     \* where the recursion is
  torn,     \* a step was done, not in a transaction, and the update of the version was not
  repeated  \* a migration was run on a schema that had it, or undone on one that had not

schemaVars == <<db, file, wrapped, step, torn, repeated>>

Versions == 0..NewestVersion
NoTable == -1   \* getDatabaseMigrationVersion of an empty file

Resting == [at |-> "none", version |-> 0, current |-> 0, changed |-> FALSE]

InitSchema ==
  /\ \E v \in -1..NewestVersion : db = [applied |-> 0..v, version |-> v, content |-> NoContent]
  /\ file = db
  /\ wrapped \in BOOLEAN
  /\ step = Resting
  /\ torn = FALSE
  /\ repeated = FALSE

\* A statement inside of migrate or rollback.
Write(d) == db' = d /\ file' = IF wrapped THEN file ELSE d
Commit == file' = db /\ UNCHANGED db

---------------------------------------------------------------------------
(* Mutated forms of definitions below, one plausible mistake each.         *)
BehindOrAt(v) == step.current <= v      \* the last migration is run again
BeginMigrateUnlocked ==                 \* two processes at it at once
  /\ step' = [Resting EXCEPT !.at = "migrate", !.current = db.version]
  /\ UNCHANGED <<db, file, wrapped, torn, repeated>>

---------------------------------------------------------------------------
(* migrate<CurrentVersion>(sql, current).                                  *)

BeginMigrate ==
  /\ step.at = "none"
  /\ step' = [Resting EXCEPT !.at = "migrate", !.current = db.version]
  /\ UNCHANGED <<db, file, wrapped, torn, repeated>>

Behind(v) == step.current < v

Migrate ==
  /\ step.at = "migrate" /\ step.version <= CurrentVersion
  /\ IF Behind(step.version)
     THEN /\ Write([db EXCEPT !.applied = @ \union {step.version}])
          /\ repeated' = (repeated \/ step.version \in db.applied)
          /\ step' = [step EXCEPT !.at = "update"]
     ELSE /\ step' = [step EXCEPT !.version = @ + 1]
          /\ UNCHANGED <<db, file, repeated>>
  /\ UNCHANGED <<wrapped, torn>>

UpdateVersion ==
  /\ step.at = "update"
  /\ Write([db EXCEPT !.version = step.version])
  /\ step' = [step EXCEPT !.at = "migrate", !.version = @ + 1, !.changed = TRUE]
  /\ UNCHANGED <<wrapped, torn, repeated>>

\* migrate returns whether there was anything to do, and only then is there
\* anything to commit.
MigrateReturns ==
  /\ step.at = "migrate" /\ step.version > CurrentVersion
  /\ IF step.changed THEN Commit ELSE UNCHANGED <<db, file>>
  /\ step' = Resting
  /\ UNCHANGED <<wrapped, torn, repeated>>

---------------------------------------------------------------------------
(* rollback<CurrentVersion>(sql, current).                                 *)

BeginRollback ==
  /\ step.at = "none"
  /\ step' = [Resting EXCEPT !.at = "rollback", !.version = CurrentVersion, !.current = db.version]
  /\ UNCHANGED <<db, file, wrapped, torn, repeated>>

\* rollback<0> leaves nothing, not even the table of the version.
RolledBack(v) ==
  IF v = 0 THEN [applied |-> db.applied \ {0}, version |-> NoTable, content |-> NoContent]
           ELSE [db EXCEPT !.applied = @ \ {v}]

Rollback ==
  /\ step.at = "rollback" /\ 0 <= step.version /\ step.current <= step.version
  /\ IF step.current = step.version
     THEN /\ Write(RolledBack(step.version))
          /\ repeated' = (repeated \/ step.version \notin db.applied)
          /\ step' = IF step.version = 0 THEN [step EXCEPT !.version = -1, !.current = -1]
                                         ELSE [step EXCEPT !.at = "lower"]
     ELSE /\ step' = [step EXCEPT !.version = @ - 1]
          /\ UNCHANGED <<db, file, repeated>>
  /\ UNCHANGED <<wrapped, torn>>

LowerVersion ==
  /\ step.at = "lower"
  /\ Write([db EXCEPT !.version = step.version - 1])
  /\ step' = [step EXCEPT !.at = "rollback", !.version = @ - 1, !.current = @ - 1]
  /\ UNCHANGED <<wrapped, torn, repeated>>

RollbackReturns ==
  /\ step.at = "rollback" /\ step.version = -1
  /\ Commit
  /\ step' = Resting
  /\ UNCHANGED <<wrapped, torn, repeated>>

\* "Missing rollback migrations": the database is of a newer version.
MissingRollback ==
  /\ step.at = "rollback" /\ step.current > step.version
  /\ step' = Resting
  /\ db' = file
  /\ UNCHANGED <<file, wrapped, torn, repeated>>

---------------------------------------------------------------------------
BetweenStepAndVersion == step.at \in {"update", "lower"}

\* The process dies, or a statement fails and the exception ends the session.
Interrupted ==
  /\ step.at # "none"
  /\ step' = Resting
  /\ db' = file
  /\ torn' = (torn \/ (~wrapped /\ BetweenStepAndVersion))
  /\ UNCHANGED <<file, wrapped, repeated>>

RollbackStep == Rollback \/ LowerVersion \/ RollbackReturns \/ MissingRollback

---------------------------------------------------------------------------
\* What step may be.
StepType ==
  [at : {"none", "migrate", "update", "rollback", "lower"},
   version : -1..(CurrentVersion + 1), current : -1..NewestVersion, changed : BOOLEAN]

\* What is kept of the schema, with any content.
IsSchema(d) ==
  /\ d = [applied |-> d.applied, version |-> d.version, content |-> d.content]
  /\ d.applied \subseteq Versions
  /\ d.version \in Versions \union {NoTable}

SchemaTypeOK ==
  /\ IsSchema(db) /\ IsSchema(file)
  /\ wrapped \in BOOLEAN /\ torn \in BOOLEAN /\ repeated \in BOOLEAN
  /\ step \in StepType

\* However often it is started, reset and killed, the schema on disk is that
\* of the version it says, and no migration is run twice on one schema or
\* undone twice; unless there is no transaction and a process once died
\* between a step and the update of the version.  A migration is then run
\* again, or one that was undone is passed over for good.
Matches(d) == d.applied = 0..d.version
SchemaFollowsVersion ==
  /\ ~torn => ~repeated /\ (Matches(file) \/ (~wrapped /\ BetweenStepAndVersion))
  /\ torn => ~wrapped
  /\ step.at = "none" => db = file
=============================================================================
