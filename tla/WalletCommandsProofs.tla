------------------------ MODULE WalletCommandsProofs ------------------------
(* Proofs about Migrations and WalletCommands, for any versions, processes *)
(* and names: what is on disk is a schema of the version it says, and what *)
(* the commands say is so.  The invariant of each comes with the steps     *)
(* that keep it; then the theorems.                                        *)
EXTENDS WalletCommands, SequenceTheorems, TLAPS

\* The version in the database against where the recursion is.
VersionInv ==
  /\ step.at = "migrate" =>
       /\ 0 <= step.version
       /\ db.version = IF step.current < step.version THEN step.version - 1 ELSE step.current
       /\ ~step.changed => db = file
  /\ step.at = "update" =>
       /\ 0 <= step.version /\ step.version <= CurrentVersion
       /\ step.current < step.version /\ db.version = step.version - 1
  /\ step.at = "rollback" => db.version = step.current
  /\ step.at = "lower" =>
       1 <= step.version /\ step.current = step.version /\ db.version = step.version
  /\ step.at = "none" => db = file
  /\ ~wrapped => file = db

\* The schema against the version.
AppliedInv ==
  /\ wrapped => ~torn /\ Matches(file)
  /\ ~torn =>
       /\ ~repeated
       /\ step.at = "update" => db.applied = 0..step.version
       /\ step.at = "lower" => db.applied = 0..(step.version - 1)
       /\ step.at \notin {"update", "lower"} => Matches(db)

\* What the two need of the types.
DbInv(d) == DOMAIN d = {"applied", "version", "content"} /\ d.version \in -1..NewestVersion
StepInv ==
  /\ DOMAIN step = {"at", "version", "current", "changed"}
  /\ step.at \in {"none", "migrate", "update", "rollback", "lower"}
  /\ step.version \in -1..(CurrentVersion + 1) /\ step.current \in -1..NewestVersion
FieldsInv == DbInv(db) /\ DbInv(file) /\ StepInv

SchemaInv == FieldsInv /\ VersionInv /\ AppliedInv

USE VersionsAssumption DEF Versions, NoTable, Resting

\* The first state.
LEMMA SchemaInitInv == InitSchema => SchemaInv
<1> SUFFICES ASSUME InitSchema PROVE SchemaInv
  OBVIOUS
<1>1. PICK v \in -1..NewestVersion : db = [applied |-> 0..v, version |-> v, content |-> NoContent]
  BY DEF InitSchema
<1>2. file = db /\ torn = FALSE /\ repeated = FALSE
  BY DEF InitSchema
<1>3. FieldsInv
  BY <1>1, <1>2, SMT DEF InitSchema, FieldsInv, DbInv, StepInv
<1>4. VersionInv /\ AppliedInv
  BY <1>1, <1>2, SMT DEF InitSchema, VersionInv, AppliedInv, Matches
<1>5. QED BY <1>3, <1>4 DEF SchemaInv

\* The steps of migrate.
LEMMA MigrateInv ==
  ASSUME SchemaInv, BeginMigrate \/ Migrate \/ UpdateVersion \/ MigrateReturns
  PROVE  SchemaInv'
<1> USE DEF SchemaInv, FieldsInv, DbInv, StepInv
<1>1. CASE BeginMigrate
  <2>1. FieldsInv' BY <1>1, SMT DEF BeginMigrate
  <2>2. VersionInv' BY <1>1, SMT DEF BeginMigrate, VersionInv
  <2>3. AppliedInv' BY <1>1, SMT DEF BeginMigrate, AppliedInv, Matches
  <2>4. QED BY <2>1, <2>2, <2>3
<1>2. CASE Migrate /\ Behind(step.version)
  <2> DEFINE d == [db EXCEPT !.applied = @ \union {step.version}]
  <2>1. /\ step.at = "migrate" /\ step.version <= CurrentVersion /\ step.current < step.version
        /\ db' = d /\ file' = (IF wrapped THEN file ELSE d)
        /\ step' = [step EXCEPT !.at = "update"]
        /\ repeated' = (repeated \/ step.version \in db.applied)
        /\ wrapped' = wrapped /\ torn' = torn
    BY <1>2 DEF Migrate, Behind, Write
  <2>3. 0 <= step.version /\ db.version = step.version - 1
    BY <2>1, SMT DEF VersionInv
  <2>4. FieldsInv' BY <2>1, <2>3, SMT
  <2>5. VersionInv' BY <2>1, <2>3, SMT DEF VersionInv
  <2>6. AppliedInv'
    <3>1. ~torn => db.applied = 0..(step.version - 1)
      BY <2>1, <2>3, SMT DEF AppliedInv, Matches
    <3>2. ASSUME ~torn PROVE db'.applied = 0..step.version /\ ~repeated'
      <4>1. ~(step.version \in db.applied) /\ db'.applied = 0..step.version
        BY <2>1, <2>3, <3>1, <3>2, SMT
      <4>2. ~repeated BY <3>2, Zenon DEF AppliedInv
      <4>3. QED BY <2>1, <4>1, <4>2, Zenon
    <3>3. wrapped => ~torn' /\ Matches(file')
      BY <2>1, SMT DEF AppliedInv, Matches
    <3>4. QED BY <2>1, <3>2, <3>3, SMT DEF AppliedInv, Matches
  <2>7. QED BY <2>4, <2>5, <2>6
<1>3. CASE Migrate /\ ~Behind(step.version)
  <2>1. /\ step.at = "migrate" /\ step.version <= CurrentVersion /\ step.version <= step.current
        /\ step' = [step EXCEPT !.version = @ + 1]
        /\ UNCHANGED <<db, file, repeated, wrapped, torn>>
    BY <1>3, SMT DEF Migrate, Behind
  <2>2. FieldsInv' BY <2>1, SMT DEF VersionInv
  <2>3. VersionInv' BY <2>1, SMT DEF VersionInv
  <2>4. AppliedInv' BY <2>1, SMT DEF AppliedInv, Matches
  <2>5. QED BY <2>2, <2>3, <2>4
<1>4. CASE UpdateVersion
  <2> DEFINE d == [db EXCEPT !.version = step.version]
  <2>1. /\ step.at = "update" /\ db' = d /\ file' = (IF wrapped THEN file ELSE d)
        /\ step' = [step EXCEPT !.at = "migrate", !.version = @ + 1, !.changed = TRUE]
        /\ UNCHANGED <<wrapped, torn, repeated>>
    BY <1>4 DEF UpdateVersion, Write
  <2>2. FieldsInv' BY <2>1, SMT DEF VersionInv
  <2>3. VersionInv' BY <2>1, SMT DEF VersionInv
  <2>4. AppliedInv' BY <2>1, SMT DEF VersionInv, AppliedInv, Matches
  <2>5. QED BY <2>2, <2>3, <2>4
<1>5. CASE MigrateReturns
  <2>1. /\ step.at = "migrate" /\ step' = Resting /\ UNCHANGED <<wrapped, torn, repeated, db>>
        /\ file' = db
    BY <1>5, SMT DEF MigrateReturns, Commit, VersionInv
  <2>2. FieldsInv' BY <2>1, SMT
  <2>3. VersionInv' BY <2>1, SMT DEF VersionInv
  <2>4. AppliedInv' BY <2>1, SMT DEF AppliedInv, Matches
  <2>5. QED BY <2>2, <2>3, <2>4
<1>6. QED BY <1>1, <1>2, <1>3, <1>4, <1>5

\* The steps of rollback.
LEMMA RollbackInv ==
  ASSUME SchemaInv, BeginRollback \/ RollbackStep
  PROVE  SchemaInv'
<1> USE DEF SchemaInv, FieldsInv, DbInv, StepInv
<1>1. CASE BeginRollback
  <2>1. FieldsInv' BY <1>1, SMT DEF BeginRollback
  <2>2. VersionInv' BY <1>1, SMT DEF BeginRollback, VersionInv
  <2>3. AppliedInv' BY <1>1, SMT DEF BeginRollback, AppliedInv, Matches
  <2>4. QED BY <2>1, <2>2, <2>3
<1>2. CASE Rollback /\ step.current = step.version
  <2> DEFINE d == RolledBack(step.version)
  <2>1. /\ step.at = "rollback" /\ 0 <= step.version /\ step.current = step.version
        /\ db' = d /\ file' = (IF wrapped THEN file ELSE d)
        /\ repeated' = (repeated \/ step.version \notin db.applied)
        /\ step' = IF step.version = 0 THEN [step EXCEPT !.version = -1, !.current = -1]
                                       ELSE [step EXCEPT !.at = "lower"]
        /\ UNCHANGED <<wrapped, torn>>
    BY <1>2 DEF Rollback, Write
  <2>3. /\ d.applied = db.applied \ {step.version} /\ DOMAIN d = DOMAIN db
        /\ d.version = (IF step.version = 0 THEN -1 ELSE db.version)
    <3>1. CASE step.version = 0 BY <2>1, <3>1, SMT DEF RolledBack
    <3>2. CASE step.version # 0 BY <2>1, <3>2, SMT DEF RolledBack
    <3>3. QED BY <3>1, <3>2
  <2>4. FieldsInv'
    <3> HIDE DEF d
    <3>1. QED BY <2>1, <2>3, SMT
  <2>5. VersionInv'
    <3> HIDE DEF d
    <3>1. QED BY <2>1, <2>3, SMT DEF VersionInv
  <2>6. AppliedInv'
    <3> HIDE DEF d
    <3>1. ~torn => db.applied = 0..step.version /\ ~repeated
      BY <2>1, SMT DEF AppliedInv, VersionInv, Matches
    <3>2. ASSUME ~torn PROVE d.applied = 0..(step.version - 1) /\ ~repeated'
      <4>1. step.version \in db.applied /\ d.applied = 0..(step.version - 1)
        BY <2>1, <2>3, <3>1, <3>2, SMT
      <4>2. QED BY <2>1, <3>1, <3>2, <4>1, Zenon
    <3>3. wrapped => ~torn' /\ Matches(file')
      BY <2>1, SMT DEF AppliedInv, Matches
    <3>4. QED BY <2>1, <2>3, <3>2, <3>3, SMT DEF AppliedInv, Matches
  <2>7. QED BY <2>4, <2>5, <2>6
<1>3. CASE Rollback /\ step.current # step.version
  <2>1. /\ step.at = "rollback" /\ 0 <= step.version
        /\ step' = [step EXCEPT !.version = @ - 1] /\ UNCHANGED <<db, file, repeated, wrapped, torn>>
    BY <1>3 DEF Rollback
  <2>2. FieldsInv' BY <2>1, SMT
  <2>3. VersionInv' BY <2>1, SMT DEF VersionInv
  <2>4. AppliedInv' BY <2>1, SMT DEF AppliedInv, Matches
  <2>5. QED BY <2>2, <2>3, <2>4
<1>4. CASE LowerVersion
  <2> DEFINE d == [db EXCEPT !.version = step.version - 1]
  <2>1. /\ step.at = "lower" /\ db' = d /\ file' = (IF wrapped THEN file ELSE d)
        /\ step' = [step EXCEPT !.at = "rollback", !.version = @ - 1, !.current = @ - 1]
        /\ UNCHANGED <<wrapped, torn, repeated>>
    BY <1>4 DEF LowerVersion, Write
  <2>2. FieldsInv' BY <2>1, SMT DEF VersionInv
  <2>3. VersionInv' BY <2>1, SMT DEF VersionInv
  <2>4. AppliedInv' BY <2>1, SMT DEF VersionInv, AppliedInv, Matches
  <2>5. QED BY <2>2, <2>3, <2>4
<1>5. CASE RollbackReturns
  <2>1. /\ step.at = "rollback" /\ step' = Resting /\ UNCHANGED <<wrapped, torn, repeated, db>>
        /\ file' = db
    BY <1>5 DEF RollbackReturns, Commit
  <2>2. FieldsInv' BY <2>1, SMT
  <2>3. VersionInv' BY <2>1, SMT DEF VersionInv
  <2>4. AppliedInv' BY <2>1, SMT DEF AppliedInv, Matches
  <2>5. QED BY <2>2, <2>3, <2>4
<1>6. CASE MissingRollback
  <2>1. /\ step.at = "rollback" /\ step' = Resting /\ db' = file
        /\ UNCHANGED <<wrapped, torn, repeated, file>>
    BY <1>6 DEF MissingRollback
  <2>2. FieldsInv' BY <2>1, SMT
  <2>3. VersionInv' BY <2>1, SMT DEF VersionInv
  <2>4. AppliedInv' BY <2>1, SMT DEF VersionInv, AppliedInv, Matches
  <2>5. QED BY <2>2, <2>3, <2>4
<1>7. QED BY <1>1, <1>2, <1>3, <1>4, <1>5, <1>6 DEF RollbackStep

\* Dying in the middle of either.
LEMMA InterruptedInv ==
  ASSUME SchemaInv, Interrupted
  PROVE  SchemaInv'
<1>1. /\ step' = Resting /\ db' = file /\ UNCHANGED <<file, wrapped, repeated>>
      /\ torn' = (torn \/ (~wrapped /\ BetweenStepAndVersion))
  BY DEF Interrupted
<1>3. FieldsInv'
  BY <1>1, SMT DEF SchemaInv, FieldsInv, DbInv, StepInv
<1>4. VersionInv'
  BY <1>1, SMT DEF VersionInv
<1>5. AppliedInv'
  <2>1. ASSUME wrapped PROVE ~torn' /\ Matches(file)
    BY <1>1, <2>1, Zenon DEF SchemaInv, AppliedInv
  <2>2. ASSUME ~torn' PROVE ~repeated /\ Matches(file)
    <3>1. ~torn /\ (wrapped \/ ~BetweenStepAndVersion)
      BY <1>1, <2>2, Zenon
    <3>2. CASE wrapped
      BY <3>1, <3>2, Zenon DEF SchemaInv, AppliedInv
    <3>3. CASE ~wrapped
      <4>1. step.at \notin {"update", "lower"} /\ file = db
        BY <3>1, <3>3, Zenon DEF SchemaInv, VersionInv, BetweenStepAndVersion
      <4>2. QED BY <3>1, <4>1, Zenon DEF SchemaInv, AppliedInv
    <3>4. QED BY <3>2, <3>3
  <2>3. /\ wrapped' => ~torn' /\ Matches(file)
        /\ ~torn' => ~repeated' /\ Matches(file)
    BY <1>1, <2>1, <2>2, Zenon
  <2>4. QED BY <1>1, <2>3, SMT DEF AppliedInv, Matches
<1>6. QED BY <1>3, <1>4, <1>5 DEF SchemaInv

\* While a command runs, the schema is the library's, and no migration that
\* another process is at changes it.
RunningInv ==
  \A p \in Processes : proc[p].at \in Running =>
    /\ db.version >= CurrentVersion /\ db = file
    /\ step.at \in {"none", "migrate"}
    /\ step.at = "migrate" => step.current >= CurrentVersion

PoolInv == DOMAIN proc = Processes /\ SchemaInv /\ RunningInv

\* A write of wallets by a command that runs.
LEMMA StoredInv ==
  ASSUME PoolInv, NEW p \in Processes, proc[p].at \in Running, NEW wallets, Stored(wallets)
  PROVE  SchemaInv' /\ db'.version = db.version /\ db' = file' /\ step' = step
<1> USE DEF PoolInv, SchemaInv
<1>1. /\ db = file /\ step.at \in {"none", "migrate"}
      /\ db' = [db EXCEPT !.content = wallets] /\ file' = db'
      /\ UNCHANGED <<wrapped, step, torn, repeated>>
  BY DEF RunningInv, Stored
<1>2. /\ DOMAIN db' = DOMAIN db /\ db'.version = db.version /\ db'.applied = db.applied
  BY <1>1, SMT DEF FieldsInv, DbInv
<1>3. FieldsInv' BY <1>1, <1>2, SMT DEF FieldsInv, DbInv, StepInv
<1>4. VersionInv' BY <1>1, <1>2, SMT DEF VersionInv
<1>5. AppliedInv' BY <1>1, <1>2, SMT DEF AppliedInv, Matches
<1>6. QED BY <1>1, <1>2, <1>3, <1>4, <1>5

\* Commands that run on, and do not begin to run.
NoneBegins ==
  DOMAIN proc' = Processes /\ \A q \in Processes : proc'[q].at \in Running => proc[q].at \in Running

\* A step of the processes that leaves the schema as it is.
LEMMA ReadingInv ==
  ASSUME PoolInv, NoneBegins, UNCHANGED schemaVars
  PROVE  PoolInv'
<1>1. SchemaInv'
  BY SMT DEF PoolInv, SchemaInv, schemaVars, FieldsInv, DbInv, StepInv, VersionInv, AppliedInv, Matches
<1>2. RunningInv'
  BY DEF PoolInv, RunningInv, NoneBegins, schemaVars, Running
<1>3. QED BY <1>1, <1>2 DEF PoolInv, NoneBegins

\* The calls of the commands: they write wallets or nothing.
LEMMA CommandInv ==
  ASSUME PoolInv, NEW p \in Processes, Command(p)
  PROVE  PoolInv'
<1> USE DEF SameData, GoTo, Finish
<1>1. proc[p].at \in Running /\ DOMAIN proc = Processes
  BY DEF Command, CheckName, CreateWallet, CreateAccount, ReadWallets, PrintNext, ListEnds,
         GetWallet, GetAccount, UseAccount, Running, PoolInv
<1>2. NoneBegins
  <2>1. CASE CheckName(p) BY <1>1, <2>1, SMT DEF CheckName, NoneBegins
  <2>2. CASE CreateWallet(p) BY <1>1, <2>2, SMT DEF CreateWallet, NoneBegins
  <2>3. CASE CreateAccount(p) BY <1>1, <2>3, SMT DEF CreateAccount, NoneBegins
  <2>4. CASE ReadWallets(p) BY <1>1, <2>4, SMT DEF ReadWallets, NoneBegins
  <2>5. CASE PrintNext(p) BY <1>1, <2>5, SMT DEF PrintNext, NoneBegins
  <2>6. CASE ListEnds(p) BY <1>1, <2>6, SMT DEF ListEnds, NoneBegins
  <2>7. CASE GetWallet(p) BY <1>1, <2>7, SMT DEF GetWallet, NoneBegins
  <2>8. CASE GetAccount(p) BY <1>1, <2>8, SMT DEF GetAccount, NoneBegins
  <2>9. CASE UseAccount(p) BY <1>1, <2>9, SMT DEF UseAccount, NoneBegins
  <2>10. QED BY <2>1, <2>2, <2>3, <2>4, <2>5, <2>6, <2>7, <2>8, <2>9 DEF Command
<1>3. UNCHANGED schemaVars \/ \E wallets : Stored(wallets)
  BY DEF Command, CheckName, CreateWallet, CreateAccount, ReadWallets, PrintNext, ListEnds,
         GetWallet, GetAccount, UseAccount
<1>4. CASE UNCHANGED schemaVars
  BY <1>2, <1>4, ReadingInv
<1>5. CASE \E wallets : Stored(wallets)
  <2>1. SchemaInv' /\ db'.version = db.version /\ db' = file' /\ step' = step
    BY <1>1, <1>5, StoredInv
  <2>2. RunningInv'
    BY <1>2, <2>1 DEF PoolInv, RunningInv, NoneBegins, Running
  <2>3. QED BY <1>2, <2>1, <2>2 DEF PoolInv, NoneBegins
<1>6. QED BY <1>3, <1>4, <1>5

\* All the steps of the system, migrations and resets included.
LEMMA PoolNextInv ==
  ASSUME PoolInv, [Next]_vars
  PROVE  PoolInv'
<1> USE DEF PoolInv, Running
<1>1. ASSUME NEW p \in Processes, NEW cmd, NEW name, Start(p, cmd, name) PROVE PoolInv'
  <2>1. NoneBegins BY <1>1, SMT DEF Start, Fresh, NoneBegins
  <2>2. QED BY <1>1, <2>1, ReadingInv DEF Start, SameData
<1>2. ASSUME NEW p \in Processes, OpenPool(p) PROVE PoolInv'
  <2>1. NoneBegins BY <1>2, SMT DEF OpenPool, GoTo, NoneBegins
  <2>2. SchemaInv' BY <1>2, MigrateInv DEF OpenPool
  <2>3. RunningInv'
    BY <1>2, <2>1, SMT DEF OpenPool, BeginMigrate, RunningInv, NoneBegins
  <2>4. QED BY <2>1, <2>2, <2>3 DEF NoneBegins
<1>3. ASSUME NEW p \in Processes, MigratePool(p) PROVE PoolInv'
  <2>1. SchemaInv' BY <1>3, MigrateInv DEF MigratePool
  <2>2. CASE Migrate /\ UNCHANGED proc
    BY <2>1, <2>2, SMT DEF Migrate, Behind, RunningInv, SchemaInv, FieldsInv, StepInv
  <2>3. CASE UpdateVersion /\ UNCHANGED proc
    BY <2>1, <2>3, SMT DEF UpdateVersion, RunningInv
  <2>4. CASE MigrateReturns /\ GoTo(p, "opened")
    <3>1. /\ DOMAIN proc' = Processes
          /\ \A q \in Processes : proc'[q].at \in Running => proc[q].at \in Running \/ q = p
      BY <2>4, SMT DEF GoTo
    <3>2. db' = db /\ file' = db /\ step'.at = "none" /\ db.version >= CurrentVersion
      BY <2>4, SMT DEF MigrateReturns, Commit, SchemaInv, FieldsInv, StepInv, VersionInv
    <3>3. RunningInv' BY <3>1, <3>2, SMT DEF RunningInv
    <3>4. QED BY <2>1, <3>1, <3>3
  <2>5. QED BY <1>3, <2>2, <2>3, <2>4 DEF MigratePool
<1>4. ASSUME NEW p \in Processes, Die(p) PROVE PoolInv'
  <2>1. NoneBegins BY <1>4, SMT DEF Die, Finish, NoneBegins
  <2>2. CASE UNCHANGED schemaVars BY <2>1, <2>2, ReadingInv
  <2>3. CASE Interrupted
    <3>1. SchemaInv' BY <2>3, InterruptedInv
    <3>2. RunningInv'
      BY <2>1, <2>3, SMT DEF Interrupted, RunningInv, NoneBegins
    <3>3. QED BY <2>1, <3>1, <3>2 DEF NoneBegins
  <2>4. QED BY <1>4, <2>2, <2>3 DEF Die
<1>5. CASE BeginReset
  <2>1. SchemaInv' BY <1>5, RollbackInv DEF BeginReset
  <2>2. DOMAIN proc' = Processes /\ \A q \in Processes : proc'[q].at \notin Running
    BY <1>5, SMT DEF BeginReset, Fresh
  <2>3. QED BY <2>1, <2>2 DEF RunningInv
<1>6. CASE Reset
  <2>1. SchemaInv' BY <1>6, RollbackInv, InterruptedInv DEF Reset
  <2>2. UNCHANGED proc /\ \A q \in Processes : proc[q].at \notin Running
    BY <1>6, SMT DEF Reset, Resetting, RunningInv
  <2>3. QED BY <2>1, <2>2 DEF RunningInv
<1>7. CASE UNCHANGED vars
  <2>1. NoneBegins BY <1>7 DEF vars, NoneBegins
  <2>2. QED BY <1>7, <2>1, ReadingInv DEF vars, schemaVars
<1>8. QED BY <1>1, <1>2, <1>3, <1>4, <1>5, <1>6, <1>7, CommandInv DEF Next

\* What is on disk is the schema of the version that it says, however often
\* the pool is opened, by however many processes, killed at any moment, or
\* the database is reset (migrations.hpp), unless a process died between a
\* step and the update of the version, outside of a transaction.
THEOREM SchemaFollowsVersionHolds == Spec => []SchemaFollowsVersion
<1>1. Init => PoolInv
  <2> SUFFICES ASSUME Init PROVE PoolInv
    OBVIOUS
  <2>1. SchemaInv BY SchemaInitInv DEF Init
  <2>2. DOMAIN proc = Processes /\ \A q \in Processes : proc[q].at \notin Running
    BY SMT DEF Init, Fresh, Running
  <2>3. QED BY <2>1, <2>2 DEF PoolInv, RunningInv
<1>2. PoolInv /\ [Next]_vars => PoolInv'
  BY PoolNextInv
<1>3. PoolInv => SchemaFollowsVersion
  <2> SUFFICES ASSUME PoolInv PROVE SchemaFollowsVersion
    OBVIOUS
  <2>1. ASSUME ~torn PROVE ~repeated /\ (Matches(file) \/ (~wrapped /\ BetweenStepAndVersion))
    <3>1. CASE wrapped BY <2>1, <3>1, Zenon DEF PoolInv, SchemaInv, AppliedInv
    <3>2. CASE ~wrapped
      BY <2>1, <3>2, Zenon DEF PoolInv, SchemaInv, AppliedInv, VersionInv, BetweenStepAndVersion
    <3>3. QED BY <3>1, <3>2
  <2>2. torn => ~wrapped BY Zenon DEF PoolInv, SchemaInv, AppliedInv
  <2>3. step.at = "none" => db = file BY DEF PoolInv, SchemaInv, VersionInv
  <2>4. QED BY <2>1, <2>2, <2>3, Zenon DEF SchemaFollowsVersion
<1>4. QED BY <1>1, <1>2, <1>3, PTL DEF Spec

\* One statement on the database keeps it a schema.
LEMMA SchemaWrites ==
  ASSUME NEW d, IsSchema(d), NEW v \in Versions, NEW w
  PROVE  /\ IsSchema([d EXCEPT !.applied = @ \union {v}]) /\ IsSchema([d EXCEPT !.applied = @ \ {v}])
         /\ IsSchema([d EXCEPT !.version = v]) /\ IsSchema([d EXCEPT !.content = w])
         /\ IsSchema([applied |-> d.applied \ {0}, version |-> NoTable, content |-> w])
<1> DEFINE a == d.applied
           b == d.version
           c == d.content
<1>1. d = [applied |-> a, version |-> b, content |-> c] /\ a \subseteq Versions /\ b \in Versions \union {NoTable}
  BY DEF IsSchema
<1> HIDE DEF a, b, c
<1>2. /\ [d EXCEPT !.applied = @ \union {v}] = [applied |-> a \union {v}, version |-> b, content |-> c]
      /\ [d EXCEPT !.applied = @ \ {v}] = [applied |-> a \ {v}, version |-> b, content |-> c]
      /\ [d EXCEPT !.version = v] = [applied |-> a, version |-> v, content |-> c]
      /\ [d EXCEPT !.content = w] = [applied |-> a, version |-> b, content |-> w]
  BY <1>1, SMT
<1>3. IsSchema([d EXCEPT !.applied = @ \union {v}])
  BY <1>1, <1>2, SMT DEF IsSchema
<1>4. IsSchema([d EXCEPT !.applied = @ \ {v}])
  BY <1>1, <1>2, SMT DEF IsSchema
<1>5. IsSchema([d EXCEPT !.version = v]) /\ IsSchema([d EXCEPT !.content = w])
  BY <1>1, <1>2, SMT DEF IsSchema
<1>6. IsSchema([applied |-> d.applied \ {0}, version |-> NoTable, content |-> w])
  BY <1>1, SMT DEF IsSchema
<1>7. QED BY <1>3, <1>4, <1>5, <1>6

\* One step of the recursion keeps it one.
LEMMA StepMoves ==
  ASSUME NEW s \in StepType, NEW a \in {"none", "migrate", "update", "rollback", "lower"},
         NEW v \in -1..(CurrentVersion + 1), NEW c \in -1..NewestVersion
  PROVE  /\ [s EXCEPT !.at = a] \in StepType /\ [s EXCEPT !.version = v] \in StepType
         /\ [s EXCEPT !.at = a, !.current = c] \in StepType
         /\ [s EXCEPT !.version = v, !.current = c] \in StepType
         /\ [s EXCEPT !.at = a, !.version = v, !.current = c] \in StepType
         /\ [s EXCEPT !.at = a, !.version = v, !.changed = TRUE] \in StepType
BY Zenon DEF StepType

\* The steps of a migration or of a rollback keep the types.
LEMMA SchemaTypes ==
  ASSUME SchemaTypeOK, SchemaInv,
         BeginMigrate \/ Migrate \/ UpdateVersion \/ MigrateReturns
         \/ BeginRollback \/ RollbackStep \/ Interrupted
  PROVE  SchemaTypeOK'
<1> USE DEF SchemaTypeOK
<1>0. /\ db.version \in -1..NewestVersion /\ step.version \in -1..(CurrentVersion + 1)
      /\ step.current \in -1..NewestVersion
  BY SMT DEF IsSchema, StepType
<1>r. Resting \in StepType BY SMT DEF StepType
<1>1. CASE BeginMigrate
  <2>1. step' \in StepType BY <1>0, <1>1, <1>r, StepMoves DEF BeginMigrate
  <2>2. QED BY <1>1, <2>1, Zenon DEF BeginMigrate
<1>2. CASE Migrate /\ Behind(step.version)
  <2>1. step.version \in Versions
    BY <1>2, <1>0, SMT DEF Migrate, Behind, SchemaInv, VersionInv
  <2>2. IsSchema(db') /\ IsSchema(file')
    <3>1. IsSchema([db EXCEPT !.applied = @ \union {step.version}]) BY <2>1, SchemaWrites
    <3>2. QED BY <1>2, <3>1, Zenon DEF Migrate, Write
  <2>3. repeated' \in BOOLEAN BY <1>2, Zenon DEF Migrate
  <2>4. step' \in StepType BY <1>0, <1>2, StepMoves, Zenon DEF Migrate
  <2>5. QED BY <1>2, <2>2, <2>3, <2>4, Zenon DEF Migrate
<1>3. CASE Migrate /\ ~Behind(step.version)
  <2>1. step.version + 1 \in -1..(CurrentVersion + 1) BY <1>0, <1>3, SMT DEF Migrate
  <2>2. step' \in StepType BY <1>0, <1>3, <2>1, StepMoves, Zenon DEF Migrate
  <2>3. QED BY <1>3, <2>2, Zenon DEF Migrate
<1>4. CASE UpdateVersion
  <2>1. step.version \in Versions /\ step.version + 1 \in -1..(CurrentVersion + 1)
    BY <1>4, <1>0, SMT DEF UpdateVersion, SchemaInv, VersionInv
  <2>2. IsSchema(db') /\ IsSchema(file')
    <3>1. IsSchema([db EXCEPT !.version = step.version]) BY <2>1, SchemaWrites
    <3>2. QED BY <1>4, <3>1, Zenon DEF UpdateVersion, Write
  <2>3. step' \in StepType BY <1>0, <1>4, <2>1, StepMoves, Zenon DEF UpdateVersion
  <2>4. QED BY <1>4, <2>2, <2>3, Zenon DEF UpdateVersion
<1>5. CASE MigrateReturns
  BY <1>5, <1>r, Zenon DEF MigrateReturns, Commit
<1>6. CASE BeginRollback
  <2>1. CurrentVersion \in -1..(CurrentVersion + 1) BY SMT
  <2>2. step' \in StepType BY <1>0, <1>6, <1>r, <2>1, StepMoves, Zenon DEF BeginRollback
  <2>3. QED BY <1>6, <2>2, Zenon DEF BeginRollback
<1>7. CASE Rollback /\ step.current = step.version
  <2>1. step.version \in Versions
    BY <1>7, <1>0, SMT DEF Rollback
  <2>2. IsSchema(db') /\ IsSchema(file')
    <3>1. IsSchema(RolledBack(step.version)) BY <2>1, SchemaWrites, Zenon DEF RolledBack
    <3>2. QED BY <1>7, <3>1, Zenon DEF Rollback, Write
  <2>3. repeated' \in BOOLEAN BY <1>7, Zenon DEF Rollback
  <2>4. -1 \in -1..(CurrentVersion + 1) /\ -1 \in -1..NewestVersion BY SMT
  <2>5. [step EXCEPT !.version = -1, !.current = -1] \in StepType /\ [step EXCEPT !.at = "lower"] \in StepType
    BY <1>0, <2>4, StepMoves
  <2>6. step' \in StepType BY <1>7, <2>5, Zenon DEF Rollback
  <2>7. QED BY <1>7, <2>2, <2>3, <2>6, Zenon DEF Rollback
<1>8. CASE Rollback /\ step.current # step.version
  <2>1. step.version - 1 \in -1..(CurrentVersion + 1) BY <1>0, <1>8, SMT DEF Rollback
  <2>2. step' \in StepType BY <1>0, <1>8, <2>1, StepMoves, Zenon DEF Rollback
  <2>3. QED BY <1>8, <2>2, Zenon DEF Rollback
<1>9. CASE LowerVersion
  <2>1. /\ step.version - 1 \in Versions /\ step.version - 1 \in -1..(CurrentVersion + 1)
        /\ step.current - 1 \in -1..NewestVersion
    BY <1>9, <1>0, SMT DEF LowerVersion, SchemaInv, VersionInv
  <2>2. IsSchema(db') /\ IsSchema(file')
    <3>1. IsSchema([db EXCEPT !.version = step.version - 1]) BY <2>1, SchemaWrites
    <3>2. QED BY <1>9, <3>1, Zenon DEF LowerVersion, Write
  <2>3. step' \in StepType BY <1>0, <1>9, <2>1, StepMoves, Zenon DEF LowerVersion
  <2>4. QED BY <1>9, <2>2, <2>3, Zenon DEF LowerVersion
<1>10. CASE RollbackReturns
  BY <1>10, <1>r, Zenon DEF RollbackReturns, Commit
<1>11. CASE MissingRollback
  BY <1>11, <1>r, Zenon DEF MissingRollback
<1>12. CASE Interrupted
  <2>1. torn' \in BOOLEAN BY <1>12, Zenon DEF Interrupted
  <2>2. QED BY <1>12, <1>r, <2>1, Zenon DEF Interrupted
<1>13. QED
  BY <1>1, <1>2, <1>3, <1>4, <1>5, <1>6, <1>7, <1>8, <1>9, <1>10, <1>11, <1>12 DEF RollbackStep

CommandType == [at : Places, cmd : Commands, name : Names, seen : Seq(Names), listed : Nat, outcome : Outcomes]
WalletType == [name : Names, bitcoin : BOOLEAN, account : BOOLEAN]

\* The types, with what they rest on: what is on disk has wallets in it too,
\* and a list that has not begun has listed none.
TypesInv ==
  /\ TypeOK
  /\ file.content \in Seq(WalletType)
  /\ \A p \in Processes : proc[p].at \in {"open", "migrating", "opened"} => proc[p].listed = 0

\* A command's record after one of its steps.
LEMMA CommandMoves ==
  ASSUME NEW s \in CommandType, NEW a \in Places, NEW o \in Outcomes
  PROVE  /\ [s EXCEPT !.at = a] \in CommandType /\ [s EXCEPT !.at = a, !.outcome = o] \in CommandType
         /\ \A w \in Seq(Names) : [s EXCEPT !.seen = w, !.at = a, !.outcome = o] \in CommandType
BY Zenon DEF CommandType

\* What getWallets returns: the names of the first wallets, in their order.
LEMMA ListedNames ==
  ASSUME Wallets \in Seq(WalletType)
  PROVE  Listed \in Seq(Names) /\ \A i \in DOMAIN Listed : i \in DOMAIN Wallets /\ Listed[i] = NameAt(i)
<1> USE LimitAssumption
<1> DEFINE s == [i \in DOMAIN Wallets |-> NameAt(i)]
           m == Min2(Len(Wallets), Limit)
<1>1. DOMAIN Wallets = 1..Len(Wallets) /\ Len(Wallets) \in Nat
  BY SMT
<1>2. \A i \in DOMAIN Wallets : NameAt(i) \in Names
  <2>1. \A i \in DOMAIN Wallets : Wallets[i] \in WalletType BY SMT
  <2>2. QED BY <2>1, Zenon DEF NameAt, WalletType
<1>3. s \in Seq(Names) /\ Len(s) = Len(Wallets)
  BY <1>1, <1>2, SMT
<1>4. m \in Nat /\ m <= Len(Wallets)
  BY <1>1, SMT DEF Min2
<1>5. Listed = SubSeq(s, 1, m)
  BY DEF Listed
<1> HIDE DEF s, m
<1>6. Listed \in Seq(Names) /\ Len(Listed) = m /\ \A i \in 1..m : Listed[i] = s[i]
  BY <1>3, <1>4, <1>5, SubSeqProperties, SMT
<1>7. ASSUME NEW i \in DOMAIN Listed PROVE i \in DOMAIN Wallets /\ Listed[i] = NameAt(i)
  <2>1. i \in 1..m BY <1>6, SMT
  <2>2. i \in DOMAIN Wallets BY <1>1, <1>4, <2>1, SMT
  <2>3. QED BY <1>6, <2>1, <2>2 DEF s
<1>8. QED BY <1>6, <1>7

\* The two writes of the commands are writes of wallets.
LEMMA WalletsWritten ==
  ASSUME TypeOK, NEW p \in Processes
  PROVE  /\ \A bitcoin \in BOOLEAN :
              Append(Wallets, [name |-> proc[p].name, bitcoin |-> bitcoin, account |-> FALSE]) \in Seq(WalletType)
         /\ [i \in DOMAIN Wallets |->
               IF NameAt(i) = proc[p].name THEN [Wallets[i] EXCEPT !.account = TRUE] ELSE Wallets[i]]
              \in Seq(WalletType)
<1>1. Wallets \in Seq(WalletType) /\ proc[p].name \in Names
  BY DEF TypeOK, WalletType
<1>2. ASSUME NEW bitcoin \in BOOLEAN
      PROVE  Append(Wallets, [name |-> proc[p].name, bitcoin |-> bitcoin, account |-> FALSE]) \in Seq(WalletType)
  <2>1. [name |-> proc[p].name, bitcoin |-> bitcoin, account |-> FALSE] \in WalletType
    BY <1>1, Zenon DEF WalletType
  <2>2. QED BY <1>1, <2>1, AppendProperties
<1>3. \A i \in DOMAIN Wallets : Wallets[i] \in WalletType /\ [Wallets[i] EXCEPT !.account = TRUE] \in WalletType
  <2>1. \A i \in DOMAIN Wallets : Wallets[i] \in WalletType BY <1>1, SMT
  <2>2. QED BY <2>1, Zenon DEF WalletType
<1>4. [i \in DOMAIN Wallets |->
         IF NameAt(i) = proc[p].name THEN [Wallets[i] EXCEPT !.account = TRUE] ELSE Wallets[i]] \in Seq(WalletType)
  BY <1>1, <1>3, SMT
<1>5. QED BY <1>2, <1>4

\* Who migrates does not change.
SameMigrator == \A q \in Processes : proc'[q].at = "migrating" <=> proc[q].at = "migrating"

\* What a step owes the types when it is not one of the schema's.
LEMMA TypesKept ==
  ASSUME TypesInv, SchemaTypeOK', step' = step, SameMigrator,
         db'.content \in Seq(WalletType), file'.content \in Seq(WalletType),
         proc' \in [Processes -> CommandType], halfAdded' \subseteq Names,
         \A p \in Processes : proc'[p].listed <= Len(proc'[p].seen),
         \A p \in Processes : proc'[p].at \in {"open", "migrating", "opened"} => proc'[p].listed = 0
  PROVE  TypesInv'
BY Zenon DEF TypesInv, TypeOK, SameMigrator, Wallets, WalletType, CommandType

\* A step of one process, to another place of its command.
LEMMA OneMoves ==
  ASSUME TypesInv, NEW p \in Processes, NEW s \in CommandType, proc' = [proc EXCEPT ![p] = s],
         s.at # "migrating", proc[p].at # "migrating",
         s.listed <= Len(s.seen), s.at \in {"open", "opened"} => s.listed = 0
  PROVE  /\ proc' \in [Processes -> CommandType] /\ SameMigrator
         /\ \A q \in Processes : proc'[q].listed <= Len(proc'[q].seen)
         /\ \A q \in Processes : proc'[q].at \in {"open", "migrating", "opened"} => proc'[q].listed = 0
<1>1. proc \in [Processes -> CommandType]
  BY DEF TypesInv, TypeOK, CommandType
<1>2. \A q \in Processes : proc'[q] = IF q = p THEN s ELSE proc[q]
  BY <1>1, SMT
<1>3. proc' \in [Processes -> CommandType]
  BY <1>1, SMT
<1>4. \A q \in Processes : proc'[q].listed <= Len(proc'[q].seen)
  BY <1>2, Zenon DEF TypesInv, TypeOK
<1>5. SameMigrator
  BY <1>2, Zenon DEF SameMigrator
<1>6. \A q \in Processes : proc'[q].at \in {"open", "migrating", "opened"} => proc'[q].listed = 0
  BY <1>2, Zenon DEF TypesInv
<1>7. QED BY <1>3, <1>4, <1>5, <1>6

\* A step of one process that writes no wallet.
LEMMA ReadTypes ==
  ASSUME TypesInv, NEW p \in Processes, NEW s \in CommandType, proc' = [proc EXCEPT ![p] = s],
         s.at # "migrating", proc[p].at # "migrating", UNCHANGED schemaVars, halfAdded' \subseteq Names,
         s.listed <= Len(s.seen), s.at \in {"open", "opened"} => s.listed = 0
  PROVE  TypesInv'
<1>1. SchemaTypeOK' /\ step' = step /\ db'.content \in Seq(WalletType) /\ file'.content \in Seq(WalletType)
  BY Zenon DEF TypesInv, TypeOK, SchemaTypeOK, schemaVars, IsSchema, Wallets, WalletType
<1>2. QED BY <1>1, OneMoves, TypesKept

\* One that writes wallets.
LEMMA WriteTypes ==
  ASSUME TypesInv, NEW p \in Processes, NEW s \in CommandType, proc' = [proc EXCEPT ![p] = s],
         s.at # "migrating", proc[p].at # "migrating", halfAdded' \subseteq halfAdded,
         NEW w \in Seq(WalletType), Stored(w),
         s.listed <= Len(s.seen), s.at \in {"open", "opened"} => s.listed = 0
  PROVE  TypesInv'
<1>1. IsSchema(db) BY DEF TypesInv, TypeOK, SchemaTypeOK
<1>2. IsSchema([db EXCEPT !.content = w]) /\ [db EXCEPT !.content = w].content = w
  <2>1. 0 \in Versions BY SMT
  <2>2. IsSchema([db EXCEPT !.content = w]) BY <1>1, <2>1, SchemaWrites, Zenon
  <2>3. [db EXCEPT !.content = w].content = w BY <1>1, SMT DEF IsSchema
  <2>4. QED BY <2>2, <2>3
<1>3. /\ SchemaTypeOK' /\ step' = step /\ halfAdded' \subseteq Names
      /\ db'.content \in Seq(WalletType) /\ file'.content \in Seq(WalletType)
  BY <1>2, Zenon DEF TypesInv, TypeOK, SchemaTypeOK, Stored
<1>4. QED BY <1>3, OneMoves, TypesKept

\* GoTo and Finish, as a new record of the process.
LEMMA Steps ==
  ASSUME proc \in [Processes -> CommandType], NEW p \in Processes
  PROVE  /\ \A a : GoTo(p, a) => proc' = [proc EXCEPT ![p] = [proc[p] EXCEPT !.at = a]]
         /\ \A o : Finish(p, o) => proc' = [proc EXCEPT ![p] = [proc[p] EXCEPT !.at = "idle", !.outcome = o]]
BY DEF GoTo, Finish

\* The calls of the commands keep the types.
LEMMA CommandTypes ==
  ASSUME TypesInv, NEW p \in Processes, Command(p)
  PROVE  TypesInv'
<1> USE DEF SameData
<1> DEFINE s == proc[p]
<1>1. /\ proc \in [Processes -> CommandType] /\ s \in CommandType
      /\ Wallets \in Seq(WalletType) /\ halfAdded \subseteq Names
      /\ s.listed <= Len(s.seen) /\ s.listed \in Nat /\ s.seen \in Seq(Names)
      /\ s.at = "opened" => s.listed = 0
  BY Zenon DEF TypesInv, TypeOK, CommandType, WalletType
<1>f. ASSUME NEW o \in Outcomes PROVE
        /\ [s EXCEPT !.at = "idle", !.outcome = o] \in CommandType
        /\ [s EXCEPT !.at = "idle", !.outcome = o].at = "idle"
        /\ [s EXCEPT !.at = "idle", !.outcome = o].listed = s.listed
        /\ [s EXCEPT !.at = "idle", !.outcome = o].seen = s.seen
  <2>1. [s EXCEPT !.at = "idle", !.outcome = o] \in CommandType
    <3>1. "idle" \in Places BY DEF Places
    <3>2. QED BY <1>1, <3>1, CommandMoves
  <2>2. QED BY <1>1, <2>1, SMT DEF CommandType
<1>g. ASSUME NEW a \in Places PROVE
        /\ [s EXCEPT !.at = a] \in CommandType
        /\ [s EXCEPT !.at = a].at = a
        /\ [s EXCEPT !.at = a].listed = s.listed
        /\ [s EXCEPT !.at = a].seen = s.seen
  <2>1. [s EXCEPT !.at = a] \in CommandType
    <3>1. \E o : o \in Outcomes BY DEF Outcomes
    <3>2. QED BY <1>1, <3>1, CommandMoves, Zenon
  <2>2. QED BY <1>1, <2>1, SMT DEF CommandType
<1> HIDE DEF s
<1>2. ASSUME NEW o \in Outcomes, Finish(p, o), s.at # "migrating", UNCHANGED schemaVars, UNCHANGED halfAdded
      PROVE  TypesInv'
  BY <1>1, <1>2, <1>f, Steps, ReadTypes DEF s
<1>3. ASSUME NEW a \in Places \ {"open", "opened", "migrating"}, GoTo(p, a), s.at # "migrating",
             UNCHANGED schemaVars, UNCHANGED halfAdded
      PROVE  TypesInv'
  <2> DEFINE t == [s EXCEPT !.at = a]
  <2>1. proc' = [proc EXCEPT ![p] = t] BY <1>1, <1>3, Steps DEF s
  <2>2. t \in CommandType /\ t.at = a /\ t.listed = s.listed /\ t.seen = s.seen BY <1>g
  <2> HIDE DEF t
  <2>3. QED BY <1>1, <1>3, <2>1, <2>2, ReadTypes DEF s
<1> USE DEF Outcomes, Places, Running
<1>4. CASE CheckName(p) BY <1>2, <1>3, <1>4 DEF CheckName, s
<1>5. CASE CreateWallet(p)
  <2>1. CASE Taken(p, proc[p].name) BY <1>2, <1>5, <2>1 DEF CreateWallet, s
  <2>2. ASSUME NEW w \in Seq(WalletType), Stored(w), GoTo(p, "created"),
               halfAdded' = halfAdded \ {proc[p].name}
        PROVE  TypesInv'
    <3> DEFINE t == [s EXCEPT !.at = "created"]
    <3>1. proc' = [proc EXCEPT ![p] = t] BY <1>1, <2>2, Steps DEF s
    <3>2. t \in CommandType /\ t.at = "created" /\ t.listed = s.listed /\ t.seen = s.seen BY <1>g
    <3> HIDE DEF t
    <3>3. halfAdded' \subseteq halfAdded BY <2>2
    <3>4. QED BY <1>1, <1>5, <2>2, <3>1, <3>2, <3>3, WriteTypes DEF CreateWallet, s
  <2>3. QED BY <1>5, <2>1, <2>2, WalletsWritten DEF CreateWallet, TypesInv
<1>6. CASE CreateAccount(p)
  <2> DEFINE t == [s EXCEPT !.at = "idle", !.outcome = "added"]
             w == [i \in DOMAIN Wallets |->
                     IF NameAt(i) = proc[p].name THEN [Wallets[i] EXCEPT !.account = TRUE] ELSE Wallets[i]]
  <2>1. Stored(w) /\ UNCHANGED halfAdded /\ s.at = "created" BY <1>6 DEF CreateAccount, s
  <2>2. proc' = [proc EXCEPT ![p] = t] BY <1>1, <1>6, Steps DEF CreateAccount, s
  <2>3. "added" \in Outcomes OBVIOUS
  <2>4. t \in CommandType /\ t.at = "idle" /\ t.listed = s.listed /\ t.seen = s.seen BY <2>3, <1>f
  <2>5. w \in Seq(WalletType) BY WalletsWritten DEF TypesInv
  <2> HIDE DEF t, w
  <2>6. s.at # "migrating" /\ t.at # "migrating" /\ t.at \notin {"open", "opened"} BY <2>1, <2>4
  <2>7. QED BY <1>1, <2>1, <2>2, <2>4, <2>5, <2>6, WriteTypes DEF s
<1>7. CASE ReadWallets(p)
  <2> DEFINE a == IF Listed = <<>> THEN "idle" ELSE "listing"
             o == IF Listed = <<>> THEN "none" ELSE s.outcome
             t == [s EXCEPT !.seen = Listed, !.at = a, !.outcome = o]
  <2>1. proc' = [proc EXCEPT ![p] = t] BY <1>1, <1>7 DEF ReadWallets, s
  <2>2. Listed \in Seq(Names) /\ a \in Places /\ o \in Outcomes
    BY <1>1, ListedNames DEF CommandType
  <2>3. t \in CommandType BY <1>1, <2>2, CommandMoves
  <2>4. t.at = a /\ t.listed = 0 /\ t.seen = Listed BY <1>1, <1>7, SMT DEF CommandType, ReadWallets, s
  <2>5. t.listed <= Len(t.seen) BY <2>2, <2>4, LenProperties, SMT
  <2> HIDE DEF t
  <2>6. QED BY <1>7, <2>1, <2>3, <2>4, <2>5, ReadTypes DEF ReadWallets, s, TypesInv, TypeOK
<1>8. CASE PrintNext(p)
  <2>1. CASE proc' = [proc EXCEPT ![p].listed = @ + 1]
    <3> DEFINE t == [s EXCEPT !.listed = s.listed + 1]
    <3>1. proc' = [proc EXCEPT ![p] = t] BY <1>1, <2>1 DEF s
    <3>2. t \in CommandType
      <4>1. s.listed + 1 \in Nat BY <1>1, SMT
      <4>2. QED BY <1>1, <4>1, Zenon DEF CommandType
    <3>3. t.at = s.at /\ t.listed = s.listed + 1 /\ t.seen = s.seen BY <1>1, SMT DEF CommandType
    <3>4. t.listed <= Len(t.seen) BY <1>1, <1>8, <3>3, LenProperties, SMT DEF PrintNext, s
    <3> HIDE DEF t
    <3>5. QED BY <1>8, <3>1, <3>2, <3>3, <3>4, ReadTypes DEF PrintNext, s, TypesInv, TypeOK
  <2>2. QED BY <1>2, <1>8, <2>1 DEF PrintNext, s
<1>9. CASE ListEnds(p) BY <1>2, <1>9 DEF ListEnds, s
<1>10. CASE GetWallet(p) BY <1>2, <1>3, <1>10 DEF GetWallet, s
<1>11. CASE GetAccount(p) BY <1>2, <1>3, <1>11 DEF GetAccount, s
<1>12. CASE UseAccount(p) BY <1>2, <1>12 DEF UseAccount, s
<1>13. QED BY <1>4, <1>5, <1>6, <1>7, <1>8, <1>9, <1>10, <1>11, <1>12 DEF Command

\* A migration leaves the wallets as they are; a rollback may empty them, or
\* go back to those on disk.
LEMMA SchemaContent ==
  ASSUME SchemaTypeOK
  PROVE  /\ BeginMigrate \/ Migrate \/ UpdateVersion \/ MigrateReturns \/ BeginRollback =>
              db'.content = db.content /\ file'.content \in {db.content, file.content}
         /\ RollbackStep =>
              /\ db'.content \in {db.content, file.content, NoContent}
              /\ file'.content \in {db.content, file.content, NoContent}
         /\ Interrupted => db' = file /\ file' = file
<1>1. ASSUME NEW a, NEW v
      PROVE [db EXCEPT !.applied = a].content = db.content /\ [db EXCEPT !.version = v].content = db.content
  BY SMT DEF SchemaTypeOK, IsSchema
<1>2. \A v : RolledBack(v).content \in {db.content, NoContent}
  BY <1>1, SMT DEF RolledBack
<1>3. BeginMigrate \/ Migrate \/ UpdateVersion \/ MigrateReturns \/ BeginRollback =>
        db'.content = db.content /\ file'.content \in {db.content, file.content}
  BY <1>1, Zenon DEF BeginMigrate, Migrate, UpdateVersion, MigrateReturns, BeginRollback, Write, Commit
<1>4. ASSUME RollbackStep
      PROVE  /\ db'.content \in {db.content, file.content, NoContent}
             /\ file'.content \in {db.content, file.content, NoContent}
  BY <1>1, <1>2, <1>4, Zenon
     DEF RollbackStep, Rollback, LowerVersion, RollbackReturns, MissingRollback, Write, Commit
<1>5. QED BY <1>3, <1>4 DEF Interrupted

\* All the steps of the system keep the types.
LEMMA TypesNext ==
  ASSUME PoolInv, TypesInv, [Next]_vars
  PROVE  TypesInv'
<1>0. /\ proc \in [Processes -> CommandType] /\ SchemaTypeOK /\ SchemaInv /\ step \in StepType
      /\ Wallets \in Seq(WalletType) /\ file.content \in Seq(WalletType) /\ halfAdded \subseteq Names
      /\ \A p \in Processes : proc[p].listed <= Len(proc[p].seen) /\ proc[p].listed \in Nat
      /\ \A p \in Processes : proc[p].at \in {"open", "migrating", "opened"} => proc[p].listed = 0
      /\ step.at \in {"migrate", "update"} <=> \E p \in Processes : proc[p].at = "migrating"
      /\ \A p, q \in Processes : proc[p].at = "migrating" /\ proc[q].at = "migrating" => p = q
  BY Zenon DEF TypesInv, TypeOK, CommandType, WalletType, SchemaTypeOK, PoolInv
<1>n. NoContent \in Seq(WalletType) BY NoContentAssumption, SMT
\* A step of the schema, and perhaps of the process that is at it.
<1>s. ASSUME BeginMigrate \/ Migrate \/ UpdateVersion \/ MigrateReturns \/ BeginRollback \/ RollbackStep \/ Interrupted,
             proc' \in [Processes -> CommandType], halfAdded' \subseteq Names,
             \A p \in Processes : proc'[p].listed <= Len(proc'[p].seen),
             \A p \in Processes : proc'[p].at \in {"open", "migrating", "opened"} => proc'[p].listed = 0,
             step'.at \in {"migrate", "update"} <=> \E p \in Processes : proc'[p].at = "migrating",
             \A p, q \in Processes : proc'[p].at = "migrating" /\ proc'[q].at = "migrating" => p = q
      PROVE  TypesInv'
  <2>1. SchemaTypeOK' BY <1>0, <1>s, SchemaTypes
  <2>2. db'.content \in Seq(WalletType) /\ file'.content \in Seq(WalletType)
    BY <1>0, <1>n, <1>s, SchemaContent, Zenon DEF Wallets
  <2>3. QED BY <1>s, <2>1, <2>2, Zenon DEF TypesInv, TypeOK, Wallets, WalletType, CommandType
<1>1. ASSUME NEW p \in Processes, NEW cmd \in Commands, NEW name \in Names, Start(p, cmd, name) PROVE TypesInv'
  <2> DEFINE t == [at |-> "open", cmd |-> cmd, name |-> name, seen |-> <<>>, listed |-> 0, outcome |-> "nothing"]
  <2>1. proc' = [proc EXCEPT ![p] = t]
    <3>1. [Fresh(cmd, name) EXCEPT !.at = "open"] = t BY SMT DEF Fresh
    <3>2. QED BY <1>1, <3>1, Zenon DEF Start
  <2>2. t \in CommandType BY SMT DEF CommandType, Places, Outcomes
  <2>3. t.at = "open" /\ t.listed = 0 /\ t.listed <= Len(t.seen) BY SMT
  <2> HIDE DEF t
  <2>4. QED BY <1>0, <1>1, <2>1, <2>2, <2>3, ReadTypes DEF Start, SameData
<1>2. ASSUME NEW p \in Processes, OpenPool(p) PROVE TypesInv'
  <2>1. step.at = "none" /\ step'.at = "migrate" BY <1>2, SMT DEF OpenPool, BeginMigrate
  <2>2. /\ proc[p].at = "open"
        /\ \A q \in Processes : proc'[q] = IF q = p THEN [proc[p] EXCEPT !.at = "migrating"] ELSE proc[q]
    BY <1>0, <1>2, SMT DEF OpenPool, GoTo
  <2>3. proc' \in [Processes -> CommandType]
    <3>1. [proc[p] EXCEPT !.at = "migrating"] \in CommandType
      BY <1>0, Zenon DEF CommandType, Places
    <3>2. proc' = [proc EXCEPT ![p] = [proc[p] EXCEPT !.at = "migrating"]] BY <1>0, <1>2, Steps DEF OpenPool
    <3>3. QED BY <1>0, <3>1, <3>2, SMT
  <2>4. /\ [proc[p] EXCEPT !.at = "migrating"].at = "migrating"
        /\ [proc[p] EXCEPT !.at = "migrating"].listed = proc[p].listed
        /\ [proc[p] EXCEPT !.at = "migrating"].seen = proc[p].seen
    BY <1>0, SMT DEF CommandType
  <2>5. QED BY <1>0, <1>2, <1>s, <2>1, <2>2, <2>3, <2>4, Zenon DEF OpenPool
<1>3. ASSUME NEW p \in Processes, MigratePool(p) PROVE TypesInv'
  <2>1. CASE (Migrate \/ UpdateVersion) /\ UNCHANGED proc
    <3>1. step.at \in {"migrate", "update"} /\ step'.at \in {"migrate", "update"}
      <4>1. DOMAIN step = {"at", "version", "current", "changed"} BY <1>0, SMT DEF StepType
      <4>2. CASE Migrate BY <4>1, <4>2, SMT DEF Migrate
      <4>3. CASE UpdateVersion BY <4>1, <4>3, SMT DEF UpdateVersion
      <4>4. QED BY <2>1, <4>2, <4>3
    <3>2. QED BY <1>0, <1>3, <1>s, <2>1, <3>1, Zenon DEF MigratePool
  <2>2. CASE MigrateReturns /\ GoTo(p, "opened")
    <3>1. step'.at = "none" BY <2>2, SMT DEF MigrateReturns
    <3>2. \A q \in Processes : proc'[q] = IF q = p THEN [proc[p] EXCEPT !.at = "opened"] ELSE proc[q]
      BY <1>0, <2>2, SMT DEF GoTo
    <3>3. proc' \in [Processes -> CommandType]
      <4>1. [proc[p] EXCEPT !.at = "opened"] \in CommandType
        BY <1>0, Zenon DEF CommandType, Places, Running
      <4>2. proc' = [proc EXCEPT ![p] = [proc[p] EXCEPT !.at = "opened"]] BY <1>0, <2>2, Steps
      <4>3. QED BY <1>0, <4>1, <4>2, SMT
    <3>4. /\ [proc[p] EXCEPT !.at = "opened"].at = "opened"
          /\ [proc[p] EXCEPT !.at = "opened"].listed = proc[p].listed
          /\ [proc[p] EXCEPT !.at = "opened"].seen = proc[p].seen
      BY <1>0, SMT DEF CommandType
    <3>5. proc[p].at = "migrating" BY <1>3 DEF MigratePool
    <3>6. \A q \in Processes : proc'[q].at # "migrating"
      <4>1. \A q \in Processes : proc[q].at = "migrating" => q = p BY <1>0, <3>5, Zenon
      <4>2. \A q \in Processes : q # p => proc'[q].at # "migrating" BY <3>2, <4>1, Zenon
      <4>3. proc'[p].at = "opened" BY <3>2, <3>4
      <4>4. QED BY <4>2, <4>3
    <3>7. UNCHANGED halfAdded BY <1>3 DEF MigratePool
    <3>8. /\ \A q \in Processes : proc'[q].listed <= Len(proc'[q].seen)
          /\ \A q \in Processes : proc'[q].at \in {"open", "migrating", "opened"} => proc'[q].listed = 0
      <4>1. proc[p].listed = 0 BY <1>0, <3>5, Zenon
      <4>2. proc'[p].listed = 0 BY <3>2, <3>4, <4>1, Zenon
      <4>3. proc'[p].listed <= Len(proc'[p].seen) BY <1>0, <3>2, <3>4, Zenon
      <4>4. ASSUME NEW q \in Processes, q # p
            PROVE  /\ proc'[q].listed <= Len(proc'[q].seen)
                   /\ proc'[q].at \in {"open", "migrating", "opened"} => proc'[q].listed = 0
        BY <1>0, <3>2, <4>4, Zenon
      <4>5. QED BY <4>2, <4>3, <4>4, Zenon
    <3>9. /\ step'.at \in {"migrate", "update"} <=> \E q \in Processes : proc'[q].at = "migrating"
          /\ \A q, r \in Processes : proc'[q].at = "migrating" /\ proc'[r].at = "migrating" => q = r
      <4>1. step'.at \notin {"migrate", "update"} BY <3>1
      <4>2. QED BY <3>6, <4>1, Zenon
    <3>10. halfAdded' \subseteq Names BY <1>0, <3>7
    <3>11. QED BY <1>s, <2>2, <3>3, <3>8, <3>9, <3>10, Zenon
  <2>3. QED BY <1>3, <2>1, <2>2 DEF MigratePool
<1>4. ASSUME NEW p \in Processes, Die(p) PROVE TypesInv'
  <2> DEFINE t == [proc[p] EXCEPT !.at = "idle", !.outcome = "failed"]
  <2>1. proc' = [proc EXCEPT ![p] = t] BY <1>0, <1>4, Steps DEF Die
  <2>2. t \in CommandType BY <1>0, Zenon DEF CommandType, Places, Outcomes
  <2>3. t.at = "idle" /\ t.listed = proc[p].listed /\ t.seen = proc[p].seen BY <1>0, SMT DEF CommandType
  <2> HIDE DEF t
  <2>4. halfAdded' \subseteq Names
    <3>1. proc[p].name \in Names BY <1>0 DEF CommandType
    <3>2. QED BY <1>0, <1>4, <3>1 DEF Die
  <2>5. CASE proc[p].at # "migrating"
    BY <1>0, <1>4, <2>1, <2>2, <2>3, <2>4, <2>5, ReadTypes DEF Die
  <2>6. CASE proc[p].at = "migrating"
    <3>1. Interrupted /\ step'.at = "none" BY <1>4, <2>6, SMT DEF Die, Interrupted
    <3>2. \A q \in Processes : proc'[q] = IF q = p THEN t ELSE proc[q] BY <1>0, <2>1, SMT
    <3>3. proc' \in [Processes -> CommandType] BY <1>0, <2>1, <2>2, SMT
    <3>4. \A q \in Processes : proc'[q].at # "migrating" BY <1>0, <2>3, <2>6, <3>2, Zenon
    <3>5. QED BY <1>0, <1>s, <2>3, <2>4, <3>1, <3>2, <3>3, <3>4, Zenon
  <2>7. QED BY <2>5, <2>6
<1>5. CASE BeginReset
  <2>1. PICK name \in Names : proc' = [p \in Processes |-> Fresh("list", name)] BY <1>5 DEF BeginReset
  <2>2. Fresh("list", name) \in CommandType BY SMT DEF Fresh, CommandType, Places, Commands, Outcomes
  <2>3. /\ Fresh("list", name).at = "idle" /\ Fresh("list", name).listed = 0
        /\ 0 <= Len(Fresh("list", name).seen)
    BY SMT DEF Fresh
  <2>4. step'.at = "rollback" BY <1>5, SMT DEF BeginReset, BeginRollback
  <2>5. \A p \in Processes : proc'[p] = Fresh("list", name) BY <2>1
  <2>6. proc' \in [Processes -> CommandType] BY <2>1, <2>2
  <2>7. QED BY <1>0, <1>5, <1>s, <2>3, <2>4, <2>5, <2>6, Zenon DEF BeginReset
<1>6. CASE Reset
  <2>1. step.at \in {"rollback", "lower"} /\ step'.at \in {"rollback", "lower", "none"}
    <3>1. step.at \in {"rollback", "lower"} BY <1>6 DEF Reset, Resetting
    <3>2. DOMAIN step = {"at", "version", "current", "changed"} BY <1>0, SMT DEF StepType
    <3>3. CASE Rollback
      <4>1. CASE step.current = step.version /\ step.version # 0 BY <3>1, <3>2, <3>3, <4>1, SMT DEF Rollback
      <4>2. CASE step.current = step.version /\ step.version = 0
        <5>1. step' = [step EXCEPT !.version = -1, !.current = -1] BY <3>3, <4>2, Zenon DEF Rollback
        <5>2. QED BY <3>1, <3>2, <5>1, SMT
      <4>3. CASE step.current # step.version BY <3>1, <3>2, <3>3, <4>3, SMT DEF Rollback
      <4>4. QED BY <4>1, <4>2, <4>3
    <3>4. CASE LowerVersion BY <3>1, <3>2, <3>4, SMT DEF LowerVersion
    <3>5. CASE RollbackReturns \/ MissingRollback \/ Interrupted
      BY <3>1, <3>5, SMT DEF RollbackReturns, MissingRollback, Interrupted
    <3>6. QED BY <1>6, <3>1, <3>3, <3>4, <3>5 DEF Reset, RollbackStep
  <2>2. \A p \in Processes : proc[p].at # "migrating" BY <1>0, <2>1, Zenon
  <2>3. step'.at \notin {"migrate", "update"} BY <2>1
  <2>4. UNCHANGED <<proc, halfAdded>> /\ (RollbackStep \/ Interrupted) BY <1>6 DEF Reset
  <2>5. QED BY <1>0, <1>s, <2>2, <2>3, <2>4, Zenon
<1>7. CASE UNCHANGED vars
  BY <1>7, Zenon DEF vars, TypesInv, TypeOK, SchemaTypeOK, IsSchema, Wallets
<1>8. QED BY <1>1, <1>2, <1>3, <1>4, <1>5, <1>6, <1>7, CommandTypes DEF Next

\* A name has one wallet, and a wallet without an account is an add's.
GoodWallets(wallets) ==
  /\ \A i, j \in DOMAIN wallets : wallets[i].name = wallets[j].name => i = j
  /\ \A i \in DOMAIN wallets : ~wallets[i].account => Unfinished(wallets[i].name)

\* What the commands rest on: the wallets on disk are those of the session,
\* except while the database is reset, when no command says anything of them.
ContentInv ==
  /\ GoodWallets(db.content) /\ GoodWallets(file.content)
  /\ IF Resetting
     THEN \A p \in Processes : proc[p].at \in {"idle", "open"} /\ proc[p].outcome \in {"nothing", "failed"}
     ELSE file.content = db.content

\* What a process has said, and what it has found so far, is so.
Word(p) ==
  /\ Says(p, "added") \/ Says(p, "done") => HasAccount(proc[p].name)
  /\ Says(p, "exists") => Has(proc[p].name)
  /\ Says(p, "listed") => \A i \in DOMAIN proc[p].seen : HasAccount(proc[p].seen[i])
  /\ proc[p].at = "created" => Has(proc[p].name)
  /\ proc[p].at = "listing" => \A i \in 1..proc[p].listed : HasAccount(proc[p].seen[i])
  /\ proc[p].at = "account" => HasAccount(proc[p].name)

TruthInv == PoolInv /\ TypesInv /\ ContentInv /\ \A p \in Processes : Word(p)

\* Wallets are only added, and only get accounts.
Grow ==
  /\ DOMAIN Wallets \subseteq DOMAIN Wallets'
  /\ \A i \in DOMAIN Wallets : NameAt(i)' = NameAt(i) /\ (Wallets[i].account => Wallets'[i].account)

\* Then what was there is there.
LEMMA GrowKeeps ==
  ASSUME Grow
  PROVE  \A name : (Has(name) => Has(name)') /\ (HasAccount(name) => HasAccount(name)')
<1>1. ASSUME NEW name, Has(name) PROVE Has(name)'
  BY <1>1, Zenon DEF Grow, Has
<1>2. ASSUME NEW name, HasAccount(name) PROVE HasAccount(name)'
  BY <1>2, Zenon DEF Grow, HasAccount
<1>3. QED BY <1>1, <1>2

\* And a process that does not move keeps its word.
LEMMA WordKept ==
  ASSUME Grow, NEW p \in Processes, proc'[p] = proc[p], Word(p)
  PROVE  Word(p)'
BY GrowKeeps, Zenon DEF Word, Says

\* A step of one process that writes nothing: the others keep their word.
LEMMA ReadTruth ==
  ASSUME TruthInv, NEW p \in Processes, UNCHANGED schemaVars,
         \A q \in Processes \ {p} : proc'[q] = proc[q],
         \A name : Unfinished(name) => Unfinished(name)',
         Resetting => proc'[p].at \in {"idle", "open"} /\ proc'[p].outcome \in {"nothing", "failed"},
         Word(p)'
  PROVE  ContentInv' /\ \A q \in Processes : Word(q)'
<1>1. db' = db /\ file' = file /\ step' = step BY DEF schemaVars
<1>2. ContentInv'
  <2>1. GoodWallets(db.content)' /\ GoodWallets(file.content)'
    BY <1>1, Zenon DEF TruthInv, ContentInv, GoodWallets
  <2>2. CASE Resetting
    <3>1. \A q \in Processes : proc'[q].at \in {"idle", "open"} /\ proc'[q].outcome \in {"nothing", "failed"}
      BY <2>2, Zenon DEF TruthInv, ContentInv
    <3>2. QED BY <1>1, <2>1, <2>2, <3>1, Zenon DEF ContentInv, Resetting
  <2>3. CASE ~Resetting BY <1>1, <2>1, <2>3, Zenon DEF TruthInv, ContentInv, Resetting
  <2>4. QED BY <2>2, <2>3
<1>3. Grow BY <1>1, Zenon DEF Grow, Wallets, NameAt
<1>4. QED BY <1>2, <1>3, WordKept, Zenon DEF TruthInv

\* The fields of a process after GoTo or Finish.
LEMMA StepFields ==
  ASSUME TypesInv, NEW p \in Processes
  PROVE  /\ \A a : GoTo(p, a) =>
              /\ proc'[p].at = a /\ proc'[p].outcome = proc[p].outcome /\ proc'[p].name = proc[p].name
              /\ proc'[p].seen = proc[p].seen /\ proc'[p].listed = proc[p].listed
              /\ \A q \in Processes \ {p} : proc'[q] = proc[q]
         /\ \A o : Finish(p, o) =>
              /\ proc'[p].at = "idle" /\ proc'[p].outcome = o /\ proc'[p].name = proc[p].name
              /\ proc'[p].seen = proc[p].seen /\ proc'[p].listed = proc[p].listed
              /\ \A q \in Processes \ {p} : proc'[q] = proc[q]
<1>1. proc \in [Processes -> CommandType] /\ proc[p] \in CommandType
  BY DEF TypesInv, TypeOK, CommandType
<1>2. DOMAIN proc = Processes /\ DOMAIN proc[p] = {"at", "cmd", "name", "seen", "listed", "outcome"}
  BY <1>1, SMT DEF CommandType
<1>3. QED BY <1>2, SMT DEF GoTo, Finish

\* The calls that write no wallet.
LEMMA ReadingTruth ==
  ASSUME TruthInv, NEW p \in Processes,
         CheckName(p) \/ ReadWallets(p) \/ PrintNext(p) \/ ListEnds(p) \/ GetWallet(p) \/ GetAccount(p) \/ UseAccount(p)
  PROVE  ContentInv' /\ \A q \in Processes : Word(q)'
<1> USE DEF Says
<1>1. UNCHANGED schemaVars /\ halfAdded' = halfAdded /\ proc[p].at \notin {"idle", "open", "created"} /\ db' = db
  BY DEF CheckName, ReadWallets, PrintNext, ListEnds, GetWallet, GetAccount, UseAccount, SameData, schemaVars
<1>2. /\ TypesInv /\ Word(p) /\ ~Resetting /\ Wallets \in Seq(WalletType)
      /\ proc \in [Processes -> CommandType] /\ proc[p] \in CommandType
  BY <1>1, Zenon DEF TruthInv, ContentInv, TypesInv, TypeOK, CommandType, WalletType
<1>3. DOMAIN proc = Processes /\ DOMAIN proc[p] = {"at", "cmd", "name", "seen", "listed", "outcome"}
  BY <1>2, SMT DEF CommandType
<1>4. \A name : (Has(name)' <=> Has(name)) /\ (HasAccount(name)' <=> HasAccount(name))
  BY <1>1, Zenon DEF Has, HasAccount, Wallets, NameAt
<1>w. ASSUME Word(p)', \A q \in Processes \ {p} : proc'[q] = proc[q]
      PROVE  ContentInv' /\ \A q \in Processes : Word(q)'
  <2>1. \A name : Unfinished(name) => Unfinished(name)' BY <1>1, <1>w, Zenon DEF Unfinished
  <2>2. QED BY <1>1, <1>2, <1>w, <2>1, ReadTruth
<1>5. CASE CheckName(p)
  <2>1. CASE \E i \in DOMAIN Listed : Listed[i] = proc[p].name
    <3>1. Has(proc[p].name) BY <1>2, <2>1, ListedNames, Zenon DEF Has
    <3>2. Finish(p, "exists") BY <1>5, <2>1 DEF CheckName
    <3>3. QED BY <1>2, <1>4, <1>w, <3>1, <3>2, StepFields, SMT DEF Word
  <2>2. CASE GoTo(p, "checked")
    BY <1>2, <1>w, <2>2, StepFields, SMT DEF Word
  <2>3. QED BY <1>5, <2>1, <2>2 DEF CheckName
<1>6. CASE ReadWallets(p)
  <2>1. proc'[p].at \in {"idle", "listing"} /\ proc'[p].listed = proc[p].listed
        /\ (proc'[p].at = "idle" => proc'[p].outcome = "none") /\ \A q \in Processes \ {p} : proc'[q] = proc[q]
    BY <1>3, <1>6, SMT DEF ReadWallets
  <2>2. proc'[p].listed = 0 BY <1>2, <1>6, <2>1 DEF TypesInv, ReadWallets
  <2>3. QED BY <1>w, <2>1, <2>2, SMT DEF Word
<1>7. CASE PrintNext(p)
  <2> DEFINE n == proc[p].listed + 1
  <2>1. CASE GetsAccount(proc[p].seen[n])
    <3>1. /\ proc'[p].at = "listing" /\ proc'[p].listed = n /\ proc'[p].seen = proc[p].seen
          /\ \A q \in Processes \ {p} : proc'[q] = proc[q]
      BY <1>3, <1>7, <2>1, SMT DEF PrintNext
    <3>2. proc[p].listed \in Nat BY <1>2, SMT DEF CommandType
    <3>3. ASSUME NEW i \in 1..n PROVE HasAccount(proc[p].seen[i])
      <4>1. i = n \/ i \in 1..proc[p].listed BY <3>2, SMT
      <4>2. QED BY <1>2, <1>7, <2>1, <4>1, Zenon DEF Word, PrintNext, GetsAccount
    <3> HIDE DEF n
    <3>4. QED BY <1>4, <1>w, <3>1, <3>3, Zenon DEF Word
  <2>2. CASE ~GetsAccount(proc[p].seen[n])
    <3>1. Finish(p, "failed") BY <1>7, <2>2 DEF PrintNext
    <3>2. QED BY <1>2, <1>w, <3>1, StepFields, SMT DEF Word
  <2>3. QED BY <2>1, <2>2
<1>8. CASE ListEnds(p)
  <2>1. DOMAIN proc[p].seen = 1..proc[p].listed
    <3>1. proc[p].seen \in Seq(Names) BY <1>2, SMT DEF CommandType
    <3>2. QED BY <1>8, <3>1, LenProperties, SMT DEF ListEnds
  <2>2. \A i \in DOMAIN proc[p].seen : HasAccount(proc[p].seen[i])
    BY <1>2, <1>8, <2>1, Zenon DEF Word, ListEnds
  <2>3. Finish(p, "listed") BY <1>8 DEF ListEnds
  <2>4. QED BY <1>2, <1>4, <1>w, <2>2, <2>3, StepFields, SMT DEF Word
<1>9. CASE GetWallet(p)
  <2>1. Finish(p, "failed") \/ Finish(p, "refused") \/ GoTo(p, "wallet") BY <1>9 DEF GetWallet
  <2>2. QED BY <1>2, <1>w, <2>1, StepFields, SMT DEF Word
<1>10. CASE GetAccount(p)
  <2>1. CASE GetsAccount(proc[p].name)
    <3>1. GoTo(p, "account") /\ HasAccount(proc[p].name) BY <1>10, <2>1 DEF GetAccount, GetsAccount
    <3>2. QED BY <1>2, <1>4, <1>w, <3>1, StepFields, SMT DEF Word
  <2>2. CASE ~GetsAccount(proc[p].name)
    <3>1. Finish(p, "failed") BY <1>10, <2>2 DEF GetAccount
    <3>2. QED BY <1>2, <1>w, <3>1, StepFields, SMT DEF Word
  <2>3. QED BY <2>1, <2>2
<1>11. CASE UseAccount(p)
  <2>1. Finish(p, "done") /\ HasAccount(proc[p].name) BY <1>2, <1>11 DEF UseAccount, Word
  <2>2. QED BY <1>2, <1>4, <1>w, <2>1, StepFields, SMT DEF Word
<1>12. QED BY <1>5, <1>6, <1>7, <1>8, <1>9, <1>10, <1>11

\* The calls that write wallets: the process that writes keeps its word, the
\* others theirs, and so do the wallets.
LEMMA WritingTruth ==
  ASSUME TruthInv, NEW p \in Processes, CreateWallet(p) \/ CreateAccount(p)
  PROVE  ContentInv' /\ \A q \in Processes : Word(q)'
<1> USE DEF Says
<1>1. /\ TypesInv /\ PoolInv /\ Word(p) /\ Wallets \in Seq(WalletType)
      /\ proc \in [Processes -> CommandType] /\ proc[p] \in CommandType /\ proc[p].at \in Running
      /\ \A q \in Processes : Word(q)
  BY Zenon DEF TruthInv, TypesInv, TypeOK, CommandType, WalletType, CreateWallet, CreateAccount, Running
<1>2. ~Resetting /\ GoodWallets(Wallets)
  BY <1>1, Zenon DEF TruthInv, ContentInv, Running, Wallets
<1>3. DOMAIN Wallets = 1..Len(Wallets) /\ Len(Wallets) \in Nat BY <1>1, SMT
<1>w. ASSUME NEW w, Stored(w) PROVE Wallets' = w /\ file'.content = w /\ Resetting' = Resetting
  <2>1. IsSchema(db) BY <1>1 DEF TypesInv, TypeOK, SchemaTypeOK
  <2>2. [db EXCEPT !.content = w].content = w BY <2>1, SMT DEF IsSchema
  <2>3. QED BY <1>w, <2>2, Zenon DEF Stored, Wallets, Resetting
<1>4. CASE CreateWallet(p)
  <2>1. CASE Taken(p, proc[p].name)
    <3>1. Finish(p, "failed") /\ UNCHANGED schemaVars /\ halfAdded' = halfAdded /\ proc[p].at = "checked"
      BY <1>4, <2>1 DEF CreateWallet, SameData
    <3>2. /\ proc'[p].at = "idle" /\ proc'[p].outcome = "failed" /\ \A q \in Processes \ {p} : proc'[q] = proc[q]
      BY <1>1, <3>1, StepFields
    <3>3. Word(p)' BY <3>2, SMT DEF Word
    <3>4. \A name : Unfinished(name) => Unfinished(name)' BY <1>1, <3>1, <3>2, Zenon DEF Unfinished
    <3>5. QED BY <1>2, <3>1, <3>2, <3>3, <3>4, ReadTruth
  <2>2. CASE ~Taken(p, proc[p].name)
    <3>1. PICK bitcoin \in BOOLEAN :
            Stored(Append(Wallets, [name |-> proc[p].name, bitcoin |-> bitcoin, account |-> FALSE]))
      BY <1>4, <2>2 DEF CreateWallet
    <3> DEFINE r == [name |-> proc[p].name, bitcoin |-> bitcoin, account |-> FALSE]
               n == Len(Wallets) + 1
    <3>2. /\ DOMAIN Wallets' = 1..n /\ Wallets'[n] = r /\ \A i \in DOMAIN Wallets : Wallets'[i] = Wallets[i]
          /\ file'.content = Wallets' /\ ~Resetting'
      <4>1. r \in WalletType BY <1>1, Zenon DEF WalletType, CommandType
      <4>2. Wallets' = Append(Wallets, r) /\ file'.content = Append(Wallets, r) /\ ~Resetting'
        BY <1>2, <1>w, <3>1
      <4> HIDE DEF r
      <4>3. QED BY <1>1, <1>3, <4>1, <4>2, AppendProperties, SMT
    <3>3. GoTo(p, "created") /\ proc[p].at = "checked" /\ halfAdded' = halfAdded \ {proc[p].name}
      BY <1>4, <2>2 DEF CreateWallet
    <3>4. /\ proc'[p].at = "created" /\ proc'[p].name = proc[p].name
          /\ \A q \in Processes \ {p} : proc'[q] = proc[q]
      BY <1>1, <3>3, StepFields
    <3>5. r.name = proc[p].name /\ r.account = FALSE BY SMT
    <3>6. \A i \in 1..n : i \in DOMAIN Wallets \/ i = n BY <1>3, SMT
    <3>7. DOMAIN Wallets \subseteq 1..n /\ n \in 1..n BY <1>3, SMT
    <3> HIDE DEF r, n
    <3>8. Grow BY <3>2, <3>7, Zenon DEF Grow, NameAt
    <3>9. Has(proc[p].name)' BY <3>2, <3>4, <3>5, <3>7, Zenon DEF Has, NameAt
    <3>10. Word(p)' BY <3>4, <3>9, SMT DEF Word
    <3>11. \A name : Unfinished(name) => Unfinished(name)'
      BY <1>1, <3>3, <3>4, Zenon DEF Unfinished
    <3>12. \A i \in DOMAIN Wallets : Wallets[i].name # proc[p].name
      BY <2>2, Zenon DEF Taken, Has, NameAt
    <3>13. ASSUME NEW i \in 1..n, NEW j \in 1..n, Wallets'[i].name = Wallets'[j].name PROVE i = j
      <4>1. CASE i \in DOMAIN Wallets /\ j \in DOMAIN Wallets
        BY <1>2, <3>2, <3>13, <4>1, Zenon DEF GoodWallets
      <4>2. CASE i = n \/ j = n BY <3>2, <3>5, <3>6, <3>12, <3>13, <4>2, Zenon
      <4>3. QED BY <3>6, <4>1, <4>2
    <3>14. ASSUME NEW i \in 1..n, ~Wallets'[i].account PROVE Unfinished(Wallets[i].name)'
      <4>1. CASE i \in DOMAIN Wallets BY <1>2, <3>2, <3>11, <3>14, <4>1, Zenon DEF GoodWallets
      <4>2. CASE i = n
        <5>1. Wallets'[i].name = proc'[p].name BY <3>2, <3>4, <3>5, <4>2
        <5>2. QED BY <3>4, <5>1, Zenon DEF Unfinished
      <4>3. QED BY <3>6, <4>1, <4>2
    <3>15. GoodWallets(Wallets)' BY <3>2, <3>13, <3>14, Zenon DEF GoodWallets
    <3>16. ContentInv' BY <3>2, <3>15, Zenon DEF ContentInv, Wallets
    <3>17. QED BY <1>1, <3>4, <3>8, <3>10, <3>16, WordKept, Zenon
  <2>3. QED BY <2>1, <2>2
<1>5. CASE CreateAccount(p)
  <2> DEFINE w == [i \in DOMAIN Wallets |->
                     IF NameAt(i) = proc[p].name THEN [Wallets[i] EXCEPT !.account = TRUE] ELSE Wallets[i]]
  <2>1. Wallets' = w /\ file'.content = w /\ ~Resetting' BY <1>2, <1>5, <1>w DEF CreateAccount
  <2>2. ASSUME NEW i \in DOMAIN Wallets
        PROVE  /\ Wallets'[i].name = Wallets[i].name
               /\ Wallets'[i].account = (Wallets[i].account \/ Wallets[i].name = proc[p].name)
    <3>1. Wallets[i] \in WalletType BY <1>1, SMT
    <3>2. [Wallets[i] EXCEPT !.account = TRUE].name = Wallets[i].name
          /\ [Wallets[i] EXCEPT !.account = TRUE].account = TRUE
      BY <3>1, SMT DEF WalletType
    <3>3. Wallets[i].account \in BOOLEAN BY <3>1, Zenon DEF WalletType
    <3>4. Wallets'[i] = IF NameAt(i) = proc[p].name THEN [Wallets[i] EXCEPT !.account = TRUE] ELSE Wallets[i]
      BY <2>1
    <3>5. QED BY <3>2, <3>3, <3>4, Zenon DEF NameAt
  <2>3. DOMAIN Wallets' = DOMAIN Wallets BY <2>1
  <2> HIDE DEF w
  <2>4. Grow BY <2>2, <2>3, Zenon DEF Grow, NameAt
  <2>5. Finish(p, "added") /\ proc[p].at = "created" /\ halfAdded' = halfAdded BY <1>5 DEF CreateAccount
  <2>6. /\ proc'[p].at = "idle" /\ proc'[p].outcome = "added" /\ proc'[p].name = proc[p].name
        /\ \A q \in Processes \ {p} : proc'[q] = proc[q]
    BY <1>1, <2>5, StepFields
  <2>7. HasAccount(proc[p].name)'
    <3>1. PICK i \in DOMAIN Wallets : Wallets[i].name = proc[p].name BY <1>1, <2>5, Zenon DEF Word, Has, NameAt
    <3>2. QED BY <2>2, <2>3, <2>6, <3>1, Zenon DEF HasAccount, NameAt
  <2>8. Word(p)' BY <2>6, <2>7, SMT DEF Word
  <2>9. \A name : Unfinished(name) /\ name # proc[p].name => Unfinished(name)'
    BY <1>1, <2>5, <2>6, Zenon DEF Unfinished
  <2>10. GoodWallets(Wallets)' BY <1>2, <2>2, <2>3, <2>9, Zenon DEF GoodWallets
  <2>11. ContentInv' BY <2>1, <2>10, Zenon DEF ContentInv, Wallets
  <2>12. QED BY <1>1, <2>4, <2>6, <2>8, <2>11, WordKept, Zenon
<1>6. QED BY <1>4, <1>5

\* A step of a migration: the wallets stay, the process that is at it says
\* nothing yet, and the others keep their word.
LEMMA MigratingTruth ==
  ASSUME TruthInv, NEW p \in Processes, ~Resetting, step'.at \notin {"rollback", "lower"},
         db'.content = db.content, file'.content = db.content,
         halfAdded \subseteq halfAdded', proc[p].at # "created",
         \A q \in Processes \ {p} : proc'[q] = proc[q], Word(p)'
  PROVE  ContentInv' /\ \A q \in Processes : Word(q)'
<1>1. Wallets' = Wallets BY DEF Wallets
<1>2. Grow BY <1>1, Zenon DEF Grow, NameAt
<1>3. \A name : Unfinished(name) => Unfinished(name)' BY Zenon DEF Unfinished
<1>4. GoodWallets(db.content)' BY <1>3, Zenon DEF TruthInv, ContentInv, GoodWallets
<1>5. ContentInv'
  <2>1. ~Resetting' BY DEF Resetting
  <2>2. GoodWallets(file.content)' BY <1>4, Zenon DEF GoodWallets
  <2>3. QED BY <1>4, <2>1, <2>2, Zenon DEF ContentInv
<1>6. QED BY <1>2, <1>5, WordKept, Zenon DEF TruthInv

\* All the steps of the system keep what the commands say true.
LEMMA TruthNext ==
  ASSUME TruthInv, [Next]_vars
  PROVE  TruthInv'
<1> USE DEF Says
<1>0. /\ PoolInv /\ TypesInv /\ ContentInv /\ SchemaTypeOK /\ step \in StepType
      /\ proc \in [Processes -> CommandType] /\ \A q \in Processes : proc[q] \in CommandType
      /\ DOMAIN proc = Processes /\ \A q \in Processes : Word(q)
      /\ GoodWallets(db.content) /\ GoodWallets(file.content)
  BY DEF TruthInv, TypesInv, TypeOK, SchemaTypeOK, CommandType, ContentInv
<1>p. PoolInv' BY <1>0, PoolNextInv
<1>t. TypesInv' BY <1>0, TypesNext
<1>g. GoodWallets(NoContent)'
  <2>1. DOMAIN NoContent = {} BY NoContentAssumption, SMT
  <2>2. QED BY <2>1, Zenon DEF GoodWallets
<1> SUFFICES ContentInv' /\ \A q \in Processes : Word(q)'
  BY <1>p, <1>t DEF TruthInv
<1>1. ASSUME NEW p \in Processes, NEW cmd \in Commands, NEW name \in Names, Start(p, cmd, name)
      PROVE  ContentInv' /\ \A q \in Processes : Word(q)'
  <2>1. [Fresh(cmd, name) EXCEPT !.at = "open"].at = "open" /\ [Fresh(cmd, name) EXCEPT !.at = "open"].outcome = "nothing"
    BY SMT DEF Fresh
  <2>2. /\ proc'[p].at = "open" /\ proc'[p].outcome = "nothing" /\ \A q \in Processes \ {p} : proc'[q] = proc[q]
        /\ proc[p].at = "idle" /\ UNCHANGED schemaVars /\ halfAdded' = halfAdded
    BY <1>0, <1>1, <2>1, Zenon DEF Start, SameData
  <2>3. Word(p)' BY <2>2, SMT DEF Word
  <2>4. \A n : Unfinished(n) => Unfinished(n)' BY <2>2, Zenon DEF Unfinished
  <2>5. QED BY <2>2, <2>3, <2>4, ReadTruth
<1>2. ASSUME NEW p \in Processes, OpenPool(p)
      PROVE  ContentInv' /\ \A q \in Processes : Word(q)'
  <2>1. BeginMigrate /\ GoTo(p, "migrating") /\ proc[p].at = "open" /\ halfAdded' = halfAdded BY <1>2 DEF OpenPool
  <2>2. ~Resetting /\ step'.at = "migrate" BY <2>1, SMT DEF BeginMigrate, Resetting
  <2>3. db'.content = db.content /\ file'.content = db.content
    BY <1>0, <2>1, <2>2, SchemaContent, Zenon DEF ContentInv
  <2>4. proc'[p].at = "migrating" /\ \A q \in Processes \ {p} : proc'[q] = proc[q] BY <1>0, <2>1, StepFields
  <2>5. Word(p)' BY <2>4, SMT DEF Word
  <2>6. QED BY <2>1, <2>2, <2>3, <2>4, <2>5, MigratingTruth
<1>3. ASSUME NEW p \in Processes, MigratePool(p)
      PROVE  ContentInv' /\ \A q \in Processes : Word(q)'
  <2>1. /\ Migrate \/ UpdateVersion \/ MigrateReturns
        /\ proc[p].at = "migrating" /\ halfAdded' = halfAdded
        /\ UNCHANGED proc \/ GoTo(p, "opened")
    BY <1>3 DEF MigratePool
  <2>2. ~Resetting BY <2>1, SMT DEF Migrate, UpdateVersion, MigrateReturns, Resetting
  <2>3. db'.content = db.content /\ file'.content = db.content
    BY <1>0, <2>1, <2>2, SchemaContent, Zenon DEF ContentInv
  <2>4. proc'[p].at \in {"migrating", "opened"} /\ \A q \in Processes \ {p} : proc'[q] = proc[q]
    BY <1>0, <2>1, StepFields
  <2>5. step'.at \notin {"rollback", "lower"}
    <3>1. DOMAIN step = {"at", "version", "current", "changed"} BY <1>0, SMT DEF StepType
    <3>2. CASE Migrate BY <3>1, <3>2, SMT DEF Migrate
    <3>3. CASE UpdateVersion BY <3>1, <3>3, SMT DEF UpdateVersion
    <3>4. CASE MigrateReturns BY <3>4, SMT DEF MigrateReturns
    <3>5. QED BY <2>1, <3>2, <3>3, <3>4
  <2>6. Word(p)' BY <2>4, SMT DEF Word
  <2>7. QED BY <2>1, <2>2, <2>3, <2>4, <2>5, <2>6, MigratingTruth
<1>4. ASSUME NEW p \in Processes, Die(p)
      PROVE  ContentInv' /\ \A q \in Processes : Word(q)'
  <2>1. /\ proc'[p].at = "idle" /\ proc'[p].outcome = "failed" /\ proc'[p].name = proc[p].name
        /\ \A q \in Processes \ {p} : proc'[q] = proc[q]
    BY <1>0, <1>4, StepFields DEF Die
  <2>2. Word(p)' BY <2>1, SMT DEF Word
  <2>3. CASE proc[p].at # "migrating"
    <3>1. \A n : Unfinished(n) => Unfinished(n)'
      BY <1>4, <2>1, Zenon DEF Unfinished, Die
    <3>2. QED BY <1>4, <2>1, <2>2, <2>3, <3>1, ReadTruth DEF Die
  <2>4. CASE proc[p].at = "migrating"
    <3>1. Interrupted /\ halfAdded' = halfAdded BY <1>4, <2>4, SMT DEF Die
    <3>2. step.at \in {"migrate", "update"} BY <1>0, <2>4 DEF TypesInv, TypeOK
    <3>3. ~Resetting /\ step'.at = "none" BY <3>1, <3>2, SMT DEF Resetting, Interrupted
    <3>4. db'.content = db.content /\ file'.content = db.content
      BY <1>0, <3>1, <3>3, SchemaContent, Zenon DEF ContentInv
    <3>5. QED BY <2>1, <2>2, <2>4, <3>1, <3>3, <3>4, MigratingTruth
  <2>5. QED BY <2>3, <2>4
<1>5. CASE BeginReset
  <2>1. step'.at = "rollback" /\ step.at = "none" BY <1>5, SMT DEF BeginReset, BeginRollback
  <2>2. \A q \in Processes : proc'[q].at = "idle" /\ proc'[q].outcome = "nothing"
    BY <1>5, SMT DEF BeginReset, Fresh
  <2>3. \A q \in Processes : Word(q)' BY <2>2, SMT DEF Word
  <2>4. \A n : Unfinished(n) => Unfinished(n)' BY <1>5, Zenon DEF BeginReset, Unfinished
  <2>5. db' = db /\ file' = file BY <1>5 DEF BeginReset, BeginRollback
  <2>6. GoodWallets(db.content)' /\ GoodWallets(file.content)' BY <1>0, <2>4, <2>5, Zenon DEF GoodWallets
  <2>7. QED BY <2>1, <2>2, <2>3, <2>6, Zenon DEF ContentInv, Resetting
<1>6. CASE Reset
  <2>1. Resetting /\ UNCHANGED <<proc, halfAdded>> BY <1>6 DEF Reset
  <2>2. \A q \in Processes : proc[q].at \in {"idle", "open"} /\ proc[q].outcome \in {"nothing", "failed"}
    BY <1>0, <2>1 DEF ContentInv
  <2>3. \A q \in Processes : Word(q)' BY <2>1, <2>2, SMT DEF Word
  <2>4. \A n : Unfinished(n) <=> Unfinished(n)' BY <2>1, Zenon DEF Unfinished
  <2>5. db'.content \in {db.content, file.content, NoContent} /\ file'.content \in {db.content, file.content, NoContent}
    BY <1>0, <1>6, SchemaContent, Zenon DEF Reset
  <2>6. GoodWallets(db.content)' BY <1>0, <1>g, <2>4, <2>5, Zenon DEF GoodWallets
  <2>7. GoodWallets(file.content)' BY <1>0, <1>g, <2>4, <2>5, Zenon DEF GoodWallets
  <2>8. step'.at \in {"rollback", "lower", "none"}
    <3>1. step'.at \notin {"migrate", "update"} 
      BY <1>t, <2>1, <2>2, Zenon DEF TypesInv, TypeOK
    <3>2. step' \in StepType BY <1>t, Zenon DEF TypesInv, TypeOK, SchemaTypeOK
    <3>3. QED BY <3>1, <3>2, SMT DEF StepType
  <2>9. step'.at = "none" => db' = file' BY <1>p DEF PoolInv, SchemaInv, VersionInv
  <2>10. QED BY <2>1, <2>2, <2>3, <2>6, <2>7, <2>8, <2>9, Zenon DEF ContentInv, Resetting
<1>7. CASE UNCHANGED vars
  <2>1. Grow BY <1>7, Zenon DEF vars, Grow, Wallets, NameAt
  <2>2. ContentInv' BY <1>0, <1>7, Zenon DEF vars, ContentInv, GoodWallets, Resetting, Unfinished
  <2>3. QED BY <1>0, <1>7, <2>1, <2>2, WordKept, Zenon DEF vars
<1>8. ASSUME NEW p \in Processes, Command(p)
      PROVE  ContentInv' /\ \A q \in Processes : Word(q)'
  BY <1>8, ReadingTruth, WritingTruth DEF Command
<1>9. QED BY <1>1, <1>2, <1>3, <1>4, <1>5, <1>6, <1>7, <1>8 DEF Next

\* The first state: nothing has been said, and there is no wallet.
LEMMA TruthInit == Init => TruthInv
<1> SUFFICES ASSUME Init PROVE TruthInv
  OBVIOUS
<1>1. PICK name \in Names : proc = [p \in Processes |-> Fresh("list", name)] BY DEF Init
<1>2. /\ Fresh("list", name).at = "idle" /\ Fresh("list", name).outcome = "nothing"
      /\ Fresh("list", name).listed = 0 /\ 0 <= Len(Fresh("list", name).seen)
      /\ Fresh("list", name) \in CommandType
  BY SMT DEF Fresh, CommandType, Places, Commands, Outcomes
<1>3. \A q \in Processes : proc[q] = Fresh("list", name) BY <1>1
<1>4. PICK v \in -1..NewestVersion : db = [applied |-> 0..v, version |-> v, content |-> NoContent]
  BY DEF Init, InitSchema
<1>5. file = db /\ db.content = <<>> /\ step = Resting /\ halfAdded = {}
  BY <1>4, NoContentAssumption DEF Init, InitSchema
<1>6. PoolInv
  <2>1. SchemaInv BY SchemaInitInv DEF Init
  <2>2. QED BY <1>1, <1>2, <1>3, <2>1, SMT DEF PoolInv, RunningInv, Running
<1>7. SchemaTypeOK
  <2>1. IsSchema(db) BY <1>4, SMT DEF IsSchema
  <2>2. Resting \in StepType BY SMT DEF StepType
  <2>3. QED BY <1>5, <2>1, <2>2, Zenon DEF SchemaTypeOK, Init, InitSchema
<1>8. TypesInv
  <2>1. proc \in [Processes -> CommandType] BY <1>1, <1>2
  <2>2. <<>> \in Seq(WalletType) BY SMT
  <2>3. step.at = "none" BY <1>5
  <2>4. halfAdded \subseteq Names BY <1>5
  <2>5. QED BY <1>2, <1>3, <1>5, <1>7, <2>1, <2>2, <2>3, <2>4, Zenon DEF TypesInv, TypeOK, CommandType, WalletType, Wallets
<1>9. ContentInv
  <2>1. DOMAIN db.content = {} BY <1>5, SMT
  <2>2. ~Resetting BY <1>5 DEF Resetting
  <2>3. QED BY <1>5, <2>1, <2>2, Zenon DEF ContentInv, GoodWallets
<1>10. \A q \in Processes : Word(q) BY <1>2, <1>3, SMT DEF Word, Says
<1>11. QED BY <1>6, <1>8, <1>9, <1>10 DEF TruthInv

\* The variables keep their types, and one process at most migrates
\* the database (its own step, or none), for any number of processes.
THEOREM TypesHold == Spec => []TypeOK
<1>1. TruthInv /\ [Next]_vars => TruthInv' BY TruthNext
<1>2. TruthInv => TypeOK BY DEF TruthInv, TypesInv
<1>3. QED BY <1>1, <1>2, TruthInit, PTL DEF Spec

\* A wallet of an unfinished add has no account, on disk or in the session;
\* there is one process at most between the two calls for a name, and none for
\* one that was left behind.
NoAccount(wallets, name) ==
  \A i \in DOMAIN wallets : wallets[i].name = name => ~wallets[i].account
Adds(p, name) == proc[p].at = "created" /\ proc[p].name = name

AddInv ==
  /\ \A name : Unfinished(name) => NoAccount(db.content, name) /\ NoAccount(file.content, name)
  /\ \A p \in Processes, name \in halfAdded : ~Adds(p, name)
  /\ \A p, q \in Processes, name \in Names : Adds(p, name) /\ Adds(q, name) => p = q

\* It is kept as long as nobody writes a wallet or comes between the two calls.
LEMMA AddKept ==
  ASSUME AddInv,
         db'.content \in {db.content, file.content, NoContent},
         file'.content \in {db.content, file.content, NoContent},
         halfAdded' = halfAdded,
         \A p \in Processes : \A name : Adds(p, name)' => Adds(p, name)
  PROVE  AddInv'
<1>1. \A name : NoAccount(NoContent, name)
  <2>1. DOMAIN NoContent = {} BY NoContentAssumption, SMT
  <2>2. QED BY <2>1, Zenon DEF NoAccount
<1>2. ASSUME NEW name, Unfinished(name)' PROVE (NoAccount(db.content, name) /\ NoAccount(file.content, name))'
  <2>1. Unfinished(name) BY <1>2, Zenon DEF Unfinished, Adds
  <2>2. NoAccount(db.content, name) /\ NoAccount(file.content, name) BY <2>1, Zenon DEF AddInv
  <2>3. QED BY <1>1, <2>2, Zenon DEF NoAccount
<1>3. QED BY <1>2, Zenon DEF AddInv

\* Nor does a step of one process disturb it that is not at the two calls.
LEMMA AddMoves ==
  ASSUME AddInv, NEW p \in Processes, proc'[p].at # "created",
         \A q \in Processes \ {p} : proc'[q] = proc[q],
         db'.content \in {db.content, file.content, NoContent},
         file'.content \in {db.content, file.content, NoContent},
         halfAdded' = halfAdded
  PROVE  AddInv'
<1>1. \A q \in Processes : \A name : Adds(q, name)' => Adds(q, name) BY Zenon DEF Adds
<1>2. QED BY <1>1, AddKept

\* createWallet: the wallet is new, whatever was left behind under its name
\* before a reset is not there any more.
LEMMA AddCreates ==
  ASSUME TruthInv, AddInv, NEW p \in Processes, CreateWallet(p), ~Taken(p, proc[p].name)
  PROVE  AddInv'
<1> DEFINE name == proc[p].name
<1>1. /\ TypesInv /\ Wallets \in Seq(WalletType) /\ IsSchema(db) /\ \A q \in Processes : Word(q)
      /\ proc \in [Processes -> CommandType] /\ proc[p] \in CommandType
  BY Zenon DEF TruthInv, TypesInv, TypeOK, SchemaTypeOK, CommandType, WalletType
<1>2. PICK bitcoin \in BOOLEAN :
        Stored(Append(Wallets, [name |-> name, bitcoin |-> bitcoin, account |-> FALSE]))
  BY DEF CreateWallet
<1> DEFINE r == [name |-> name, bitcoin |-> bitcoin, account |-> FALSE]
           n == Len(Wallets) + 1
<1>3. GoTo(p, "created") /\ proc[p].at = "checked" /\ halfAdded' = halfAdded \ {name} BY DEF CreateWallet
<1>4. /\ proc'[p].at = "created" /\ proc'[p].name = name
      /\ \A q \in Processes \ {p} : proc'[q] = proc[q]
  BY <1>1, <1>3, StepFields
<1>5. db'.content = Append(Wallets, r) /\ file'.content = Append(Wallets, r)
  <2>1. \A w : [db EXCEPT !.content = w].content = w BY <1>1, SMT DEF IsSchema
  <2>2. QED BY <1>2, <2>1, Zenon DEF Stored
<1>6. r \in WalletType BY <1>1, Zenon DEF WalletType, CommandType
<1>7. r.name = name /\ ~r.account BY SMT
<1> HIDE DEF r
<1>8. \A i \in DOMAIN Append(Wallets, r) :
        \/ i \in DOMAIN Wallets /\ Append(Wallets, r)[i] = Wallets[i]
        \/ Append(Wallets, r)[i] = r
  BY <1>1, <1>6, AppendProperties, LenProperties, SMT
<1>9. \A m : NoAccount(Wallets, m) => NoAccount(Append(Wallets, r), m)
  BY <1>7, <1>8, Zenon DEF NoAccount
<1>10. \A i \in DOMAIN Wallets : Wallets[i].name # name
  BY Zenon DEF Taken, Has, NameAt
<1>11. ASSUME NEW m, Unfinished(m)' PROVE (NoAccount(db.content, m) /\ NoAccount(file.content, m))'
  <2>1. m = name \/ Unfinished(m) BY <1>3, <1>4, <1>11, Zenon DEF Unfinished
  <2>2. NoAccount(Wallets, m) BY <1>10, <2>1, Zenon DEF AddInv, NoAccount, Wallets
  <2>3. QED BY <1>5, <1>9, <2>2, Zenon
<1>12. \A q \in Processes : ~Adds(q, name)
  <2>1. ~Has(name) BY DEF Taken
  <2>2. QED BY <1>1, <2>1, Zenon DEF Adds, Word
<1>13. \A q \in Processes : \A m : Adds(q, m)' => Adds(q, m) \/ (q = p /\ m = name)
  BY <1>4, Zenon DEF Adds
<1>14. \A q \in Processes, m \in halfAdded' : ~Adds(q, m)'
  BY <1>3, <1>13, Zenon DEF AddInv
<1>15. \A q, o \in Processes, m \in Names : Adds(q, m)' /\ Adds(o, m)' => q = o
  BY <1>12, <1>13, Zenon DEF AddInv
<1>16. QED BY <1>11, <1>14, <1>15, Zenon DEF AddInv

\* newAccountWithExtendedKeyInfo: the account is of the name of this process's
\* own add, which no other has and none left behind.
LEMMA AddFinishes ==
  ASSUME TruthInv, AddInv, NEW p \in Processes, CreateAccount(p)
  PROVE  AddInv'
<1> DEFINE name == proc[p].name
           w == [i \in DOMAIN Wallets |->
                   IF NameAt(i) = name THEN [Wallets[i] EXCEPT !.account = TRUE] ELSE Wallets[i]]
<1>1. /\ TypesInv /\ Wallets \in Seq(WalletType) /\ IsSchema(db)
      /\ proc[p] \in CommandType /\ name \in Names
  BY SMT DEF TruthInv, TypesInv, TypeOK, SchemaTypeOK, CommandType, WalletType
<1>2. Stored(w) /\ Finish(p, "added") /\ Adds(p, name) /\ halfAdded' = halfAdded
  BY DEF CreateAccount, Adds
<1>3. proc'[p].at = "idle" /\ \A q \in Processes \ {p} : proc'[q] = proc[q]
  BY <1>1, <1>2, StepFields
<1>4. db'.content = w /\ file'.content = w
  <2>1. \A c : [db EXCEPT !.content = c].content = c BY <1>1, SMT DEF IsSchema
  <2>2. QED BY <1>2, <2>1, Zenon DEF Stored
<1>5. \A q \in Processes : \A m : Adds(q, m)' => Adds(q, m) /\ q # p BY <1>3, Zenon DEF Adds
<1>6. ASSUME NEW m, Unfinished(m)' PROVE (NoAccount(db.content, m) /\ NoAccount(file.content, m))'
  <2>1. Unfinished(m) /\ m # name
    BY <1>1, <1>2, <1>5, <1>6, Zenon DEF AddInv, Unfinished, Adds
  <2>2. NoAccount(Wallets, m) BY <2>1, Zenon DEF AddInv, Wallets
  <2>3. ASSUME NEW i \in DOMAIN w, w[i].name = m PROVE ~w[i].account
    <3>1. CASE NameAt(i) = name
      <4>1. Wallets[i] \in WalletType BY <1>1, <2>3, SMT
      <4>2. [Wallets[i] EXCEPT !.account = TRUE].name = Wallets[i].name BY <4>1, SMT DEF WalletType
      <4>3. QED BY <2>1, <2>3, <3>1, <4>2 DEF NameAt
    <3>2. CASE NameAt(i) # name BY <2>2, <2>3, <3>2, SMT DEF NoAccount
    <3>3. QED BY <3>1, <3>2
  <2> HIDE DEF w
  <2>4. QED BY <1>4, <2>3, Zenon DEF NoAccount
<1>7. QED BY <1>2, <1>5, <1>6, Zenon DEF AddInv

\* An add that ends between its two calls leaves its wallet behind.
LEMMA AddDies ==
  ASSUME TruthInv, AddInv, NEW p \in Processes, Die(p)
  PROVE  AddInv'
<1>1. /\ TypesInv /\ SchemaTypeOK /\ proc[p].name \in Names
  BY SMT DEF TruthInv, TypesInv, TypeOK, CommandType
<1>2. proc'[p].at = "idle" /\ \A q \in Processes \ {p} : proc'[q] = proc[q]
  BY <1>1, StepFields DEF Die
<1>3. /\ db'.content \in {db.content, file.content, NoContent}
      /\ file'.content \in {db.content, file.content, NoContent}
  <2>1. CASE proc[p].at = "migrating" BY <1>1, <2>1, SchemaContent, Zenon DEF Die
  <2>2. CASE proc[p].at # "migrating" BY <2>2, Zenon DEF Die, schemaVars
  <2>3. QED BY <2>1, <2>2
<1>4. CASE proc[p].at # "created"
  <2>1. halfAdded' = halfAdded BY <1>4, Zenon DEF Die
  <2>2. QED BY <1>2, <1>3, <2>1, AddMoves, SMT
<1>5. CASE proc[p].at = "created"
  <2>1. halfAdded' = halfAdded \union {proc[p].name} /\ db' = db /\ file' = file BY <1>5, SMT DEF Die, schemaVars
  <2>2. \A q \in Processes : \A m : Adds(q, m)' => Adds(q, m) /\ q # p BY <1>2, Zenon DEF Adds
  <2>3. \A m : Unfinished(m)' => Unfinished(m) BY <1>5, <2>1, <2>2, Zenon DEF Unfinished, Adds
  <2>4. \A m : Unfinished(m)' => (NoAccount(db.content, m) /\ NoAccount(file.content, m))'
    BY <2>1, <2>3, Zenon DEF AddInv, NoAccount
  <2>5. \A q \in Processes, m \in halfAdded' : ~Adds(q, m)'
    <3>1. Adds(p, proc[p].name) BY <1>5 DEF Adds
    <3>2. QED BY <1>1, <2>1, <2>2, <3>1, Zenon DEF AddInv
  <2>6. QED BY <2>2, <2>4, <2>5, Zenon DEF AddInv
<1>6. QED BY <1>4, <1>5

\* All the steps of the system.
LEMMA AddNext ==
  ASSUME TruthInv, AddInv, [Next]_vars
  PROVE  AddInv'
<1>0. TypesInv /\ SchemaTypeOK BY DEF TruthInv, TypesInv, TypeOK
<1>s. ASSUME UNCHANGED schemaVars PROVE db'.content = db.content /\ file'.content = file.content
  BY <1>s DEF schemaVars
<1>1. ASSUME NEW p \in Processes, NEW cmd \in Commands, NEW name \in Names, Start(p, cmd, name)
      PROVE  AddInv'
  <2>1. [Fresh(cmd, name) EXCEPT !.at = "open"].at = "open" BY SMT DEF Fresh
  <2>2. proc'[p].at = "open" /\ \A q \in Processes \ {p} : proc'[q] = proc[q]
    BY <1>0, <1>1, <2>1, Zenon DEF Start, TypesInv, TypeOK
  <2>3. UNCHANGED schemaVars /\ halfAdded' = halfAdded BY <1>1 DEF Start, SameData
  <2>4. QED BY <1>s, <2>2, <2>3, AddMoves, Zenon
<1>2. ASSUME NEW p \in Processes, OpenPool(p) PROVE AddInv'
  <2>1. BeginMigrate /\ GoTo(p, "migrating") /\ halfAdded' = halfAdded BY <1>2 DEF OpenPool
  <2>2. proc'[p].at = "migrating" /\ \A q \in Processes \ {p} : proc'[q] = proc[q] BY <1>0, <2>1, StepFields
  <2>3. db' = db /\ file' = file BY <2>1 DEF BeginMigrate
  <2>4. QED BY <2>1, <2>2, <2>3, AddMoves, Zenon
<1>3. ASSUME NEW p \in Processes, MigratePool(p) PROVE AddInv'
  <2>1. /\ Migrate \/ UpdateVersion \/ MigrateReturns
        /\ proc[p].at = "migrating" /\ halfAdded' = halfAdded
        /\ UNCHANGED proc \/ GoTo(p, "opened")
    BY <1>3 DEF MigratePool
  <2>2. proc'[p].at # "created" /\ \A q \in Processes \ {p} : proc'[q] = proc[q]
    BY <1>0, <2>1, StepFields
  <2>3. db'.content = db.content /\ file'.content \in {db.content, file.content}
    BY <1>0, <2>1, SchemaContent, Zenon
  <2>4. QED BY <2>1, <2>2, <2>3, AddMoves, Zenon
<1>4. ASSUME NEW p \in Processes, Command(p) PROVE AddInv'
  <2> USE DEF SameData
  <2>1. CASE CreateWallet(p)
    <3>1. CASE Taken(p, proc[p].name)
      <4>1. Finish(p, "failed") /\ UNCHANGED schemaVars /\ halfAdded' = halfAdded BY <2>1, <3>1 DEF CreateWallet
      <4>2. proc'[p].at = "idle" /\ \A q \in Processes \ {p} : proc'[q] = proc[q] BY <1>0, <4>1, StepFields
      <4>3. QED BY <1>s, <4>1, <4>2, AddMoves, Zenon
    <3>2. CASE ~Taken(p, proc[p].name) BY <2>1, <3>2, AddCreates
    <3>3. QED BY <3>1, <3>2
  <2>2. CASE CreateAccount(p) BY <2>2, AddFinishes
  <2>3. ASSUME \/ \E o \in Outcomes : Finish(p, o)
               \/ \E a \in {"checked", "wallet", "account"} : GoTo(p, a),
               SameData
        PROVE  AddInv'
    <3>1. proc'[p].at # "created" /\ \A q \in Processes \ {p} : proc'[q] = proc[q] BY <1>0, <2>3, StepFields
    <3>2. QED BY <1>s, <2>3, <3>1, AddMoves, Zenon
  <2>4. CASE ReadWallets(p)
    <3>1. proc \in [Processes -> CommandType] BY <1>0, Zenon DEF TypesInv, TypeOK, CommandType
    <3>2. proc'[p].at \in {"idle", "listing"} /\ \A q \in Processes \ {p} : proc'[q] = proc[q]
      BY <2>4, <3>1, SMT DEF ReadWallets, CommandType
    <3>3. SameData BY <2>4 DEF ReadWallets
    <3>4. QED BY <1>s, <3>2, <3>3, AddMoves, Zenon
  <2>5. CASE PrintNext(p)
    <3>1. proc \in [Processes -> CommandType] BY <1>0, Zenon DEF TypesInv, TypeOK, CommandType
    <3>2. CASE proc' = [proc EXCEPT ![p].listed = @ + 1]
      <4>1. proc'[p].at = "listing" /\ \A q \in Processes \ {p} : proc'[q] = proc[q]
        BY <2>5, <3>1, <3>2, SMT DEF PrintNext, CommandType
      <4>2. SameData BY <2>5 DEF PrintNext
      <4>3. QED BY <1>s, <4>1, <4>2, AddMoves, Zenon
    <3>3. CASE Finish(p, "failed") BY <2>3, <2>5, <3>3 DEF PrintNext, Outcomes
    <3>4. QED BY <2>5, <3>2, <3>3 DEF PrintNext
  <2>6. CASE CheckName(p) BY <2>3, <2>6 DEF CheckName, Outcomes
  <2>7. CASE ListEnds(p) BY <2>3, <2>7 DEF ListEnds, Outcomes
  <2>8. CASE GetWallet(p) BY <2>3, <2>8 DEF GetWallet, Outcomes
  <2>9. CASE GetAccount(p) BY <2>3, <2>9 DEF GetAccount, Outcomes
  <2>10. CASE UseAccount(p) BY <2>3, <2>10 DEF UseAccount, Outcomes
  <2>11. QED BY <1>4, <2>1, <2>2, <2>4, <2>5, <2>6, <2>7, <2>8, <2>9, <2>10 DEF Command
<1>5. CASE BeginReset
  <2>1. \A q \in Processes : proc'[q].at = "idle" BY <1>5, SMT DEF BeginReset, Fresh
  <2>2. db' = db /\ file' = file /\ halfAdded' = halfAdded BY <1>5 DEF BeginReset, BeginRollback
  <2>3. \A q \in Processes : \A m : ~Adds(q, m)' BY <2>1, Zenon DEF Adds
  <2>4. QED BY <2>2, <2>3, AddKept, Zenon
<1>6. CASE Reset
  <2>1. proc' = proc /\ halfAdded' = halfAdded BY <1>6 DEF Reset
  <2>2. db'.content \in {db.content, file.content, NoContent} /\ file'.content \in {db.content, file.content, NoContent}
    BY <1>0, <1>6, SchemaContent, Zenon DEF Reset
  <2>3. QED BY <2>1, <2>2, AddKept, Zenon DEF Adds
<1>7. CASE UNCHANGED vars
  <2>1. proc' = proc /\ halfAdded' = halfAdded /\ db' = db /\ file' = file BY <1>7 DEF vars
  <2>2. QED BY <2>1, AddKept, Zenon DEF Adds
<1>8. QED BY <1>1, <1>2, <1>3, <1>4, <1>5, <1>6, <1>7, AddDies DEF Next

\* What an add, a sync, a build and a list report of accounts is so, and add's
\* "already exists" (AddAccount.cpp:98) is, but for a wallet whose add is
\* between its two calls or ended there; such a wallet never gets its account,
\* and there is no other without one.  A reset takes back what was reported
\* before; no other step of any process does, wherever it is killed: for any
\* processes, names and limit.
THEOREM OnlyUnfinishedMisleadHolds == Spec => []OnlyUnfinishedMislead
<1>1. Init => TruthInv /\ AddInv
  <2>1. ASSUME Init PROVE halfAdded = {} /\ \A p \in Processes : proc[p].at # "created"
    BY <2>1, SMT DEF Init, Fresh
  <2>2. Init => AddInv BY <2>1, Zenon DEF AddInv, Unfinished, Adds
  <2>3. QED BY <2>2, TruthInit
<1>2. TruthInv /\ AddInv /\ [Next]_vars => (TruthInv /\ AddInv)' BY TruthNext, AddNext
<1>3. TruthInv /\ AddInv => OnlyUnfinishedMislead
  <2> SUFFICES ASSUME TruthInv, AddInv PROVE OnlyUnfinishedMislead
    OBVIOUS
  <2>1. \A p \in Processes : proc[p].at \in Running => db.version >= CurrentVersion
    BY Zenon DEF TruthInv, PoolInv, RunningInv
  <2>2. GoodWallets(Wallets) /\ \A p \in Processes : Word(p)
    BY Zenon DEF TruthInv, ContentInv, Wallets
  <2>3. \A name : Has(name) => HasAccount(name) \/ Unfinished(name)
    BY <2>2, Zenon DEF Has, HasAccount, NameAt, GoodWallets
  <2>4. \A name \in halfAdded : ~HasAccount(name)
    BY Zenon DEF AddInv, Unfinished, NoAccount, HasAccount, NameAt, Wallets
  <2>5. QED BY <2>1, <2>2, <2>3, <2>4, Zenon DEF OnlyUnfinishedMislead, GoodWallets, Word, NameAt
<1>4. QED BY <1>1, <1>2, <1>3, PTL DEF Spec
=============================================================================
