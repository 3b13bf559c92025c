------------------------------ MODULE AppStart ------------------------------
(***************************************************************************)
(* The start of the Android app above the storage plugin: AppBootstrap     *)
(* calls initDatabase(), and openAppDatabase() authenticates the key,      *)
(* opens the file, migrates it one transaction at a time, validates schema *)
(* and rows, reconciles the settings mirror of the key protection and, if  *)
(* this start was authenticated, opens the session.  Anything may fail at  *)
(* any step, and the process may be killed between any two.                *)
(***************************************************************************)
EXTENDS Integers, Sequences

VARIABLES
  stored,    \* the committed database
  tx,        \* the version the open transaction would commit, or NoTx
  conn,      \* the native connection
  native,    \* device-lock protection is enabled, the native side's authority
  boot,      \* openAppDatabase(): where it stands, and whether it was authenticated
  gate,      \* the state of the AppBootstrap component
  unlocked,  \* AuthService.unlocked
  proven,    \* history: a credential was proven since the last sign-out or start
  faulty,    \* history: something failed in this start
  tampered   \* history: the file was not left by this app

startVars == <<stored, tx, conn, native, boot, gate, unlocked, proven, faulty, tampered>>

-----------------------------------------------------------------------------
\* The tables in the order the migrations create them: version v has the first
\* v + 1.
Tables == <<"schema_metadata", "journal_entries", "settings", "local_auth">>
SCHEMA_VERSION == Len(Tables) - 1
TableNames == {Tables[i] : i \in DOMAIN Tables}
SchemaOf(v) == {Tables[i] : i \in 1..(v + 1)}

\* What sqlite_master and table_info say of a name: "bent" is a table or a view
\* that deviates from its specification, "view" is no table at all.
Shapes == {"none", "table", "bent", "view"}
Corrupt == -1
NoTx == -1
RowKinds == {"none", "settings", "journal", "auth"}

Phases == {"idle", "open", "preflight", "create", "read", "migrate", "commit", "schema",
           "settings", "journal", "auth", "reconcile", "unlock", "done", "failed"}

Databases ==
  [shape : [TableNames -> Shapes], version : Corrupt..(SCHEMA_VERSION + 1),
   damaged : RowKinds, auth : BOOLEAN, seeded : BOOLEAN, mirror : BOOLEAN]

-----------------------------------------------------------------------------
\* validateSchemaSpec(): every table of the specification is there as specified.
validateSchemaSpec(db, spec) == \A t \in spec : db.shape[t] = "table"

intact(db) ==
  /\ db.version \in 0..SCHEMA_VERSION
  /\ validateSchemaSpec(db, SchemaOf(db.version))

\* A database this app, or an older version of it, has left.
appMade(db) ==
  /\ \/ intact(db)
     \/ db.shape["schema_metadata"] = "none" /\ db.version = 0
  /\ \A t \in TableNames \ SchemaOf(db.version) : db.shape[t] = "none"
  /\ db.damaged = "none"
  /\ db.auth => db.seeded

\* A database that may be served.
sound(db) ==
  /\ db.version = SCHEMA_VERSION
  /\ validateSchemaSpec(db, SchemaOf(SCHEMA_VERSION))
  /\ db.damaged = "none"

Idle == [at |-> "idle", authenticated |-> FALSE]

possible(db) ==
  /\ db.auth \/ db.damaged = "auth" => db.shape["local_auth"] # "none"
  /\ db.damaged = "journal" => db.shape["journal_entries"] # "none"
  /\ db.seeded \/ db.mirror \/ db.damaged = "settings" => db.shape["settings"] # "none"
  /\ \A t \in TableNames \ {"schema_metadata"} : db.shape[t] # "view"
  /\ db.shape["schema_metadata"] = "none" => db.version = 0
  \* a foreign file says nothing about these
  /\ ~appMade(db) => ~db.seeded /\ ~db.mirror /\ ~db.auth

StartInit ==
  /\ stored \in {db \in Databases : possible(db)}
  /\ native \in {FALSE, stored.auth}
  /\ tampered = ~appMade(stored)
  /\ tx = NoTx /\ conn = "none"
  /\ boot = Idle /\ gate = "loading"
  /\ unlocked = FALSE /\ proven = FALSE /\ faulty = FALSE

-----------------------------------------------------------------------------
go(phase) == boot' = [boot EXCEPT !.at = phase]

at(phase) == gate = "loading" /\ boot.at = phase

\* What a step of the start that only reads leaves alone.
readOnly == UNCHANGED <<stored, tx, native, gate, unlocked, proven, tampered>>

\* An error: roll back, close, rethrow.  Closing may fail, which is ignored.
releaseAndThrow ==
  /\ go("failed")
  /\ tx' = NoTx
  /\ conn' \in IF conn = "open" THEN {"none", "stuck"} ELSE {conn}
  /\ UNCHANGED <<stored, native, gate, unlocked, proven, tampered>>

refuse == releaseAndThrow /\ UNCHANGED faulty

\* Any native or storage call of the start may fail.
Fails ==
  /\ gate = "loading" /\ boot.at \notin {"done", "failed"}
  /\ releaseAndThrow
  /\ faulty' = TRUE

\* deviceUnlockAdapter.prepare(): with protection on, a prompt, which can be
\* cancelled; initDatabase() then forgets the attempt and the gate offers a retry.
Prepare ==
  /\ at("idle")
  /\ \/ /\ boot' = [at |-> "open", authenticated |-> native]
        /\ UNCHANGED gate
     \/ /\ native
        /\ gate' = "cancelled"
        /\ UNCHANGED boot
  /\ UNCHANGED <<stored, tx, conn, native, unlocked, proven, faulty, tampered>>

Retry ==
  /\ gate = "cancelled"
  /\ gate' = "loading"
  /\ UNCHANGED <<stored, tx, conn, native, boot, unlocked, proven, faulty, tampered>>

\* openNativeDatabase(), which EncryptedDatabase models.
OpenNative ==
  /\ at("open")
  /\ conn' = "open"
  /\ go("preflight")
  /\ readOnly /\ UNCHANGED faulty

\* applyMigrations(): a file without a version table that holds anything of ours
\* is refused; one without either gets the table in a transaction of its own.
Preflight ==
  /\ at("preflight")
  /\ \/ /\ stored.shape["schema_metadata"] \in {"table", "bent"}
        /\ go("read")
        /\ readOnly /\ UNCHANGED <<conn, faulty>>
     \/ /\ stored.shape["schema_metadata"] \in {"none", "view"}
        /\ \E t \in TableNames : stored.shape[t] # "none"
        /\ refuse
     \/ /\ \A t \in TableNames : stored.shape[t] = "none"
        /\ tx' = 0
        /\ go("create")
        /\ UNCHANGED <<stored, conn, native, gate, unlocked, proven, tampered, faulty>>

\* Mutant: the version is written after the transaction.
commitTxVersionLater ==
  /\ stored' = [stored EXCEPT !.shape[Tables[tx + 1]] = "table"]
  /\ tx' = NoTx
  /\ UNCHANGED <<conn, native, gate, unlocked, proven, tampered, faulty>>

commitTx ==
  /\ stored' = [stored EXCEPT !.version = tx, !.shape[Tables[tx + 1]] = "table"]
  /\ tx' = NoTx
  /\ UNCHANGED <<conn, native, gate, unlocked, proven, tampered, faulty>>

CreateMetadata ==
  /\ at("create")
  /\ commitTx
  /\ go("read")

\* readSchemaVersion(): exactly one row with a whole number, not newer than ours.
ReadVersion ==
  /\ at("read")
  /\ IF stored.version \in 0..SCHEMA_VERSION
     THEN go("migrate") /\ readOnly /\ UNCHANGED <<conn, faulty>>
     ELSE refuse

\* Mutant: the prior schema is not looked at.
MigrateBlindly ==
  /\ at("migrate")
  /\ \/ /\ stored.version = SCHEMA_VERSION
        /\ go("schema")
        /\ readOnly /\ UNCHANGED <<conn, faulty>>
     \/ /\ stored.version < SCHEMA_VERSION
        /\ IF stored.shape[Tables[stored.version + 2]] = "none"
           THEN /\ tx' = stored.version + 1
                /\ go("commit")
                /\ UNCHANGED <<stored, conn, native, gate, unlocked, proven, tampered, faulty>>
           ELSE refuse

\* One migration: the schema of the stored version must be intact, and CREATE
\* TABLE fails on a name that is taken.
Migrate ==
  /\ at("migrate")
  /\ \/ /\ stored.version = SCHEMA_VERSION
        /\ go("schema")
        /\ readOnly /\ UNCHANGED <<conn, faulty>>
     \/ /\ stored.version < SCHEMA_VERSION
        /\ IF /\ validateSchemaSpec(stored, SchemaOf(stored.version))
              /\ stored.shape[Tables[stored.version + 2]] = "none"
           THEN /\ tx' = stored.version + 1
                /\ go("commit")
                /\ UNCHANGED <<stored, conn, native, gate, unlocked, proven, tampered, faulty>>
           ELSE refuse

CommitMigration ==
  /\ at("commit")
  /\ commitTx
  /\ go("migrate")

validateAppSchema ==
  /\ at("schema")
  /\ IF validateSchemaSpec(stored, TableNames)
     THEN go("settings") /\ readOnly /\ UNCHANGED <<conn, faulty>>
     ELSE refuse

\* settings.get(), journal.list() and auth.validateStored(): every stored row.
ValidateRows(kind, following) ==
  /\ at(kind)
  /\ IF stored.damaged # kind
     THEN go(following) /\ readOnly /\ UNCHANGED <<conn, faulty>>
     ELSE refuse

\* Mutant: the mirror is only ever set, never cleared.
ReconcileOnlySets ==
  /\ at("reconcile")
  /\ stored' = [stored EXCEPT !.mirror = @ \/ native]
  /\ go("unlock")
  /\ UNCHANGED <<tx, conn, native, gate, unlocked, proven, faulty, tampered>>

\* security.reconcile(): the settings mirror follows the native state.
Reconcile ==
  /\ at("reconcile")
  /\ stored' = [stored EXCEPT !.mirror = native]
  /\ go("unlock")
  /\ UNCHANGED <<tx, conn, native, gate, unlocked, proven, faulty, tampered>>

\* auth.unlockWithDeviceCredential(), if this start was authenticated: it needs a
\* configured store.
Unlock ==
  /\ at("unlock")
  /\ \/ ~boot.authenticated /\ go("done") /\ readOnly /\ UNCHANGED <<conn, faulty>>
     \/ boot.authenticated /\ ~stored.auth /\ refuse
     \/ /\ boot.authenticated /\ stored.auth
        /\ unlocked' = TRUE /\ proven' = TRUE
        /\ go("done")
        /\ UNCHANGED <<stored, tx, conn, native, gate, faulty, tampered>>

\* The gate reads the settings for the theme before the routes mount; a failing
\* read closes the database again.
GateReady ==
  /\ at("done")
  /\ \/ gate' = "ready" /\ UNCHANGED <<conn, faulty>>
     \/ gate' = "error" /\ conn' \in {"none", "stuck"} /\ faulty' = TRUE
  /\ UNCHANGED <<stored, tx, native, boot, unlocked, proven, tampered>>

\* initDatabase() replays a failure for ever; the gate shows the error screen.
GateError ==
  /\ at("failed")
  /\ gate' = "error"
  /\ UNCHANGED <<stored, tx, conn, native, boot, unlocked, proven, faulty, tampered>>

StartStep ==
  \/ Fails \/ Prepare \/ Retry \/ OpenNative \/ Preflight \/ CreateMetadata \/ ReadVersion
  \/ Migrate \/ CommitMigration \/ validateAppSchema
  \/ ValidateRows("settings", "journal") \/ ValidateRows("journal", "auth")
  \/ ValidateRows("auth", "reconcile")
  \/ Reconcile \/ Unlock \/ GateReady \/ GateError

\* The process dies; SQLite rolls an open transaction back.
killStart ==
  /\ tx' = NoTx /\ conn' = "none"
  /\ boot' = Idle /\ gate' = "loading"
  /\ unlocked' = FALSE /\ proven' = FALSE /\ faulty' = FALSE
  /\ UNCHANGED <<stored, native, tampered>>

-----------------------------------------------------------------------------
\* A start that meets no failure opens every store this app has left, whatever
\* earlier starts, setups and changes of the protection were killed half way.
UndisturbedStartSucceeds == gate = "error" /\ ~faulty => tampered

\* "Refusing to modify prior state" (migrations.ts:162): the schema only ever
\* changes by the next migration of an intact schema, or from nothing at all, and
\* routes only ever mount over a sound store.
MigratesIntactOnly ==
  [][/\ stored'.shape # stored.shape \/ stored'.version # stored.version =>
          /\ intact(stored) \/ \A t \in TableNames : stored.shape[t] = "none"
          /\ intact(stored') /\ stored'.version >= stored.version
     /\ gate' = "ready" /\ gate # "ready" => sound(stored)]_startVars
=============================================================================
