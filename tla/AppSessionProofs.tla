-------------------------- MODULE AppSessionProofs --------------------------
(***************************************************************************)
(* The start and the session for queues of any length: which databases a   *)
(* start changes, opens and refuses; that the journal is shown only to     *)
(* whom a credential was proven; and that the settings mirror and the      *)
(* security card follow the native protection.                             *)
(***************************************************************************)
EXTENDS AppSession, TLAPS, SequenceTheorems

StartType ==
  /\ stored \in Databases
  /\ native \in BOOLEAN
  /\ boot \in [at : Phases, authenticated : BOOLEAN]
  /\ gate \in {"loading", "cancelled", "ready", "error"}
  /\ unlocked \in BOOLEAN /\ proven \in BOOLEAN /\ faulty \in BOOLEAN /\ tampered \in BOOLEAN

\* Phases that come after a check of the start.
Versioned == {"schema", "settings", "journal", "auth", "reconcile", "unlock", "done"}
Numbered == {"read", "migrate", "commit"} \cup Versioned
Shaped == Versioned \ {"schema"}
SettingsChecked == Shaped \ {"settings"}
JournalChecked == SettingsChecked \ {"journal"}
AuthChecked == JournalChecked \ {"auth"}

\* What openAppDatabase() has found out by the phase it is in.
PhaseInv ==
  /\ boot.at = "create" => tx = 0 /\ \A t \in TableNames : stored.shape[t] = "none"
  /\ boot.at \in Numbered => stored.shape["schema_metadata"] \in {"table", "bent"}
  /\ boot.at = "migrate" => stored.version \in 0..SCHEMA_VERSION
  /\ boot.at = "commit" => /\ intact(stored) /\ stored.version < SCHEMA_VERSION
                           /\ tx = stored.version + 1
                           /\ stored.shape[Tables[tx + 1]] = "none"
  /\ boot.at \in Versioned => stored.version = SCHEMA_VERSION
  /\ boot.at \in Shaped => validateSchemaSpec(stored, TableNames)
  /\ boot.at \in SettingsChecked => stored.damaged # "settings"
  /\ boot.at \in JournalChecked => stored.damaged # "journal"
  /\ boot.at \in AuthChecked => stored.damaged # "auth"
  /\ gate = "ready" => boot.at = "done"

\* A database of this app stays one, and only a foreign one, or a failure, ends a start.
SchemaInv ==
  /\ stored.shape["schema_metadata"] = "none" => stored.version = 0
  /\ ~tampered => appMade(stored)
  /\ native => stored.auth
  /\ boot.authenticated => stored.auth
  /\ (boot.at = "failed" \/ gate = "error") /\ ~faulty => tampered

-----------------------------------------------------------------------------
Cards == [mounted : BOOLEAN, shows : {"none", "on", "off"}, able : BOOLEAN,
          busy : BOOLEAN, error : BOOLEAN]

SessionType ==
  /\ ops \subseteq Ops
  /\ queue \in Seq(Calls)
  /\ card \in Cards
  /\ missed \in BOOLEAN

\* The session begins when the gate opens.
GateInv ==
  gate # "ready" => /\ status = "none" /\ ops = {op("load")}
                    /\ queue = <<>> /\ ~missed /\ card = NoCard

\* Whom the session is open for.
AuthInv ==
  /\ \A o \in ops : o.current /\ (o.at \in {"derive", "insert"} => stored.seeded)
  /\ unlocked => proven /\ stored.auth
  /\ status = "unlocked" => unlocked
  /\ card.mounted => stored.auth
  /\ \A i \in DOMAIN queue : queue[i].want \in {"set", "mirror"} => stored.auth

\* The native state has reached the mirror, or a call that will write it is running,
\* or its write failed.
MirrorInv ==
  /\ \A i \in DOMAIN queue : queue[i].want = "mirror" => i = 1 /\ queue[i].value = native
  /\ gate = "ready" \/ boot.at \in {"unlock", "done"} =>
       stored.mirror = native \/ missed \/ \E i \in DOMAIN queue : queue[i].want = "mirror"

changes(c) == c.want \in {"set", "mirror"}

\* The call c in the queue of a session whose card is k: the card that waits for a
\* call is busy, but for its load, before which it shows nothing, as it does while
\* changes of cards that were left are still to come.
fits(c, k) ==
  /\ changes(c) => c.for \in {"change", "nobody"}
  /\ c.for = "change" => changes(c)
  /\ c.for \in CardCalls =>
       k.mounted /\ (IF c.for = "load" THEN k.shows = "none" /\ ~k.error ELSE k.busy)
  /\ c.for = "recheck" => k.error
  /\ c.for = "change" /\ c.want = "set" => c.value # (k.shows = "on") /\ k.shows # "none"
  /\ c.for = "nobody" => k.shows = "none"

suits(q, k) == \A i \in DOMAIN q : fits(q[i], k)

\* At most one call is the card's, and it is behind those of cards that were left.
ordered(q) ==
  \A i, j \in DOMAIN q : q[i].for \in CardCalls =>
    /\ q[j].for \in CardCalls => i = j
    /\ q[j].for = "nobody" => j < i

CardInv == ordered(queue) /\ suits(queue, card) /\ CardIsAuthoritative

StartInv == StartType /\ PhaseInv /\ SchemaInv
IInv == StartInv /\ SessionType /\ GateInv /\ AuthInv /\ MirrorInv /\ CardInv

-----------------------------------------------------------------------------
LEMMA SchemaFacts ==
  /\ SCHEMA_VERSION = 3
  /\ TableNames = {"schema_metadata", "journal_entries", "settings", "local_auth"}
  /\ SchemaOf(0) = {"schema_metadata"} /\ SchemaOf(3) = TableNames
  /\ Tables[1] = "schema_metadata"
  /\ \A v \in 0..2 : /\ Tables[v + 2] \in TableNames \ SchemaOf(v)
                      /\ SchemaOf(v + 1) = SchemaOf(v) \cup {Tables[v + 2]}
  /\ \A v \in 0..3 : "schema_metadata" \in SchemaOf(v) /\ SchemaOf(v) \subseteq TableNames
<1>1. Len(Tables) = 4 /\ DOMAIN Tables = {1, 2, 3, 4}
  BY DEF Tables
<1>2. /\ Tables[1] = "schema_metadata" /\ Tables[2] = "journal_entries"
      /\ Tables[3] = "settings" /\ Tables[4] = "local_auth"
  BY DEF Tables
<1>3. SCHEMA_VERSION = 3
  BY <1>1 DEF SCHEMA_VERSION
<1>4. TableNames = {"schema_metadata", "journal_entries", "settings", "local_auth"}
  BY <1>1, <1>2 DEF TableNames
<1>5. 1..1 = {1} /\ 1..2 = {1, 2} /\ 1..3 = {1, 2, 3} /\ 1..4 = {1, 2, 3, 4}
  OBVIOUS
<1>6. /\ SchemaOf(0) = {Tables[1]} /\ SchemaOf(1) = {Tables[1], Tables[2]}
      /\ SchemaOf(2) = {Tables[1], Tables[2], Tables[3]}
      /\ SchemaOf(3) = {Tables[1], Tables[2], Tables[3], Tables[4]}
  BY <1>5 DEF SchemaOf
<1>7. \A v \in 0..2 : /\ Tables[v + 2] \in TableNames \ SchemaOf(v)
                       /\ SchemaOf(v + 1) = SchemaOf(v) \cup {Tables[v + 2]}
  <2>1. ASSUME NEW v \in 0..2 PROVE v = 0 \/ v = 1 \/ v = 2
    OBVIOUS
  <2> QED
    BY <1>2, <1>4, <1>6, <2>1
<1>8. \A v \in 0..3 : "schema_metadata" \in SchemaOf(v) /\ SchemaOf(v) \subseteq TableNames
  <2>1. ASSUME NEW v \in 0..3 PROVE v = 0 \/ v = 1 \/ v = 2 \/ v = 3
    OBVIOUS
  <2> QED
    BY <1>2, <1>4, <1>6, <2>1
<1> QED
  BY <1>2, <1>3, <1>4, <1>6, <1>7, <1>8

\* What appMade() says of a database, and what a commit makes of it.
LEMMA AppMadeFacts ==
  ASSUME NEW db \in Databases, appMade(db)
  PROVE  /\ db.damaged = "none" /\ (db.auth => db.seeded)
         /\ db.shape["schema_metadata"] # "view"
         /\ db.shape["schema_metadata"] = "none" => \A t \in TableNames : db.shape[t] = "none"
         /\ db.shape["schema_metadata"] # "none" =>
              /\ intact(db)
              /\ \A t \in TableNames \ SchemaOf(db.version) : db.shape[t] = "none"
BY SchemaFacts DEF appMade, intact, validateSchemaSpec

\* The session's writes touch none of what appMade() looks at but the credential.
LEMMA RowWritesKeep ==
  ASSUME NEW db \in Databases, NEW new \in Databases,
         new.shape = db.shape, new.version = db.version, new.damaged = db.damaged
  PROVE  /\ intact(new) <=> intact(db)
         /\ \A spec : validateSchemaSpec(new, spec) <=> validateSchemaSpec(db, spec)
         /\ appMade(db) /\ (new.auth => new.seeded) => appMade(new)
BY DEF appMade, intact, validateSchemaSpec

\* The database that commitTx leaves.
committed(db, v) == [db EXCEPT !.version = v, !.shape[Tables[v + 1]] = "table"]

\* One migration: an intact database becomes the intact one of the next version,
\* and nothing becomes the first.
LEMMA CommitMigrates ==
  ASSUME NEW db \in Databases, NEW v \in 0..SCHEMA_VERSION,
         NEW new, new = committed(db, v),
         \/ v = 0 /\ \A t \in TableNames : db.shape[t] = "none"
         \/ intact(db) /\ v = db.version + 1 /\ db.shape[Tables[v + 1]] = "none"
  PROVE  /\ new \in Databases /\ intact(new) /\ new.version = v
         /\ new.shape["schema_metadata"] = "table"
         /\ appMade(db) => appMade(new)
         /\ new.damaged = db.damaged /\ new.auth = db.auth /\ new.seeded = db.seeded
<1> DEFINE t0 == Tables[v + 1]
<1>1. v \in 0..3 /\ v \in -1..4
  BY SchemaFacts
<1>2. t0 \in TableNames /\ SchemaOf(v) \subseteq TableNames /\ "schema_metadata" \in SchemaOf(v)
  <2>1. CASE v = 0
    BY <2>1, SchemaFacts
  <2>2. CASE v # 0
    <3>1. v - 1 \in 0..2 /\ (v - 1) + 2 = v + 1
      BY <1>1, <2>2
    <3> QED
      BY <1>1, <3>1, SchemaFacts
  <2> QED
    BY <2>1, <2>2
<1>3. /\ db.shape \in [TableNames -> Shapes]
      /\ "table" \in Shapes
  BY DEF Databases, Shapes
<1> HIDE DEF t0
<1>4. /\ new = [db EXCEPT !.version = v, !.shape = [db.shape EXCEPT ![t0] = "table"]]
      /\ [db.shape EXCEPT ![t0] = "table"] \in [TableNames -> Shapes]
      /\ \A t \in TableNames : [db.shape EXCEPT ![t0] = "table"][t] = IF t = t0 THEN "table" ELSE db.shape[t]
  BY <1>2, <1>3 DEF t0, committed
<1>5. Corrupt..(SCHEMA_VERSION + 1) = -1..4
  BY SchemaFacts DEF Corrupt
<1>6. /\ new \in Databases /\ new.version = v /\ new.damaged = db.damaged
      /\ new.auth = db.auth /\ new.seeded = db.seeded
      /\ \A t \in TableNames : new.shape[t] = IF t = t0 THEN "table" ELSE db.shape[t]
  BY <1>1, <1>4, <1>5 DEF Databases
<1>7. \A t \in SchemaOf(v) : new.shape[t] = "table"
  <2>1. CASE v = 0
    BY <1>2, <1>6, <2>1, SchemaFacts DEF t0
  <2>2. CASE intact(db) /\ v = db.version + 1
    <3>1. db.version \in 0..2 /\ db.version + 2 = v + 1
      BY <1>1, <2>2 DEF intact
    <3>2. SchemaOf(v) = SchemaOf(db.version) \cup {t0}
      BY <2>2, <3>1, SchemaFacts DEF t0
    <3> QED
      BY <1>2, <1>6, <2>2, <3>2 DEF intact, validateSchemaSpec
  <2> QED
    BY <2>1, <2>2
<1>8. intact(new)
  BY <1>1, <1>6, <1>7, SchemaFacts DEF intact, validateSchemaSpec
<1>9. ASSUME appMade(db)
      PROVE  appMade(new)
  <2>1. \A t \in TableNames \ SchemaOf(v) : new.shape[t] = "none"
    <3>1. CASE v = 0 /\ \A t \in TableNames : db.shape[t] = "none"
      BY <1>2, <1>6, <1>7, <3>1, SchemaFacts DEF t0
    <3>2. CASE intact(db) /\ v = db.version + 1
      <4>1. db.version \in 0..2 /\ db.version + 2 = v + 1
        BY <1>1, <3>2 DEF intact
      <4>2. SchemaOf(v) = SchemaOf(db.version) \cup {t0}
        BY <3>2, <4>1, SchemaFacts DEF t0
      <4> QED
        BY <1>6, <1>9, <4>2 DEF appMade
    <3> QED
      BY <3>1, <3>2
  <2>2. new.damaged = "none" /\ (new.auth => new.seeded)
    BY <1>6, <1>9 DEF appMade
  <2> QED
    BY <1>6, <1>8, <2>1, <2>2 DEF appMade
<1> QED
  BY <1>2, <1>6, <1>7, <1>8, <1>9

-----------------------------------------------------------------------------
\* The steps of the start: what each has found out is what the next phase relies on.
LEMMA StopsKeep ==
  ASSUME StartInv, gate = "loading", releaseAndThrow, faulty' \in BOOLEAN,
         faulty' \/ (faulty' = faulty /\ tampered)
  PROVE  StartInv'
<1>1. boot' = [boot EXCEPT !.at = "failed"] /\ UNCHANGED <<stored, native, gate, unlocked, proven, tampered>>
  BY DEF releaseAndThrow, go
<1>2. boot'.at = "failed" /\ boot' \in [at : Phases, authenticated : BOOLEAN]
      /\ boot'.authenticated = boot.authenticated
  BY <1>1 DEF StartInv, StartType, Phases
<1>3. StartType'
  BY <1>1, <1>2 DEF StartInv, StartType
<1>4. PhaseInv'
  BY <1>1, <1>2 DEF StartInv, PhaseInv, Numbered, Versioned, Shaped, SettingsChecked, JournalChecked, AuthChecked
<1>5. SchemaInv'
  BY <1>1, <1>2 DEF StartInv, SchemaInv
<1> QED
  BY <1>3, <1>4, <1>5 DEF StartInv

LEMMA PrepareKeeps ==
  ASSUME StartInv, Prepare \/ Retry \/ OpenNative
  PROVE  StartInv'
<1>1. /\ UNCHANGED <<stored, tx, native, unlocked, proven, faulty, tampered>>
      /\ gate' \in {"loading", "cancelled"} /\ gate \in {"loading", "cancelled"}
      /\ \/ UNCHANGED boot
         \/ boot' = [at |-> "open", authenticated |-> native]
         \/ boot' = [boot EXCEPT !.at = "preflight"]
  BY DEF Prepare, Retry, OpenNative, at, go, readOnly
<1>2. CASE UNCHANGED boot
  <2>1. StartType'
    BY <1>1, <1>2 DEF StartInv, StartType
  <2>2. PhaseInv'
    BY <1>1, <1>2 DEF StartInv, PhaseInv, intact, validateSchemaSpec
  <2>3. SchemaInv'
    BY <1>1, <1>2 DEF StartInv, SchemaInv
  <2> QED
    BY <2>1, <2>2, <2>3 DEF StartInv
<1>3. CASE boot' = [at |-> "open", authenticated |-> native]
  <2>1. native \in BOOLEAN /\ "open" \in Phases
    BY DEF StartInv, StartType, Phases
  <2>2. boot' \in [at : Phases, authenticated : BOOLEAN] /\ boot'.at = "open" /\ boot'.authenticated = native
    BY <1>3, <2>1
  <2>3. StartType'
    BY <1>1, <2>2 DEF StartInv, StartType
  <2>4. PhaseInv'
    BY <1>1, <2>2 DEF StartInv, PhaseInv, Numbered, Versioned, Shaped,
         SettingsChecked, JournalChecked, AuthChecked
  <2>5. SchemaInv'
    BY <1>1, <2>2 DEF StartInv, SchemaInv
  <2> QED
    BY <2>3, <2>4, <2>5 DEF StartInv
<1>4. CASE boot' = [boot EXCEPT !.at = "preflight"]
  <2>1. /\ boot' \in [at : Phases, authenticated : BOOLEAN] /\ boot'.at = "preflight"
        /\ boot'.authenticated = boot.authenticated
    BY <1>4 DEF StartInv, StartType, Phases
  <2> QED
    BY <1>1, <2>1 DEF StartInv, StartType, PhaseInv, SchemaInv, Numbered, Versioned, Shaped,
         SettingsChecked, JournalChecked, AuthChecked
<1> QED
  BY <1>1, <1>2, <1>3, <1>4

\* A step that reads goes on when what it read is as the next phase expects.
LEMMA ReadsKeep ==
  ASSUME StartInv, gate = "loading", NEW phase \in Phases \ {"create", "commit", "failed"}, go(phase),
         UNCHANGED <<stored, native, gate, faulty, tampered>>,
         unlocked' \in BOOLEAN, proven' \in BOOLEAN,
         phase \in Numbered => stored.shape["schema_metadata"] \in {"table", "bent"},
         phase = "migrate" => stored.version \in 0..SCHEMA_VERSION,
         phase \in Versioned => stored.version = SCHEMA_VERSION,
         phase \in Shaped => validateSchemaSpec(stored, TableNames),
         phase \in SettingsChecked => stored.damaged # "settings",
         phase \in JournalChecked => stored.damaged # "journal",
         phase \in AuthChecked => stored.damaged # "auth"
  PROVE  StartInv'
<1>1. boot' = [boot EXCEPT !.at = phase]
  BY DEF go
<1>2. /\ boot' \in [at : Phases, authenticated : BOOLEAN] /\ boot'.at = phase
      /\ boot'.authenticated = boot.authenticated
  BY <1>1 DEF StartInv, StartType
<1>3. StartType'
  BY <1>2 DEF StartInv, StartType
<1>4. PhaseInv'
  BY <1>2 DEF StartInv, PhaseInv
<1>5. SchemaInv'
  BY <1>2 DEF StartInv, SchemaInv
<1> QED
  BY <1>3, <1>4, <1>5 DEF StartInv

LEMMA RefuseKeeps ==
  ASSUME StartInv, gate = "loading", refuse, tampered
  PROVE  StartInv'
<1>1. releaseAndThrow /\ UNCHANGED faulty
  BY DEF refuse
<1>2. faulty' \in BOOLEAN
  BY <1>1 DEF StartInv, StartType
<1> QED
  BY <1>1, <1>2, StopsKeep

LEMMA PreflightKeeps ==
  ASSUME StartInv, Preflight
  PROVE  StartInv'
<1> USE DEF readOnly, at
<1>0. gate = "loading" /\ stored \in Databases /\ unlocked \in BOOLEAN /\ proven \in BOOLEAN /\ faulty \in BOOLEAN
  BY DEF Preflight, StartInv, StartType
<1>1. CASE stored.shape["schema_metadata"] \in {"table", "bent"} /\ go("read") /\ readOnly /\ UNCHANGED faulty
  BY <1>0, <1>1, ReadsKeep DEF Phases, Numbered, Versioned, Shaped, SettingsChecked, JournalChecked, AuthChecked
<1>2. CASE /\ stored.shape["schema_metadata"] \in {"none", "view"}
           /\ \E t \in TableNames : stored.shape[t] # "none"
           /\ refuse
  <2>1. tampered
    BY <1>0, <1>2, AppMadeFacts DEF StartInv, SchemaInv
  <2> QED
    BY <1>0, <1>2, <2>1, RefuseKeeps
<1>3. CASE /\ \A t \in TableNames : stored.shape[t] = "none"
           /\ tx' = 0 /\ go("create")
           /\ UNCHANGED <<stored, native, gate, unlocked, proven, tampered, faulty>>
  <2>1. boot' = [boot EXCEPT !.at = "create"]
    BY <1>3 DEF go
  <2>2. /\ boot' \in [at : Phases, authenticated : BOOLEAN] /\ boot'.at = "create"
        /\ boot'.authenticated = boot.authenticated
    BY <2>1 DEF StartInv, StartType, Phases
  <2>3. StartType'
    BY <1>3, <2>2 DEF StartInv, StartType
  <2>4. PhaseInv'
    BY <1>0, <1>3, <2>2 DEF PhaseInv, Numbered, Versioned, Shaped, SettingsChecked, JournalChecked, AuthChecked
  <2>5. SchemaInv'
    BY <1>3, <2>2 DEF StartInv, SchemaInv
  <2> QED
    BY <2>3, <2>4, <2>5 DEF StartInv
<1> QED
  BY <1>1, <1>2, <1>3 DEF Preflight

\* commitTx with what comes before it: the database of the next version.
LEMMA CommitsKeep ==
  ASSUME StartInv, CreateMetadata \/ CommitMigration
  PROVE  /\ StartInv' /\ intact(stored') /\ stored'.version >= stored.version
         /\ intact(stored) \/ \A t \in TableNames : stored.shape[t] = "none"
         /\ gate' = "loading"
         /\ UNCHANGED <<native, unlocked, proven>>
<1> DEFINE phase == IF boot.at = "create" THEN "read" ELSE "migrate"
<1>1. /\ boot.at \in {"create", "commit"} /\ gate = "loading"
      /\ stored' = [stored EXCEPT !.version = tx, !.shape[Tables[tx + 1]] = "table"]
      /\ boot' = [boot EXCEPT !.at = phase]
      /\ UNCHANGED <<native, gate, unlocked, proven, tampered, faulty>>
  BY DEF CreateMetadata, CommitMigration, commitTx, at, go
<1>2. tx \in 0..SCHEMA_VERSION /\ tx >= stored.version /\
      \/ tx = 0 /\ \A t \in TableNames : stored.shape[t] = "none"
      \/ intact(stored) /\ tx = stored.version + 1 /\ stored.shape[Tables[tx + 1]] = "none"
  <2>1. CASE boot.at = "create"
    <3>1. tx = 0 /\ \A t \in TableNames : stored.shape[t] = "none"
      BY <2>1 DEF StartInv, PhaseInv
    <3>2. stored.version = 0
      BY <3>1, SchemaFacts DEF StartInv, SchemaInv
    <3> QED
      BY <3>1, <3>2, SchemaFacts
  <2>2. CASE boot.at = "commit"
    <3>1. /\ intact(stored) /\ stored.version < SCHEMA_VERSION /\ tx = stored.version + 1
          /\ stored.shape[Tables[tx + 1]] = "none"
      BY <2>2 DEF StartInv, PhaseInv
    <3>2. stored.version \in 0..3
      BY <3>1, SchemaFacts DEF intact
    <3>3. tx \in 0..SCHEMA_VERSION /\ tx >= stored.version
      BY <3>1, <3>2, SchemaFacts
    <3> QED
      BY <3>1, <3>3
  <2> QED
    BY <1>1, <2>1, <2>2
<1>3. /\ stored' \in Databases /\ intact(stored') /\ stored'.version = tx
      /\ stored'.shape["schema_metadata"] = "table"
      /\ appMade(stored) => appMade(stored')
      /\ stored'.auth = stored.auth
  <2>1. stored \in Databases
    BY DEF StartInv, StartType
  <2>2. tx \in 0..SCHEMA_VERSION
    BY <1>2
  <2>3. stored' = committed(stored, tx)
    BY <1>1 DEF committed
  <2>4. \/ tx = 0 /\ \A t \in TableNames : stored.shape[t] = "none"
        \/ intact(stored) /\ tx = stored.version + 1 /\ stored.shape[Tables[tx + 1]] = "none"
    BY <1>2
  <2> QED
    BY <2>1, <2>2, <2>3, <2>4, CommitMigrates
<1>4. /\ boot' \in [at : Phases, authenticated : BOOLEAN] /\ boot'.at = phase
      /\ boot'.authenticated = boot.authenticated
  BY <1>1 DEF StartInv, StartType, Phases
<1>5. StartType'
  BY <1>1, <1>3, <1>4 DEF StartInv, StartType
<1>6. PhaseInv'
  BY <1>1, <1>2, <1>3, <1>4 DEF PhaseInv, Numbered, Versioned, Shaped, SettingsChecked, JournalChecked, AuthChecked
<1>7. SchemaInv'
  BY <1>1, <1>3, <1>4 DEF StartInv, SchemaInv
<1> QED
  BY <1>1, <1>2, <1>3, <1>5, <1>6, <1>7 DEF StartInv

LEMMA ReadVersionKeeps ==
  ASSUME StartInv, ReadVersion
  PROVE  StartInv'
<1> USE DEF readOnly, at
<1>0. /\ gate = "loading" /\ boot.at = "read" /\ stored \in Databases
      /\ unlocked \in BOOLEAN /\ proven \in BOOLEAN
      /\ stored.shape["schema_metadata"] \in {"table", "bent"}
  BY DEF ReadVersion, StartInv, StartType, PhaseInv, Numbered
<1>1. CASE stored.version \in 0..SCHEMA_VERSION
  <2>1. go("migrate") /\ readOnly /\ UNCHANGED faulty
    BY <1>1 DEF ReadVersion
  <2> QED
    BY <1>0, <1>1, <2>1, ReadsKeep DEF Phases, Numbered, Versioned, Shaped, SettingsChecked, JournalChecked, AuthChecked
<1>2. CASE stored.version \notin 0..SCHEMA_VERSION
  <2>1. tampered
    BY <1>0, <1>2, AppMadeFacts DEF StartInv, SchemaInv, intact
  <2>2. refuse
    BY <1>2 DEF ReadVersion
  <2> QED
    BY <1>0, <2>1, <2>2, RefuseKeeps
<1> QED
  BY <1>1, <1>2

LEMMA MigrateKeeps ==
  ASSUME StartInv, Migrate
  PROVE  StartInv'
<1> USE DEF readOnly, at
<1>0. /\ gate = "loading" /\ boot.at = "migrate" /\ stored \in Databases
      /\ unlocked \in BOOLEAN /\ proven \in BOOLEAN
      /\ stored.shape["schema_metadata"] \in {"table", "bent"}
      /\ stored.version \in 0..SCHEMA_VERSION
  BY DEF Migrate, StartInv, StartType, PhaseInv, Numbered
<1> DEFINE ready == /\ validateSchemaSpec(stored, SchemaOf(stored.version))
                    /\ stored.shape[Tables[stored.version + 2]] = "none"
<1>1. CASE stored.version = SCHEMA_VERSION /\ go("schema") /\ readOnly /\ UNCHANGED faulty
  BY <1>0, <1>1, ReadsKeep DEF Phases, Numbered, Versioned, Shaped, SettingsChecked, JournalChecked, AuthChecked
<1>2. CASE /\ ready /\ stored.version < SCHEMA_VERSION /\ tx' = stored.version + 1 /\ go("commit")
           /\ UNCHANGED <<stored, native, gate, unlocked, proven, tampered, faulty>>
  <2>1. boot' = [boot EXCEPT !.at = "commit"]
    BY <1>2 DEF go
  <2>2. /\ boot' \in [at : Phases, authenticated : BOOLEAN] /\ boot'.at = "commit"
        /\ boot'.authenticated = boot.authenticated
    BY <2>1 DEF StartInv, StartType, Phases
  <2>3. intact(stored) /\ tx' + 1 = stored.version + 2
    BY <1>0, <1>2, SchemaFacts DEF intact
  <2>4. StartType'
    BY <1>2, <2>2 DEF StartInv, StartType
  <2>5. PhaseInv'
    BY <1>0, <1>2, <2>2, <2>3
       DEF PhaseInv, intact, Numbered, Versioned, Shaped, SettingsChecked, JournalChecked, AuthChecked
  <2>6. SchemaInv'
    BY <1>2, <2>2 DEF StartInv, SchemaInv
  <2> QED
    BY <2>4, <2>5, <2>6 DEF StartInv
<1>3. CASE ~ready /\ stored.version < SCHEMA_VERSION /\ refuse
  <2>1. ASSUME ~tampered
        PROVE  FALSE
    <3>1. intact(stored) /\ \A t \in TableNames \ SchemaOf(stored.version) : stored.shape[t] = "none"
      BY <1>0, <2>1, AppMadeFacts DEF StartInv, SchemaInv
    <3>2. stored.version \in 0..2
      BY <1>0, <1>3, SchemaFacts
    <3>3. Tables[stored.version + 2] \in TableNames \ SchemaOf(stored.version)
      BY <3>2, SchemaFacts
    <3> QED
      BY <1>3, <3>1, <3>3 DEF intact
  <2>2. tampered
    BY <2>1 DEF StartInv, StartType
  <2> QED
    BY <1>0, <1>3, <2>2, RefuseKeeps
<1> QED
  BY <1>1, <1>2, <1>3 DEF Migrate

LEMMA ValidatesKeep ==
  ASSUME StartInv,
         \/ validateAppSchema
         \/ ValidateRows("settings", "journal") \/ ValidateRows("journal", "auth")
         \/ ValidateRows("auth", "reconcile")
  PROVE  StartInv'
<1> USE DEF readOnly, at
<1>0. /\ gate = "loading" /\ stored \in Databases /\ boot.at \in Versioned
      /\ unlocked \in BOOLEAN /\ proven \in BOOLEAN
      /\ stored.shape["schema_metadata"] \in {"table", "bent"}
      /\ stored.version = SCHEMA_VERSION
  BY DEF validateAppSchema, ValidateRows, StartInv, StartType, PhaseInv, Numbered, Versioned
<1>1. ~tampered => validateSchemaSpec(stored, TableNames) /\ stored.damaged = "none"
  <2>1. SchemaOf(stored.version) = TableNames
    <3>1. stored.version = 3 /\ SchemaOf(3) = TableNames
      BY <1>0, SchemaFacts
    <3> QED
      BY <3>1, Zenon
  <2>2. ASSUME ~tampered
        PROVE  intact(stored) /\ stored.damaged = "none"
    <3>1. appMade(stored)
      BY <2>2 DEF StartInv, SchemaInv
    <3>2. stored \in Databases /\ stored.shape["schema_metadata"] # "none"
      BY <1>0
    <3> QED
      BY <3>1, <3>2, AppMadeFacts
  <2>3. intact(stored) => validateSchemaSpec(stored, SchemaOf(stored.version))
    BY DEF intact
  <2> QED
    BY <2>1, <2>2, <2>3 DEF validateSchemaSpec
<1>2. CASE refuse /\ (~validateSchemaSpec(stored, TableNames) \/ stored.damaged \in {"settings", "journal", "auth"})
  BY <1>0, <1>1, <1>2, RefuseKeeps
<1>3. CASE validateAppSchema /\ validateSchemaSpec(stored, TableNames)
  <2>1. go("settings") /\ readOnly /\ UNCHANGED faulty
    BY <1>3 DEF validateAppSchema
  <2> QED
    BY <1>0, <1>3, <2>1, ReadsKeep DEF Phases, Shaped, Versioned, SettingsChecked, JournalChecked, AuthChecked
<1>4. CASE ValidateRows("settings", "journal") /\ stored.damaged # "settings"
  <2>1. go("journal") /\ readOnly /\ UNCHANGED faulty /\ boot.at = "settings"
    BY <1>4 DEF ValidateRows
  <2>2. validateSchemaSpec(stored, TableNames)
    BY <2>1 DEF StartInv, PhaseInv, Shaped, Versioned
  <2> QED
    BY <1>0, <1>4, <2>1, <2>2, ReadsKeep DEF Phases, Shaped, Versioned, SettingsChecked, JournalChecked, AuthChecked
<1>5. CASE ValidateRows("journal", "auth") /\ stored.damaged # "journal"
  <2>1. go("auth") /\ readOnly /\ UNCHANGED faulty /\ boot.at = "journal"
    BY <1>5 DEF ValidateRows
  <2>2. validateSchemaSpec(stored, TableNames) /\ stored.damaged # "settings"
    BY <2>1 DEF StartInv, PhaseInv, Shaped, Versioned, SettingsChecked
  <2> QED
    BY <1>0, <1>5, <2>1, <2>2, ReadsKeep DEF Phases, Shaped, Versioned, SettingsChecked, JournalChecked, AuthChecked
<1>6. CASE ValidateRows("auth", "reconcile") /\ stored.damaged # "auth"
  <2>1. go("reconcile") /\ readOnly /\ UNCHANGED faulty /\ boot.at = "auth"
    BY <1>6 DEF ValidateRows
  <2>2. validateSchemaSpec(stored, TableNames) /\ stored.damaged # "settings" /\ stored.damaged # "journal"
    BY <2>1 DEF StartInv, PhaseInv, Shaped, Versioned, SettingsChecked, JournalChecked
  <2> QED
    BY <1>0, <1>6, <2>1, <2>2, ReadsKeep DEF Phases, Shaped, Versioned, SettingsChecked, JournalChecked, AuthChecked
<1> QED
  BY <1>2, <1>3, <1>4, <1>5, <1>6 DEF validateAppSchema, ValidateRows

LEMMA ReconcileKeeps ==
  ASSUME StartInv, Reconcile
  PROVE  StartInv'
<1>1. /\ boot.at = "reconcile" /\ gate = "loading" /\ stored' = [stored EXCEPT !.mirror = native]
      /\ boot' = [boot EXCEPT !.at = "unlock"]
      /\ UNCHANGED <<tx, native, gate, unlocked, proven, faulty, tampered>>
  BY DEF Reconcile, at, go
<1>2. stored \in Databases /\ native \in BOOLEAN
  BY DEF StartInv, StartType
<1>3. /\ stored' \in Databases /\ stored'.shape = stored.shape /\ stored'.version = stored.version
      /\ stored'.damaged = stored.damaged /\ stored'.auth = stored.auth /\ stored'.seeded = stored.seeded
  BY <1>1, <1>2 DEF Databases
<1>4. /\ boot' \in [at : Phases, authenticated : BOOLEAN] /\ boot'.at = "unlock"
      /\ boot'.authenticated = boot.authenticated
  BY <1>1 DEF StartInv, StartType, Phases
<1>5. StartType'
  BY <1>1, <1>3, <1>4 DEF StartInv, StartType
<1>6. PhaseInv'
  <2>1. validateSchemaSpec(stored', TableNames) <=> validateSchemaSpec(stored, TableNames)
    BY <1>2, <1>3, RowWritesKeep
  <2> QED
    BY <1>1, <1>3, <1>4, <2>1
       DEF StartInv, PhaseInv, Numbered, Versioned, Shaped, SettingsChecked, JournalChecked, AuthChecked
<1>7. SchemaInv'
  <2>1. ASSUME ~tampered
        PROVE  appMade(stored')
    <3>1. appMade(stored) /\ (stored'.auth => stored'.seeded)
      BY <1>2, <1>3, <2>1, AppMadeFacts DEF StartInv, SchemaInv
    <3> QED
      BY <1>2, <1>3, <3>1, RowWritesKeep
  <2> QED
    BY <1>1, <1>3, <1>4, <2>1 DEF StartInv, SchemaInv
<1> QED
  BY <1>5, <1>6, <1>7 DEF StartInv

LEMMA UnlockKeeps ==
  ASSUME StartInv, Unlock
  PROVE  StartInv'
<1> USE DEF readOnly, at
<1>0. /\ gate = "loading" /\ boot.at = "unlock" /\ unlocked \in BOOLEAN /\ proven \in BOOLEAN
      /\ stored.shape["schema_metadata"] \in {"table", "bent"} /\ stored.version = SCHEMA_VERSION
      /\ validateSchemaSpec(stored, TableNames)
      /\ stored.damaged \notin {"settings", "journal", "auth"}
  BY DEF Unlock, StartInv, StartType, PhaseInv, Numbered, Versioned, Shaped,
     SettingsChecked, JournalChecked, AuthChecked
<1>1. CASE boot.authenticated /\ ~stored.auth
  BY <1>1 DEF StartInv, SchemaInv
<1>2. CASE go("done") /\ UNCHANGED <<stored, native, gate, faulty, tampered>>
             /\ unlocked' \in {unlocked, TRUE} /\ proven' \in {proven, TRUE}
  BY <1>0, <1>2, ReadsKeep DEF Phases
<1> QED
  BY <1>1, <1>2 DEF Unlock

LEMMA GateKeeps ==
  ASSUME StartInv, GateReady \/ GateError
  PROVE  /\ StartInv'
         /\ gate' = "ready" => sound(stored)
<1>1. /\ boot.at \in {"done", "failed"} /\ gate = "loading"
      /\ UNCHANGED <<stored, tx, native, boot, unlocked, proven, tampered>>
      /\ \/ gate' = "ready" /\ boot.at = "done" /\ UNCHANGED faulty
         \/ gate' = "error" /\ faulty' = TRUE
         \/ gate' = "error" /\ boot.at = "failed" /\ UNCHANGED faulty
  BY DEF GateReady, GateError, at
<1>2. StartType'
  BY <1>1 DEF StartInv, StartType
<1>3. PhaseInv'
  BY <1>1 DEF StartInv, PhaseInv, Numbered, Versioned, Shaped, SettingsChecked, JournalChecked, AuthChecked
<1>4. SchemaInv'
  BY <1>1 DEF StartInv, SchemaInv
<1>5. ASSUME gate' = "ready"
      PROVE  sound(stored)
  <2>1. /\ stored.version = SCHEMA_VERSION /\ validateSchemaSpec(stored, TableNames)
        /\ stored.damaged \notin {"settings", "journal", "auth"}
    BY <1>1, <1>5 DEF StartInv, PhaseInv, Versioned, Shaped, SettingsChecked, JournalChecked, AuthChecked
  <2>2. stored.damaged = "none"
    BY <2>1 DEF StartInv, StartType, Databases, RowKinds
  <2>3. SchemaOf(SCHEMA_VERSION) = TableNames
    BY SchemaFacts
  <2> QED
    BY <2>1, <2>2, <2>3 DEF sound, validateSchemaSpec
<1> QED
  BY <1>2, <1>3, <1>4, <1>5 DEF StartInv

LEMMA StartStepKeeps ==
  ASSUME StartInv, StartStep
  PROVE  StartInv'
<1>1. CASE Fails
  <2>1. gate = "loading" /\ releaseAndThrow /\ faulty' = TRUE
    BY <1>1 DEF Fails
  <2> QED
    BY <2>1, StopsKeep
<1> QED
  BY <1>1, PrepareKeeps, PreflightKeeps, CommitsKeep, ReadVersionKeeps, MigrateKeeps, ValidatesKeep,
     ReconcileKeeps, UnlockKeeps, GateKeeps DEF StartStep

\* What any step of the start leaves of the session's facts.
LEMMA StartStepBounds ==
  ASSUME StartInv, StartStep
  PROVE  /\ gate # "ready" /\ native' = native
         /\ stored'.auth = stored.auth /\ stored'.seeded = stored.seeded
         /\ \/ unlocked' = unlocked /\ proven' = proven
            \/ unlocked' = TRUE /\ proven' = TRUE /\ stored.auth
         /\ gate' = "ready" \/ boot'.at \in {"unlock", "done"} =>
              stored'.mirror = native' \/ (stored' = stored /\ boot.at \in {"unlock", "done"})
<1> USE DEF at, readOnly, go
<1>0. stored \in Databases /\ boot \in [at : Phases, authenticated : BOOLEAN]
  BY DEF StartInv, StartType
<1>1. CASE Prepare \/ Retry \/ GateReady \/ GateError
  BY <1>0, <1>1 DEF Prepare, Retry, GateReady, GateError
<1>2. CASE releaseAndThrow /\ gate = "loading"
  BY <1>0, <1>2 DEF releaseAndThrow
<1>3. CASE CreateMetadata \/ CommitMigration
  <2>1. /\ gate = "loading" /\ UNCHANGED <<native, gate, unlocked, proven>>
        /\ boot' \in {[boot EXCEPT !.at = "read"], [boot EXCEPT !.at = "migrate"]}
        /\ stored' = [stored EXCEPT !.version = tx, !.shape[Tables[tx + 1]] = "table"]
    BY <1>3 DEF CreateMetadata, CommitMigration, commitTx
  <2>2. boot'.at \notin {"unlock", "done"}
    BY <1>0, <2>1
  <2>3. stored'.auth = stored.auth /\ stored'.seeded = stored.seeded
    BY <1>0, <2>1 DEF Databases
  <2> QED
    BY <2>1, <2>2, <2>3
<1>4. CASE /\ gate = "loading" /\ UNCHANGED <<stored, native, gate, unlocked, proven>>
           /\ \E phase \in Phases \ {"unlock", "done"} : boot' = [boot EXCEPT !.at = phase]
  BY <1>0, <1>4
<1>5. CASE Reconcile
  <2>1. /\ gate = "loading" /\ UNCHANGED <<native, gate, unlocked, proven>>
        /\ stored' = [stored EXCEPT !.mirror = native]
    BY <1>5 DEF Reconcile
  <2>2. stored'.mirror = native /\ stored'.auth = stored.auth /\ stored'.seeded = stored.seeded
    BY <1>0, <2>1 DEF Databases
  <2> QED
    BY <2>1, <2>2
<1>6. CASE Unlock
  <2>1. CASE refuse
    BY <1>2, <1>6, <2>1 DEF Unlock, refuse
  <2>2. CASE UNCHANGED stored /\ ~refuse
    BY <1>6, <2>2 DEF Unlock
  <2> QED
    BY <1>6, <2>1, <2>2 DEF Unlock
<1>7. CASE OpenNative \/ Preflight \/ ReadVersion \/ Migrate
  BY <1>2, <1>4, <1>7 DEF OpenNative, Preflight, ReadVersion, Migrate, refuse, Phases
<1>8. CASE \/ validateAppSchema
           \/ ValidateRows("settings", "journal") \/ ValidateRows("journal", "auth")
           \/ ValidateRows("auth", "reconcile")
  BY <1>2, <1>4, <1>8 DEF validateAppSchema, ValidateRows, refuse, Phases
<1>9. CASE Fails
  BY <1>2, <1>9 DEF Fails
<1> QED
  BY <1>1, <1>3, <1>5, <1>6, <1>7, <1>8, <1>9 DEF StartStep

\* The action property of the start, for one of its steps.
LEMMA StartStepMigrates ==
  ASSUME StartInv, StartStep
  PROVE  /\ stored'.shape # stored.shape \/ stored'.version # stored.version =>
              /\ intact(stored) \/ \A t \in TableNames : stored.shape[t] = "none"
              /\ intact(stored') /\ stored'.version >= stored.version
         /\ gate' = "ready" => sound(stored)
<1> USE DEF at, readOnly
<1>1. CASE CreateMetadata \/ CommitMigration
  BY <1>1, CommitsKeep
<1>2. CASE GateReady \/ GateError
  BY <1>2, GateKeeps DEF GateReady, GateError
<1>3. CASE Reconcile
  <2>1. stored \in Databases /\ stored' = [stored EXCEPT !.mirror = native] /\ gate' = "loading"
    BY <1>3 DEF StartInv, StartType, Reconcile
  <2> QED
    BY <2>1 DEF Databases
<1>4. CASE UNCHANGED stored /\ gate' \in {"loading", "cancelled"}
  BY <1>4
<1>5. CASE Fails \/ Prepare \/ Retry \/ OpenNative \/ Preflight \/ ReadVersion \/ Migrate
  BY <1>4, <1>5 DEF Fails, Prepare, Retry, OpenNative, Preflight, ReadVersion, Migrate,
       releaseAndThrow, refuse
<1>6. CASE Unlock
  BY <1>4, <1>6 DEF Unlock, releaseAndThrow, refuse
<1>7. CASE \/ validateAppSchema
           \/ ValidateRows("settings", "journal") \/ ValidateRows("journal", "auth")
           \/ ValidateRows("auth", "reconcile")
  BY <1>4, <1>7 DEF validateAppSchema, ValidateRows, releaseAndThrow, refuse
<1> QED
  BY <1>1, <1>2, <1>3, <1>5, <1>6, <1>7 DEF StartStep

-----------------------------------------------------------------------------
\* The queue without its first call.
LEMMA WithoutFacts ==
  ASSUME NEW S, NEW q \in Seq(S), 1 \in DOMAIN q
  PROVE  /\ RemoveAt(q, 1) \in Seq(S)
         /\ \A i \in DOMAIN RemoveAt(q, 1) :
              i \in Nat \ {0} /\ i + 1 \in DOMAIN q /\ RemoveAt(q, 1)[i] = q[i + 1]
         /\ \A i \in DOMAIN q : i \in Nat /\ (i = 1 \/ (i - 1 \in DOMAIN RemoveAt(q, 1)
                                                        /\ RemoveAt(q, 1)[i - 1] = q[i]))
<1>1. SubSeq(q, 1, 1 - 1) = <<>>
  OBVIOUS
<1>2. Len(q) \in Nat /\ 1 <= Len(q) /\ DOMAIN q = 1..Len(q) /\ 1 + 1 = 2
  OBVIOUS
<1>3. /\ SubSeq(q, 2, Len(q)) \in Seq(S)
      /\ Len(SubSeq(q, 2, Len(q))) = Len(q) - 1
      /\ \A i \in 1..(Len(q) - 1) : SubSeq(q, 2, Len(q))[i] = q[i + 1]
  BY <1>2
<1>4. RemoveAt(q, 1) = SubSeq(q, 2, Len(q))
  <2>1. <<>> \o SubSeq(q, 2, Len(q)) = SubSeq(q, 2, Len(q))
    BY <1>3, ConcatEmptySeq
  <2>2. RemoveAt(q, 1) = SubSeq(q, 1, 1 - 1) \o SubSeq(q, 1 + 1, Len(q))
    BY Zenon DEF RemoveAt
  <2>3. SubSeq(q, 1 + 1, Len(q)) = SubSeq(q, 2, Len(q))
    BY <1>2, Zenon
  <2> QED
    BY <1>1, <2>1, <2>2, <2>3, Zenon
<1> DEFINE r == SubSeq(q, 2, Len(q))
<1> HIDE DEF r
<1>5. r \in Seq(S) /\ Len(r) = Len(q) - 1 /\ \A i \in 1..(Len(q) - 1) : r[i] = q[i + 1]
  BY <1>3 DEF r
<1>6. DOMAIN r = 1..(Len(q) - 1)
  BY <1>5
<1>7. /\ \A i \in DOMAIN r : i \in Nat \ {0} /\ i + 1 \in DOMAIN q /\ r[i] = q[i + 1]
      /\ \A i \in DOMAIN q : i \in Nat /\ (i = 1 \/ (i - 1 \in DOMAIN r /\ r[i - 1] = q[i]))
  BY <1>2, <1>5, <1>6
<1> QED
  BY <1>4, <1>5, <1>7, Zenon DEF r

LEMMA AppendFacts ==
  ASSUME NEW S, NEW q \in Seq(S), NEW e \in S
  PROVE  /\ Append(q, e) \in Seq(S) /\ Len(q) + 1 \in DOMAIN Append(q, e)
         /\ Append(q, e)[Len(q) + 1] = e
         /\ \A i \in DOMAIN q : i \in Nat /\ i < Len(q) + 1
                                /\ i \in DOMAIN Append(q, e) /\ Append(q, e)[i] = q[i]
         /\ \A i \in DOMAIN Append(q, e) : i \in Nat /\ (i \in DOMAIN q \/ i = Len(q) + 1)
OBVIOUS

-----------------------------------------------------------------------------
\* What a session's writes and sign-ins leave of the start's facts.
LEMMA SessionKeepsStart ==
  ASSUME StartInv, UNCHANGED <<tx, boot, gate, faulty, tampered>>,
         stored' \in Databases, native' \in BOOLEAN, unlocked' \in BOOLEAN, proven' \in BOOLEAN,
         stored'.shape = stored.shape, stored'.version = stored.version,
         stored'.damaged = stored.damaged, stored.auth => stored'.auth,
         stored'.auth => stored'.seeded \/ (stored.auth /\ stored'.seeded = stored.seeded),
         native' => stored'.auth
  PROVE  StartInv'
<1>0. stored \in Databases
  BY DEF StartInv, StartType
<1>1. /\ intact(stored') <=> intact(stored)
      /\ validateSchemaSpec(stored', TableNames) <=> validateSchemaSpec(stored, TableNames)
  BY <1>0, RowWritesKeep
<1>2. StartType'
  BY DEF StartInv, StartType
<1>3. PhaseInv'
  BY <1>1 DEF StartInv, PhaseInv
<1>4. SchemaInv'
  <2>1. ASSUME ~tampered
        PROVE  appMade(stored')
    <3>1. appMade(stored) /\ (stored.auth => stored.seeded)
      BY <1>0, <2>1, AppMadeFacts DEF StartInv, SchemaInv
    <3> QED
      BY <1>0, <3>1, RowWritesKeep
  <2> QED
    BY <2>1 DEF StartInv, SchemaInv
<1> QED
  BY <1>2, <1>3, <1>4 DEF StartInv

\* An operation of AuthProvider that leaves the service's session and the database.
LEMMA OperationsKeep ==
  ASSUME IInv, gate = "ready", unchangedStart, ops' \subseteq Ops,
         \A o \in ops' : o.current /\ (o.at \in {"derive", "insert"} => stored.seeded),
         status' = "unlocked" => unlocked,
         UNCHANGED <<queue, card, missed>>
  PROVE  IInv'
<1>1. UNCHANGED <<stored, tx, conn, native, boot, gate, unlocked, proven, faulty, tampered>>
  BY DEF unchangedStart, startVars
<1>2. StartInv'
  BY <1>1, SessionKeepsStart DEF IInv, StartInv, StartType, SchemaInv
<1>3. SessionType' /\ GateInv' /\ AuthInv'
  BY <1>1 DEF IInv, SessionType, GateInv, AuthInv
<1>4. MirrorInv'
  BY <1>1 DEF IInv, MirrorInv
<1>5. CardInv'
  BY <1>1 DEF IInv, CardInv, CardIsAuthoritative
<1> QED
  BY <1>2, <1>3, <1>4, <1>5 DEF IInv

\* The session opens for an operation that is still wanted.
LEMMA OpensKeeps ==
  ASSUME IInv, NEW o \in ops, gate = "ready", opens(o),
         \/ stored.auth /\ UNCHANGED stored
         \/ o.at = "insert" /\ stored' = [stored EXCEPT !.auth = TRUE]
  PROVE  IInv'
<1>1. /\ UNCHANGED <<tx, native, boot, gate, faulty, tampered, queue, card, missed>>
      /\ ops' \subseteq ops /\ unlocked' = TRUE /\ proven' = (proven \/ o.current)
  BY DEF opens, sessionOnly
<1>2. stored \in Databases /\ native \in BOOLEAN /\ o.current = TRUE
  BY DEF IInv, StartInv, StartType, SessionType, AuthInv, Ops
<1>3. /\ stored' \in Databases /\ stored'.shape = stored.shape /\ stored'.version = stored.version
      /\ stored'.damaged = stored.damaged /\ stored'.auth = TRUE
      /\ stored'.seeded = stored.seeded /\ stored'.mirror = stored.mirror
      /\ stored.seeded \/ stored.auth
  <2>1. CASE stored.auth /\ UNCHANGED stored
    <3>1. stored.auth \in BOOLEAN
      BY <1>2 DEF Databases
    <3> QED
      BY <1>2, <2>1, <3>1
  <2>2. CASE o.at = "insert" /\ stored' = [stored EXCEPT !.auth = TRUE]
    <3>1. stored.seeded
      BY <2>2 DEF IInv, AuthInv
    <3> QED
      BY <1>2, <2>2, <3>1 DEF Databases
  <2> QED
    BY <2>1, <2>2
<1>4. proven' = TRUE
  BY <1>1, <1>2
<1>5. StartInv'
  BY <1>1, <1>2, <1>3, <1>4, SessionKeepsStart DEF IInv
<1>6. SessionType' /\ GateInv'
  BY <1>1 DEF IInv, SessionType, GateInv
<1>7. AuthInv'
  BY <1>1, <1>3, <1>4 DEF IInv, AuthInv
<1>8. MirrorInv'
  BY <1>1, <1>3 DEF IInv, MirrorInv
<1>9. CardInv'
  BY <1>1 DEF IInv, CardInv, CardIsAuthoritative
<1> QED
  BY <1>5, <1>6, <1>7, <1>8, <1>9 DEF IInv

\* settings.update({timezone})
LEMMA SeedKeeps ==
  ASSUME IInv, NEW o \in ops, gate = "ready", SetupSeed(o)
  PROVE  IInv'
<1>1. /\ UNCHANGED <<tx, native, boot, gate, faulty, tampered, unlocked, proven, queue, card, missed, status>>
      /\ stored' = [stored EXCEPT !.seeded = TRUE]
      /\ ops' = ops \ {o} \/ ops' = (ops \ {o}) \cup {[o EXCEPT !.at = "derive"]}
  BY DEF SetupSeed, sessionOnly, step
<1>2. stored \in Databases /\ native \in BOOLEAN /\ o \in Ops /\ o.current
      /\ (native => stored.auth) /\ unlocked \in BOOLEAN /\ proven \in BOOLEAN
  BY DEF IInv, StartInv, StartType, SchemaInv, SessionType, AuthInv
<1>3. /\ stored' \in Databases /\ stored'.shape = stored.shape /\ stored'.version = stored.version
      /\ stored'.damaged = stored.damaged /\ stored'.auth = stored.auth
      /\ stored'.seeded = TRUE /\ stored'.mirror = stored.mirror
  BY <1>1, <1>2 DEF Databases
<1>4. /\ stored'.seeded /\ (stored.auth => stored'.auth) /\ (native' => stored'.auth)
      /\ native' \in BOOLEAN /\ unlocked' \in BOOLEAN /\ proven' \in BOOLEAN
      /\ [o EXCEPT !.at = "derive"] \in Ops /\ [o EXCEPT !.at = "derive"].current
  BY <1>1, <1>2, <1>3 DEF Ops, Stages
<1>5. StartInv'
  BY <1>1, <1>3, <1>4, SessionKeepsStart DEF IInv
<1>6. SessionType' /\ GateInv'
  BY <1>1, <1>4 DEF IInv, SessionType, GateInv
<1>7. AuthInv'
  BY <1>1, <1>3, <1>4 DEF IInv, AuthInv
<1>8. MirrorInv'
  BY <1>1, <1>3 DEF IInv, MirrorInv
<1>9. CardInv'
  BY <1>1 DEF IInv, CardInv, CardIsAuthoritative
<1> QED
  BY <1>5, <1>6, <1>7, <1>8, <1>9 DEF IInv

LEMMA OpStepsKeep ==
  ASSUME IInv, NEW o \in ops,
         \/ Rejects(o) \/ SetupRead(o) \/ SetupSeed(o) \/ SetupDerive(o)
         \/ SetupInsert(o) \/ LoginVerified(o)
  PROVE  IInv'
<1>1. o \in Ops /\ o.current /\ o.at # "load"
  BY DEF IInv, SessionType, AuthInv, Rejects, SetupRead, SetupSeed, SetupDerive, SetupInsert, LoginVerified
<1>2. gate = "ready"
  BY <1>1 DEF IInv, GateInv, op
<1>3. \A stage \in Stages : /\ [o EXCEPT !.at = stage] \in Ops
                            /\ [o EXCEPT !.at = stage].current
                            /\ [o EXCEPT !.at = stage].at = stage
  BY <1>1 DEF Ops
<1>4. CASE Rejects(o)
  BY <1>2, <1>4, OperationsKeep DEF Rejects, IInv, SessionType, AuthInv
<1>5. CASE SetupRead(o)
  <2>1. ops' \subseteq Ops /\ \A q \in ops' : q.current /\ (q.at \in {"derive", "insert"} => stored.seeded)
    BY <1>3, <1>5 DEF SetupRead, step, IInv, SessionType, AuthInv, Stages
  <2> QED
    BY <1>2, <1>5, <2>1, OperationsKeep DEF SetupRead, IInv, AuthInv
<1>6. CASE SetupDerive(o)
  <2>1. ops' \subseteq Ops /\ \A q \in ops' : q.current /\ (q.at \in {"derive", "insert"} => stored.seeded)
    BY <1>3, <1>6 DEF SetupDerive, step, IInv, SessionType, AuthInv, Stages
  <2> QED
    BY <1>2, <1>6, <2>1, OperationsKeep DEF SetupDerive, IInv, AuthInv
<1>7. CASE SetupInsert(o) \/ LoginVerified(o)
  <2>1. /\ opens(o)
        /\ \/ stored.auth /\ UNCHANGED stored
           \/ o.at = "insert" /\ stored' = [stored EXCEPT !.auth = TRUE]
    BY <1>7 DEF SetupInsert, LoginVerified
  <2> QED
    BY <1>2, <2>1, OpensKeeps
<1> QED
  BY <1>2, <1>4, <1>5, <1>6, <1>7, SeedKeeps

LEMMA BeginsKeep ==
  ASSUME IInv, StatusLoaded \/ Setup \/ Login
  PROVE  IInv'
<1>1. gate = "ready"
  BY DEF StatusLoaded, Setup, Login, open
<1>2. \A stage \in {"read", "verify"} : /\ op(stage) \in Ops /\ op(stage).current
                                        /\ op(stage).at = stage
  BY DEF op, Ops, Stages
<1>3. CASE StatusLoaded
  <2>1. status' = "unlocked" => unlocked
    BY <1>3 DEF StatusLoaded, statusOf, IInv, AuthInv
  <2> QED
    BY <1>1, <1>3, <2>1, OperationsKeep DEF StatusLoaded, IInv, SessionType, AuthInv
<1>4. CASE Setup \/ Login
  <2>1. ops' \subseteq Ops /\ \A q \in ops' : q.current /\ (q.at \in {"derive", "insert"} => stored.seeded)
    BY <1>2, <1>4 DEF Setup, Login, begin, IInv, SessionType, AuthInv
  <2> QED
    BY <1>1, <1>4, <2>1, OperationsKeep DEF Setup, Login, IInv, AuthInv
<1> QED
  BY <1>3, <1>4

-----------------------------------------------------------------------------
\* A call joins the queue.
LEMMA Appended ==
  ASSUME NEW q \in Seq(Calls), NEW c \in Calls, ordered(q), c.for # "nobody",
         c.for \in CardCalls => \A i \in DOMAIN q : q[i].for \notin CardCalls
  PROVE  /\ Append(q, c) \in Seq(Calls) /\ ordered(Append(q, c))
         /\ \A k : suits(q, k) /\ fits(c, k) => suits(Append(q, c), k)
         /\ \A i \in DOMAIN Append(q, c) :
              Append(q, c)[i] = c \/ (i \in DOMAIN q /\ Append(q, c)[i] = q[i])
         /\ \A i \in DOMAIN q : i \in DOMAIN Append(q, c) /\ Append(q, c)[i] = q[i]
<1> DEFINE r == Append(q, c)
           n == Len(q) + 1
<1>1. /\ r \in Seq(Calls) /\ n \in DOMAIN r /\ r[n] = c
      /\ \A i \in DOMAIN q : i \in Nat /\ i < n /\ i \in DOMAIN r /\ r[i] = q[i]
      /\ \A i \in DOMAIN r : i \in Nat /\ (i \in DOMAIN q \/ i = n)
  BY AppendFacts
<1> HIDE DEF r, n
<1>2. ordered(r)
  BY <1>1 DEF ordered
<1>3. \A k : suits(q, k) /\ fits(c, k) => suits(r, k)
  BY <1>1 DEF suits
<1>4. /\ \A i \in DOMAIN r : r[i] = c \/ (i \in DOMAIN q /\ r[i] = q[i])
      /\ \A i \in DOMAIN q : i \in DOMAIN r /\ r[i] = q[i]
  BY <1>1
<1> QED
  BY <1>1, <1>2, <1>3, <1>4, Zenon DEF r

\* The running call is finished.
LEMMA Finished ==
  ASSUME NEW q \in Seq(Calls), 1 \in DOMAIN q, ordered(q)
  PROVE  /\ RemoveAt(q, 1) \in Seq(Calls) /\ ordered(RemoveAt(q, 1)) /\ q[1] \in Calls
         /\ \A k : (\A i \in DOMAIN q : i # 1 => fits(q[i], k)) => suits(RemoveAt(q, 1), k)
         /\ \A i \in DOMAIN RemoveAt(q, 1) :
              i \in Nat \ {0} /\ i + 1 \in DOMAIN q /\ i + 1 # 1 /\ RemoveAt(q, 1)[i] = q[i + 1]
         /\ q[1].for \in CardCalls =>
              \A i \in DOMAIN q : i # 1 => q[i].for \notin CardCalls \cup {"nobody"}
<1> DEFINE r == RemoveAt(q, 1)
<1>1. /\ r \in Seq(Calls) /\ \A i \in DOMAIN r : i \in Nat \ {0} /\ i + 1 \in DOMAIN q /\ r[i] = q[i + 1]
  BY WithoutFacts
<1> HIDE DEF r
<1>2. \A i \in DOMAIN r : i + 1 # 1
  BY <1>1
<1>3. ordered(r)
  <2>1. ASSUME NEW i \in DOMAIN r, NEW j \in DOMAIN r, r[i].for \in CardCalls
        PROVE  /\ r[j].for \in CardCalls => i + 1 = j + 1
               /\ r[j].for = "nobody" => j + 1 < i + 1
    BY <1>1, <2>1 DEF ordered
  <2>2. ASSUME NEW i \in DOMAIN r, NEW j \in DOMAIN r, r[i].for \in CardCalls
        PROVE  /\ r[j].for \in CardCalls => i = j
               /\ r[j].for = "nobody" => j < i
    <3>1. i \in Nat /\ j \in Nat
      BY <1>1
    <3> QED
      BY <2>1, <2>2, <3>1
  <2> QED
    BY <2>2 DEF ordered
<1>4. \A k : (\A i \in DOMAIN q : i # 1 => fits(q[i], k)) => suits(r, k)
  BY <1>1, <1>2 DEF suits
<1>5. q[1].for \in CardCalls =>
        \A i \in DOMAIN q : i # 1 => q[i].for \notin CardCalls \cup {"nobody"}
  BY DEF ordered
<1>6. q[1] \in Calls
  OBVIOUS
<1> QED
  BY <1>1, <1>2, <1>3, <1>4, <1>5, <1>6, Zenon DEF r

\* A call is made, in an open session whose start it leaves alone.
LEMMA AskKeeps ==
  ASSUME IInv, gate = "ready", unchangedStart, UNCHANGED <<status, missed>>,
         NEW c \in Calls, queue' = Append(queue, c), c.for # "nobody", c.want # "mirror",
         c.for \in CardCalls => \A i \in DOMAIN queue : queue[i].for \notin CardCalls,
         changes(c) => stored.auth,
         card' \in Cards, card'.mounted => stored.auth, suits(queue, card'), fits(c, card'),
         CardIsAuthoritative',
         ops' \subseteq Ops, \A o \in ops' : o.current /\ (o.at \in {"derive", "insert"} => stored.seeded)
  PROVE  IInv'
<1>0. queue \in Seq(Calls) /\ ordered(queue)
  BY DEF IInv, SessionType, CardInv
<1>1. /\ queue' \in Seq(Calls) /\ ordered(queue') /\ suits(queue', card')
      /\ \A i \in DOMAIN queue' : queue'[i] = c \/ (i \in DOMAIN queue /\ queue'[i] = queue[i])
      /\ \A i \in DOMAIN queue : i \in DOMAIN queue' /\ queue'[i] = queue[i]
  BY <1>0, Appended
<1>2. UNCHANGED <<stored, tx, native, boot, gate, unlocked, proven, faulty, tampered>>
  BY DEF unchangedStart, startVars
<1>3. StartInv'
  BY <1>2, SessionKeepsStart DEF IInv, StartInv, StartType, SchemaInv
<1>4. SessionType' /\ GateInv'
  BY <1>1, <1>2 DEF IInv, SessionType, GateInv
<1>5. AuthInv'
  BY <1>1, <1>2 DEF IInv, AuthInv, changes
<1>6. MirrorInv'
  BY <1>1, <1>2 DEF IInv, MirrorInv
<1>7. CardInv'
  BY <1>1 DEF CardInv, ordered, suits
<1> QED
  BY <1>3, <1>4, <1>5, <1>6, <1>7 DEF IInv

LEMMA LoginWithDeviceKeeps ==
  ASSUME IInv, LoginWithDevice
  PROVE  IInv'
<1> DEFINE c == ask("authenticate", "login")
<1>1. /\ gate = "ready" /\ unchangedStart /\ UNCHANGED <<status, missed, card>>
      /\ queue' = Append(queue, c) /\ ops' = ops \cup {op("authenticate")}
  BY DEF LoginWithDevice, open, begin
<1>2. c \in Calls /\ c.for = "login" /\ c.want = "authenticate"
  BY DEF ask, Calls, CardCalls
<1>3. op("authenticate") \in Ops /\ op("authenticate").current /\ op("authenticate").at = "authenticate"
  BY DEF op, Ops, Stages
<1> HIDE DEF c
<1>4. ~changes(c) /\ c.for \notin CardCalls
  BY <1>2 DEF changes, CardCalls
<1>5. suits(queue, card') /\ fits(c, card') /\ CardIsAuthoritative'
  <2>1. suits(queue, card) /\ CardIsAuthoritative /\ native' = native
    BY <1>1 DEF IInv, CardInv, unchangedStart, startVars
  <2> QED
    BY <1>1, <1>2, <1>4, <2>1 DEF fits, CardIsAuthoritative
<1>6. card' \in Cards /\ (card'.mounted => stored.auth)
  BY <1>1 DEF IInv, SessionType, AuthInv
<1>7. ops' \subseteq Ops /\ \A o \in ops' : o.current /\ (o.at \in {"derive", "insert"} => stored.seeded)
  BY <1>1, <1>3 DEF IInv, SessionType, AuthInv
<1> QED
  BY <1>1, <1>2, <1>4, <1>5, <1>6, <1>7, AskKeeps

LEMMA OpenSettingsKeeps ==
  ASSUME IInv, OpenSettings
  PROVE  IInv'
<1> DEFINE c == ask("status", "load")
<1>1. /\ gate = "ready" /\ unchangedStart /\ UNCHANGED <<status, missed, ops>>
      /\ queue' = Append(queue, c) /\ card' = [NoCard EXCEPT !.mounted = TRUE]
      /\ status = "unlocked" /\ ~card.mounted
  BY DEF OpenSettings, open
<1>2. c \in Calls /\ c.for = "load" /\ c.want = "status"
  BY DEF ask, Calls, CardCalls
<1>3. /\ card' \in Cards /\ card'.mounted /\ card'.shows = "none" /\ ~card'.error
  BY <1>1 DEF NoCard, Cards
<1> HIDE DEF c
<1>4. \A i \in DOMAIN queue : queue[i].for \notin CardCalls
  BY <1>1 DEF IInv, CardInv, suits, fits
<1>5. suits(queue, card')
  BY <1>3, <1>4 DEF IInv, CardInv, suits, fits, CardCalls
<1>6. fits(c, card') /\ ~changes(c)
  BY <1>2, <1>3 DEF fits, changes
<1>7. stored.auth /\ CardIsAuthoritative'
  BY <1>1, <1>3 DEF IInv, AuthInv, CardIsAuthoritative
<1>8. ops' \subseteq Ops /\ \A o \in ops' : o.current /\ (o.at \in {"derive", "insert"} => stored.seeded)
  BY <1>1 DEF IInv, SessionType, AuthInv
<1> QED
  BY <1>1, <1>2, <1>3, <1>4, <1>5, <1>6, <1>7, <1>8, AskKeeps

\* The card asks for a change or for the status.
LEMMA CardAsksKeep ==
  ASSUME IInv, Reload \/ \E value \in BOOLEAN : ChangeProtection(value)
  PROVE  IInv'
<1>1. PICK c \in Calls :
        /\ unchangedStart /\ UNCHANGED <<status, missed, ops>>
        /\ card.mounted /\ ~card.busy /\ (card.error \/ card.shows # "none")
        /\ queue' = Append(queue, c) /\ card' = [card EXCEPT !.busy = TRUE, !.error = FALSE]
        /\ \/ c.for = "reload" /\ c.want = "status"
           \/ c.for = "change" /\ c.want = "set" /\ c.value # (card.shows = "on") /\ card.shows # "none"
  <2>1. CASE Reload
    <3>1. ask("status", "reload") \in Calls /\ ask("status", "reload").for = "reload"
          /\ ask("status", "reload").want = "status"
      BY DEF ask, Calls, CardCalls
    <3> QED
      BY <2>1, <3>1 DEF Reload
  <2>2. ASSUME NEW value \in BOOLEAN, ChangeProtection(value)
        PROVE  \E c \in Calls :
                 /\ unchangedStart /\ UNCHANGED <<status, missed, ops>>
                 /\ card.mounted /\ ~card.busy /\ (card.error \/ card.shows # "none")
                 /\ queue' = Append(queue, c) /\ card' = [card EXCEPT !.busy = TRUE, !.error = FALSE]
                 /\ \/ c.for = "reload" /\ c.want = "status"
                    \/ c.for = "change" /\ c.want = "set" /\ c.value # (card.shows = "on") /\ card.shows # "none"
    <3> DEFINE c == [want |-> "set", value |-> value, for |-> "change"]
    <3>1. c \in Calls /\ c.for = "change" /\ c.want = "set" /\ c.value = value
      BY DEF Calls, CardCalls
    <3>2. /\ unchangedStart /\ UNCHANGED <<status, missed, ops>>
          /\ card.mounted /\ ~card.busy /\ card.shows # "none" /\ value # (card.shows = "on")
          /\ queue' = Append(queue, c) /\ card' = [card EXCEPT !.busy = TRUE, !.error = FALSE]
      BY <2>2 DEF ChangeProtection
    <3> HIDE DEF c
    <3> QED
      BY <3>1, <3>2
  <2> QED
    BY <2>1, <2>2
<1>2. card \in Cards /\ NoCard.mounted = FALSE
  BY DEF IInv, SessionType, NoCard
<1>3. gate = "ready"
  BY <1>1, <1>2 DEF IInv, GateInv
<1>4. /\ card' \in Cards /\ card'.mounted /\ card'.busy /\ ~card'.error /\ card'.shows = card.shows
  BY <1>1, <1>2 DEF Cards
<1>5. \A i \in DOMAIN queue : queue[i].for \notin CardCalls
  BY <1>1 DEF IInv, CardInv, suits, fits
<1>6. suits(queue, card')
  BY <1>4, <1>5 DEF IInv, CardInv, suits, fits, CardCalls
<1>7. fits(c, card')
  BY <1>1, <1>4 DEF fits, changes
<1>8. stored.auth /\ CardIsAuthoritative'
  BY <1>1, <1>4 DEF IInv, AuthInv, CardIsAuthoritative
<1>9. ops' \subseteq Ops /\ \A o \in ops' : o.current /\ (o.at \in {"derive", "insert"} => stored.seeded)
  BY <1>1 DEF IInv, SessionType, AuthInv
<1> QED
  BY <1>1, <1>3, <1>4, <1>5, <1>6, <1>7, <1>8, <1>9, AskKeeps

\* The card goes, and the calls it made stay behind it.
LEMMA LeavesKeep ==
  ASSUME IInv, LeaveSettings \/ Logout
  PROVE  IInv'
<1>1. /\ UNCHANGED <<stored, tx, native, boot, gate, faulty, tampered, missed>>
      /\ card.mounted /\ card' = NoCard /\ queue' = orphaned
      /\ \/ UNCHANGED <<status, ops, unlocked, proven>>
         \/ unlocked' = FALSE /\ proven' = FALSE /\ status' = "locked"
            /\ ops = {} /\ ops' = {[o EXCEPT !.current = FALSE] : o \in ops}
  BY DEF LeaveSettings, Logout, unchangedStart, startVars, sessionOnly, busy
<1>2. /\ UNCHANGED <<status, ops>> \/ (status' = "locked" /\ ops' = {})
  BY <1>1
<1>3. card \in Cards /\ NoCard \in Cards /\ NoCard.mounted = FALSE /\ NoCard.shows = "none"
      /\ queue \in Seq(Calls)
  BY DEF IInv, SessionType, NoCard, Cards
<1>4. gate = "ready"
  BY <1>1, <1>3 DEF IInv, GateInv
<1>5. /\ queue' \in Seq(Calls) /\ DOMAIN queue' = DOMAIN queue
      /\ \A i \in DOMAIN queue' :
           /\ queue'[i].want = queue[i].want /\ queue'[i].value = queue[i].value
           /\ queue'[i].for = IF queue[i].for \in CardCalls THEN "nobody" ELSE queue[i].for
  <2>1. \A i \in DOMAIN queue : queue[i] \in Calls
    BY <1>3
  <2>2. \A c \in Calls : /\ [c EXCEPT !.for = "nobody"] \in Calls
                         /\ [c EXCEPT !.for = "nobody"].want = c.want
                         /\ [c EXCEPT !.for = "nobody"].value = c.value
                         /\ [c EXCEPT !.for = "nobody"].for = "nobody"
    BY DEF Calls
  <2>3. /\ DOMAIN queue' = DOMAIN queue
        /\ \A i \in DOMAIN queue :
             queue'[i] = IF queue[i].for \in CardCalls THEN [queue[i] EXCEPT !.for = "nobody"] ELSE queue[i]
    BY <1>1 DEF orphaned
  <2>4. \A i \in DOMAIN queue : queue'[i] \in Calls
    BY <2>1, <2>2, <2>3
  <2>5. queue' \in Seq(Calls)
    <3>1. Len(queue) \in Nat /\ DOMAIN queue = 1..Len(queue)
      BY <1>3
    <3>2. queue' = [i \in 1..Len(queue) |-> queue'[i]]
      BY <1>1, <2>3, <3>1 DEF orphaned
    <3>3. \A i \in 1..Len(queue) : queue'[i] \in Calls
      BY <2>4, <3>1
    <3> QED
      BY <3>1, <3>2, <3>3
  <2> QED
    BY <2>1, <2>2, <2>3, <2>5
<1>6. StartInv'
  BY <1>1, SessionKeepsStart DEF IInv, StartInv, StartType, SchemaInv
<1>7. SessionType' /\ GateInv'
  BY <1>1, <1>2, <1>3, <1>4, <1>5 DEF IInv, SessionType, GateInv
<1>8. AuthInv'
  BY <1>1, <1>2, <1>3, <1>5 DEF IInv, AuthInv
<1>9. MirrorInv'
  BY <1>1, <1>5 DEF IInv, MirrorInv
<1>10. CardInv'
  <2>1. \A i \in DOMAIN queue' : queue'[i].for \notin CardCalls /\ queue'[i].for # "change"
    BY <1>5 DEF CardCalls
  <2>2. suits(queue', NoCard)
    BY <1>3, <1>5, <2>1 DEF IInv, CardInv, suits, fits, changes, CardCalls
  <2>3. CardIsAuthoritative'
    BY <1>1, <1>3 DEF CardIsAuthoritative
  <2> QED
    BY <1>1, <2>1, <2>2, <2>3 DEF CardInv, ordered, suits
<1> QED
  BY <1>6, <1>7, <1>8, <1>9, <1>10 DEF IInv

-----------------------------------------------------------------------------
\* Behind a call of the card there are only calls of the lock screen, and behind the
\* running call there is none to the mirror.
LEMMA BehindRunning ==
  ASSUME IInv, 1 \in DOMAIN queue
  PROVE  /\ gate = "ready" /\ queue[1] \in Calls /\ fits(queue[1], card)
         /\ changes(queue[1]) => stored.auth
         /\ queue[1].for \in CardCalls => \A k : \A i \in DOMAIN queue : i # 1 => fits(queue[i], k)
         /\ \A i \in DOMAIN queue : i # 1 => fits(queue[i], card)
         /\ queue[1].want # "mirror" => stored.mirror = native \/ missed
<1>1. queue \in Seq(Calls) /\ ordered(queue) /\ suits(queue, card) /\ MirrorInv /\ AuthInv /\ GateInv
  BY DEF IInv, SessionType, CardInv
<1>2. queue # <<>>
  OBVIOUS
<1>3. gate = "ready" /\ queue[1] \in Calls
  BY <1>1, <1>2 DEF GateInv
<1>4. \A i \in DOMAIN queue : fits(queue[i], card)
  BY <1>1 DEF suits
<1>5. ASSUME queue[1].for \in CardCalls, NEW k, NEW i \in DOMAIN queue, i # 1
      PROVE  fits(queue[i], k)
  <2>1. queue[i].for \notin CardCalls /\ queue[i].for # "nobody"
    BY <1>1, <1>5 DEF ordered
  <2>2. ~changes(queue[i])
    BY <1>4, <2>1 DEF fits, CardCalls
  <2> QED
    BY <2>1, <2>2 DEF fits, CardCalls
<1>6. queue[1].want # "mirror" => stored.mirror = native \/ missed
  BY <1>1, <1>3 DEF MirrorInv
<1>7. changes(queue[1]) => stored.auth
  BY <1>1 DEF AuthInv, changes
<1> QED
  BY <1>3, <1>4, <1>5, <1>6, <1>7

\* The running call is finished, and the card may ask once more.
LEMMA ServedKeeps ==
  ASSUME IInv, 1 \in DOMAIN queue, StartInv',
         UNCHANGED <<boot, gate, status, unlocked, proven>>,
         \/ queue' = RemoveAt(queue, 1)
         \/ /\ queue[1].for \in CardCalls
            /\ \E what \in {"recheck", "confirm"} :
                 /\ queue' = Append(RemoveAt(queue, 1), ask("status", what))
                 /\ card'.mounted /\ card'.busy /\ (what = "recheck" => card'.error),
         card' \in Cards, card'.mounted => card.mounted, missed' \in BOOLEAN,
         \A i \in DOMAIN queue : i # 1 => fits(queue[i], card'),
         CardIsAuthoritative', stored'.mirror = native' \/ missed',
         stored.auth => stored'.auth, stored.seeded => stored'.seeded,
         ops' \subseteq Ops, \A o \in ops' : o.current /\ (o.at \in {"derive", "insert"} => stored.seeded)
  PROVE  IInv'
<1> DEFINE q1 == RemoveAt(queue, 1)
<1>0. queue \in Seq(Calls) /\ ordered(queue)
  BY DEF IInv, SessionType, CardInv
<1>1. /\ q1 \in Seq(Calls) /\ ordered(q1) /\ suits(q1, card')
      /\ \A i \in DOMAIN q1 : i + 1 \in DOMAIN queue /\ i + 1 # 1 /\ q1[i] = queue[i + 1]
      /\ queue[1].for \in CardCalls =>
           \A i \in DOMAIN queue : i # 1 => queue[i].for \notin CardCalls \cup {"nobody"}
  BY <1>0, Finished
<1>2. gate = "ready"
  BY BehindRunning
<1> HIDE DEF q1
<1>3. \A i \in DOMAIN q1 : q1[i].want # "mirror" /\ (changes(q1[i]) => stored.auth)
  BY <1>1 DEF IInv, MirrorInv, AuthInv, changes
<1>4. /\ queue' \in Seq(Calls) /\ ordered(queue') /\ suits(queue', card')
      /\ \A i \in DOMAIN queue' : queue'[i].want # "mirror" /\ (changes(queue'[i]) => stored.auth)
  <2>1. CASE queue' = q1
    BY <1>1, <1>3, <2>1 DEF ordered, suits
  <2>2. ASSUME queue[1].for \in CardCalls, NEW what \in {"recheck", "confirm"},
               queue' = Append(q1, ask("status", what)),
               card'.mounted, card'.busy, what = "recheck" => card'.error
        PROVE  /\ queue' \in Seq(Calls) /\ ordered(queue') /\ suits(queue', card')
               /\ \A i \in DOMAIN queue' : queue'[i].want # "mirror" /\ (changes(queue'[i]) => stored.auth)
    <3> DEFINE c == ask("status", what)
    <3>1. c \in Calls /\ c.for = what /\ c.want = "status"
      BY DEF ask, Calls, CardCalls
    <3> HIDE DEF c
    <3>2. ~changes(c) /\ fits(c, card') /\ c.for # "nobody"
      BY <2>2, <3>1 DEF changes, fits
    <3>3. \A i \in DOMAIN q1 : q1[i].for \notin CardCalls
      BY <1>1, <2>2
    <3>4. /\ Append(q1, c) \in Seq(Calls) /\ ordered(Append(q1, c)) /\ suits(Append(q1, c), card')
          /\ \A i \in DOMAIN Append(q1, c) :
               Append(q1, c)[i] = c \/ (i \in DOMAIN q1 /\ Append(q1, c)[i] = q1[i])
      BY <1>1, <3>1, <3>2, <3>3, Appended
    <3>5. queue' = Append(q1, c)
      BY <2>2 DEF c
    <3>6. \A i \in DOMAIN queue' : queue'[i].want # "mirror" /\ (changes(queue'[i]) => stored.auth)
      BY <1>3, <3>1, <3>2, <3>4, <3>5
    <3> QED
      BY <3>4, <3>5, <3>6 DEF ordered, suits
  <2> QED
    BY <2>1, <2>2 DEF q1
<1>5. SessionType' /\ GateInv'
  BY <1>2, <1>4 DEF SessionType, GateInv
<1>6. AuthInv'
  <2>1. \A i \in DOMAIN queue' : queue'[i].want \in {"set", "mirror"} => stored'.auth
    BY <1>4 DEF changes
  <2> QED
    BY <2>1 DEF IInv, AuthInv
<1>7. MirrorInv'
  BY <1>4 DEF MirrorInv
<1>8. CardInv'
  BY <1>4 DEF CardInv, ordered, suits
<1> QED
  BY <1>5, <1>6, <1>7, <1>8 DEF IInv

\* A status, or a device prompt, or a change the user cancelled.
LEMMA AnswersKeep ==
  ASSUME IInv, 1 \in DOMAIN queue,
         ServeStatus(1) \/ StatusFails(1) \/ ServeAuthenticate(1) \/ NativeCancelled(1)
  PROVE  IInv'
<1> DEFINE c == queue[1]
<1>0. c \in Calls /\ card \in Cards /\ native \in BOOLEAN /\ missed \in BOOLEAN
  BY BehindRunning DEF IInv, SessionType, StartInv, StartType
<1> HIDE DEF c
<1>1. /\ gate = "ready" /\ fits(c, card)
      /\ c.for \in CardCalls => \A k : \A i \in DOMAIN queue : i # 1 => fits(queue[i], k)
      /\ \A i \in DOMAIN queue : i # 1 => fits(queue[i], card)
      /\ c.want # "mirror" => stored.mirror = native \/ missed
  BY BehindRunning DEF c
<1>2. CardIsAuthoritative /\ (card.mounted => stored.auth)
  BY DEF IInv, CardInv, AuthInv
<1>3. /\ unchangedStart /\ UNCHANGED <<status, missed>> /\ c.want # "mirror"
      /\ ops' = ops \/ ServeAuthenticate(1)
  BY DEF ServeStatus, StatusFails, ServeAuthenticate, NativeCancelled, c
<1>4. UNCHANGED <<stored, tx, native, boot, gate, unlocked, proven, faulty, tampered>>
  BY <1>3 DEF unchangedStart, startVars
<1>5. StartInv'
  BY <1>4, SessionKeepsStart DEF IInv, StartInv, StartType, SchemaInv
<1>6. ops' \subseteq Ops /\ \A o \in ops' : o.current /\ (o.at \in {"derive", "insert"} => stored.seeded)
  <2>1. ops \subseteq Ops /\ \A o \in ops : o.current /\ (o.at \in {"derive", "insert"} => stored.seeded)
    BY DEF IInv, SessionType, AuthInv
  <2>2. \A o \in Ops : /\ [o EXCEPT !.at = "unlock"] \in Ops
                       /\ [o EXCEPT !.at = "unlock"].current = o.current
                       /\ [o EXCEPT !.at = "unlock"].at = "unlock"
    BY DEF Ops, Stages
  <2>3. CASE ServeAuthenticate(1)
    <3>1. PICK o \in ops : step(o, "unlock") \/ ops' = ops \ {o}
      BY <2>3 DEF ServeAuthenticate
    <3>2. ops' \subseteq ops \cup {[o EXCEPT !.at = "unlock"]}
      BY <3>1 DEF step
    <3> QED
      BY <2>1, <2>2, <3>2
  <2> QED
    BY <1>3, <2>1, <2>3
<1>7. /\ stored'.mirror = native' \/ missed'
      /\ missed' \in BOOLEAN /\ stored'.auth = stored.auth /\ stored'.seeded = stored.seeded
  BY <1>0, <1>1, <1>3, <1>4
<1>8. \/ queue' = RemoveAt(queue, 1)
      \/ /\ c.for \in CardCalls
         /\ \E what \in {"recheck", "confirm"} :
              /\ queue' = Append(RemoveAt(queue, 1), ask("status", what))
              /\ card'.mounted /\ card'.busy /\ (what = "recheck" => card'.error)
  <2>1. CASE StatusFails(1) /\ c.for = "confirm"
    <3>1. /\ queue' = Append(RemoveAt(queue, 1), ask("status", "recheck"))
          /\ card' = [card EXCEPT !.error = TRUE]
      BY <2>1 DEF StatusFails, without, c
    <3>2. card.mounted /\ card.busy /\ c.for \in CardCalls
      BY <1>1, <2>1 DEF fits, CardCalls
    <3>3. card'.mounted /\ card'.busy /\ card'.error
      BY <1>0, <3>1, <3>2 DEF Cards
    <3> QED
      BY <3>1, <3>2, <3>3
  <2> QED
    BY <2>1 DEF ServeStatus, StatusFails, ServeAuthenticate, NativeCancelled, without, c
<1>9. /\ card' \in Cards /\ card'.mounted = card.mounted /\ CardIsAuthoritative'
      /\ \A i \in DOMAIN queue : i # 1 => fits(queue[i], card')
  <2>1. CASE card' = card
    <3>1. \A i \in DOMAIN queue : i # 1 => fits(queue[i], card')
      BY <1>1, <2>1
    <3>2. CardIsAuthoritative'
      BY <1>2, <1>4, <2>1 DEF CardIsAuthoritative
    <3> QED
      BY <1>0, <2>1, <3>1, <3>2
  <2>2. ASSUME c.for \in CardCalls, card' \in Cards, card'.mounted = card.mounted,
               \/ card'.error
               \/ card'.shows = IF native THEN "on" ELSE "off"
        PROVE  /\ card' \in Cards /\ card'.mounted = card.mounted /\ CardIsAuthoritative'
               /\ \A i \in DOMAIN queue : i # 1 => fits(queue[i], card')
    <3>1. \A i \in DOMAIN queue : i # 1 => fits(queue[i], card')
      BY <1>1, <2>2
    <3>2. CardIsAuthoritative'
      BY <1>0, <1>4, <2>2 DEF CardIsAuthoritative
    <3> QED
      BY <2>2, <3>1, <3>2
  <2>3. CASE ServeStatus(1) /\ c.for \in CardCalls
    <3>1. PICK able \in BOOLEAN : card' = shown(able)
      BY <2>3 DEF ServeStatus, c
    <3>2. /\ card' \in Cards /\ card'.mounted = card.mounted
          /\ card'.shows = IF native THEN "on" ELSE "off"
      BY <1>0, <3>1 DEF shown, Cards
    <3> QED
      BY <2>2, <2>3, <3>2
  <2>4. CASE StatusFails(1) /\ c.for \in {"confirm", "load", "reload", "recheck"}
    <3>1. card' \in {[card EXCEPT !.error = TRUE], [card EXCEPT !.error = TRUE, !.busy = FALSE]}
          \/ (c.for = "recheck" /\ card' = [card EXCEPT !.busy = FALSE])
      BY <2>4 DEF StatusFails, c
    <3>2. c.for = "recheck" => card.error
      BY <1>1 DEF fits
    <3>3. card' \in Cards /\ card'.mounted = card.mounted /\ card'.error
      BY <1>0, <3>1, <3>2 DEF Cards
    <3> QED
      BY <2>2, <2>4, <3>3 DEF CardCalls
  <2>5. CASE NativeCancelled(1) /\ c.for = "change"
    <3>1. card' = [card EXCEPT !.busy = FALSE] /\ native # c.value /\ c.want = "set"
      BY <2>5 DEF NativeCancelled, c
    <3>2. c.value # (card.shows = "on") /\ card.shows # "none" /\ c.value \in BOOLEAN
      BY <1>0, <1>1, <2>5, <3>1 DEF fits, Calls
    <3>3. card.shows = IF native THEN "on" ELSE "off"
      BY <1>0, <3>1, <3>2 DEF Cards
    <3>4. card' \in Cards /\ card'.mounted = card.mounted /\ card'.shows = card.shows
      BY <1>0, <3>1 DEF Cards
    <3> QED
      BY <2>2, <2>5, <3>3, <3>4 DEF CardCalls
  <2>6. CASE StatusFails(1) /\ c.for \notin {"confirm", "load", "reload", "recheck"}
    BY <2>1, <2>6 DEF StatusFails, c
  <2>7. CASE ServeAuthenticate(1) \/ (ServeStatus(1) /\ c.for \notin CardCalls)
             \/ (NativeCancelled(1) /\ c.for # "change")
    BY <2>1, <2>7 DEF ServeAuthenticate, ServeStatus, NativeCancelled, c
  <2> QED
    BY <2>3, <2>4, <2>5, <2>6, <2>7
<1> QED
  BY <1>1, <1>3, <1>4, <1>5, <1>6, <1>7, <1>8, <1>9, ServedKeeps DEF c

\* A change that failed: the card says so and reads the status once more.
LEMMA ChangeFailedCard ==
  ASSUME IInv, 1 \in DOMAIN queue, changes(queue[1]), changeFailed(1), native' \in BOOLEAN
  PROVE  /\ \/ queue' = RemoveAt(queue, 1)
            \/ /\ queue[1].for \in CardCalls
               /\ \E what \in {"recheck", "confirm"} :
                    /\ queue' = Append(RemoveAt(queue, 1), ask("status", what))
                    /\ card'.mounted /\ card'.busy /\ (what = "recheck" => card'.error)
         /\ card' \in Cards /\ card'.mounted = card.mounted /\ CardIsAuthoritative'
         /\ \A i \in DOMAIN queue : i # 1 => fits(queue[i], card')
<1>0. card \in Cards
  BY DEF IInv, SessionType
<1>1. /\ fits(queue[1], card)
      /\ queue[1].for \in CardCalls => \A k : \A i \in DOMAIN queue : i # 1 => fits(queue[i], k)
      /\ \A i \in DOMAIN queue : i # 1 => fits(queue[i], card)
  BY BehindRunning
<1>2. CASE queue[1].for = "change"
  <2>1. /\ queue' = Append(RemoveAt(queue, 1), ask("status", "recheck"))
        /\ card' = [card EXCEPT !.error = TRUE]
    BY <1>2 DEF changeFailed, without
  <2>2. card.mounted /\ card.busy /\ queue[1].for \in CardCalls
    BY <1>1, <1>2 DEF fits, CardCalls
  <2>3. card' \in Cards /\ card'.mounted = card.mounted /\ card'.mounted /\ card'.busy /\ card'.error
    BY <1>0, <2>1, <2>2 DEF Cards
  <2>4. CardIsAuthoritative'
    BY <2>3 DEF CardIsAuthoritative
  <2>5. \A i \in DOMAIN queue : i # 1 => fits(queue[i], card')
    BY <1>1, <2>2
  <2> QED
    BY <2>1, <2>2, <2>3, <2>4, <2>5
<1>3. CASE queue[1].for # "change"
  <2>1. queue' = RemoveAt(queue, 1) /\ card' = card
    BY <1>3 DEF changeFailed, without
  <2>2. card.shows = "none"
    BY <1>1, <1>3 DEF fits
  <2>3. CardIsAuthoritative'
    BY <2>1, <2>2 DEF CardIsAuthoritative
  <2>4. \A i \in DOMAIN queue : i # 1 => fits(queue[i], card')
    BY <1>1, <2>1
  <2> QED
    BY <1>0, <2>1, <2>3, <2>4
<1> QED
  BY <1>2, <1>3

\* setKeyProtection() fails, or the write of the mirror does.
LEMMA FailuresKeep ==
  ASSUME IInv, 1 \in DOMAIN queue, NativeFails(1) \/ MirrorFails(1)
  PROVE  IInv'
<1>0. /\ queue[1] \in Calls /\ native \in BOOLEAN /\ missed \in BOOLEAN
      /\ unlocked \in BOOLEAN /\ proven \in BOOLEAN /\ stored \in Databases
  BY BehindRunning DEF IInv, SessionType, StartInv, StartType
<1>1. /\ changeFailed(1) /\ changes(queue[1])
      /\ UNCHANGED <<stored, tx, boot, gate, unlocked, proven, faulty, tampered, status, ops>>
      /\ \/ native' = native /\ missed' = TRUE
         \/ /\ native' \in {native, queue[1].value} /\ missed' = (missed \/ native' # native)
            /\ queue[1].want = "set"
  BY DEF NativeFails, MirrorFails, unchangedStart, startVars, changes
<1>2. native' \in BOOLEAN
  BY <1>0, <1>1 DEF Calls
<1>3. missed' \in BOOLEAN /\ (stored'.mirror = native' \/ missed')
  <2>1. CASE native' = native /\ missed' = TRUE
    BY <2>1
  <2>2. CASE /\ native' \in {native, queue[1].value} /\ missed' = (missed \/ native' # native)
             /\ queue[1].want = "set"
    <3>1. stored.mirror = native \/ missed
      BY <2>2, BehindRunning
    <3>2. missed' \in BOOLEAN
      BY <1>0, <2>2
    <3> QED
      BY <1>0, <1>1, <2>2, <3>1, <3>2
  <2> QED
    BY <1>1, <2>1, <2>2
<1>4. stored.auth
  BY <1>1, BehindRunning
<1>5. StartInv'
  BY <1>0, <1>1, <1>2, <1>4, SessionKeepsStart DEF IInv
<1>6. ops' \subseteq Ops /\ \A o \in ops' : o.current /\ (o.at \in {"derive", "insert"} => stored.seeded)
  BY <1>1 DEF IInv, SessionType, AuthInv
<1>7. /\ \/ queue' = RemoveAt(queue, 1)
         \/ /\ queue[1].for \in CardCalls
            /\ \E what \in {"recheck", "confirm"} :
                 /\ queue' = Append(RemoveAt(queue, 1), ask("status", what))
                 /\ card'.mounted /\ card'.busy /\ (what = "recheck" => card'.error)
      /\ card' \in Cards /\ card'.mounted = card.mounted /\ CardIsAuthoritative'
      /\ \A i \in DOMAIN queue : i # 1 => fits(queue[i], card')
  BY <1>1, <1>2, ChangeFailedCard
<1> QED
  BY <1>1, <1>3, <1>5, <1>6, <1>7, ServedKeeps

\* mirror() writes what the native side has.
LEMMA MirrorKeeps ==
  ASSUME IInv, 1 \in DOMAIN queue, Mirror(1)
  PROVE  IInv'
<1> DEFINE c == queue[1]
<1>0. /\ c \in Calls /\ native \in BOOLEAN /\ card \in Cards /\ stored \in Databases
      /\ unlocked \in BOOLEAN /\ proven \in BOOLEAN
  BY BehindRunning DEF IInv, SessionType, StartInv, StartType
<1>1. /\ c.want = "mirror" /\ stored' = [stored EXCEPT !.mirror = c.value] /\ missed' = FALSE
      /\ queue' = IF c.for = "change" THEN Append(RemoveAt(queue, 1), ask("status", "confirm"))
                  ELSE RemoveAt(queue, 1)
      /\ UNCHANGED <<tx, native, boot, gate, faulty, tampered, unlocked, proven, status, ops, card>>
  BY DEF Mirror, sessionOnly, without
<1>2. /\ fits(c, card) /\ \A i \in DOMAIN queue : i # 1 => fits(queue[i], card)
      /\ changes(c) => stored.auth
  BY BehindRunning
<1>3. c.value = native /\ stored.auth
  BY <1>1, <1>2 DEF IInv, MirrorInv, changes
<1> HIDE DEF c
<1>4. /\ stored' \in Databases /\ stored'.shape = stored.shape /\ stored'.version = stored.version
      /\ stored'.damaged = stored.damaged /\ stored'.auth = stored.auth
      /\ stored'.seeded = stored.seeded /\ stored'.mirror = native
  BY <1>0, <1>1, <1>3 DEF Databases
<1>5. StartInv'
  BY <1>0, <1>1, <1>3, <1>4, SessionKeepsStart DEF IInv
<1>6. ops' \subseteq Ops /\ \A o \in ops' : o.current /\ (o.at \in {"derive", "insert"} => stored.seeded)
  BY <1>1 DEF IInv, SessionType, AuthInv
<1>7. CardIsAuthoritative' /\ \A i \in DOMAIN queue : i # 1 => fits(queue[i], card')
  <2>1. CardIsAuthoritative
    BY DEF IInv, CardInv
  <2>2. CardIsAuthoritative'
    BY <1>1, <2>1 DEF CardIsAuthoritative
  <2> QED
    BY <1>1, <1>2, <2>2
<1>8. c.for = "change" => c.for \in CardCalls /\ card'.mounted /\ card'.busy
  BY <1>1, <1>2 DEF fits, CardCalls
<1>9. \/ queue' = RemoveAt(queue, 1)
      \/ /\ c.for \in CardCalls
         /\ \E what \in {"recheck", "confirm"} :
              /\ queue' = Append(RemoveAt(queue, 1), ask("status", what))
              /\ card'.mounted /\ card'.busy /\ (what = "recheck" => card'.error)
  BY <1>1, <1>8
<1>10. /\ missed' \in BOOLEAN /\ (stored'.mirror = native' \/ missed')
       /\ card' \in Cards /\ card'.mounted = card.mounted
  BY <1>0, <1>1, <1>4
<1> QED
  BY <1>1, <1>4, <1>5, <1>6, <1>7, <1>9, <1>10, ServedKeeps DEF c

\* The native side has changed; the call goes on to the mirror.
LEMMA NativeChangedKeeps ==
  ASSUME IInv, 1 \in DOMAIN queue, NativeChanged(1)
  PROVE  IInv'
<1> DEFINE c == queue[1]
           new == [c EXCEPT !.want = "mirror"]
<1>0. /\ c \in Calls /\ queue \in Seq(Calls) /\ unlocked \in BOOLEAN /\ proven \in BOOLEAN
      /\ stored \in Databases
  BY BehindRunning DEF IInv, SessionType, StartInv, StartType
<1>1. /\ c.want = "set" /\ native' = c.value /\ queue' = [queue EXCEPT ![1] = new]
      /\ UNCHANGED <<stored, tx, boot, gate, unlocked, proven, faulty, tampered,
                     status, ops, card, missed>>
  BY DEF NativeChanged
<1>2. fits(c, card) /\ gate = "ready" /\ (changes(c) => stored.auth)
  BY BehindRunning
<1>3. /\ new \in Calls /\ new.want = "mirror" /\ new.value = c.value /\ new.for = c.for
      /\ c.value \in BOOLEAN
  BY <1>0 DEF Calls
<1> HIDE DEF c, new
<1>4. /\ queue' \in Seq(Calls) /\ DOMAIN queue' = DOMAIN queue /\ queue'[1] = new
      /\ \A i \in DOMAIN queue' : i # 1 => queue'[i] = queue[i]
      /\ \A i \in DOMAIN queue' : queue'[i].for = queue[i].for
  BY <1>0, <1>1, <1>3 DEF c
<1>5. stored.auth /\ c.for \in {"change", "nobody"}
  BY <1>1, <1>2 DEF changes, fits
<1>6. StartInv'
  BY <1>0, <1>1, <1>3, <1>5, SessionKeepsStart DEF IInv
<1>7. SessionType' /\ GateInv'
  BY <1>1, <1>2, <1>4 DEF IInv, SessionType, GateInv
<1>8. AuthInv'
  BY <1>1, <1>5 DEF IInv, AuthInv
<1>9. MirrorInv'
  <2>1. \A i \in DOMAIN queue' : queue'[i].want = "mirror" => i = 1
    BY <1>4 DEF IInv, MirrorInv
  <2>2. queue'[1].want = "mirror" /\ queue'[1].value = native'
    BY <1>1, <1>3, <1>4
  <2> QED
    BY <1>4, <2>1, <2>2 DEF MirrorInv
<1>10. CardInv'
  <2>1. ordered(queue')
    BY <1>4 DEF IInv, CardInv, ordered
  <2>2. fits(new, card)
    BY <1>2, <1>3, <1>5 DEF fits, changes
  <2>3. suits(queue', card)
    BY <1>4, <2>2 DEF IInv, CardInv, suits
  <2>4. card.busy \/ card.shows = "none"
    BY <1>2, <1>5 DEF fits, CardCalls
  <2>5. CardIsAuthoritative'
    BY <1>1, <2>4 DEF CardIsAuthoritative
  <2> QED
    BY <1>1, <2>1, <2>3, <2>5 DEF CardInv, ordered, suits
<1> QED
  BY <1>6, <1>7, <1>8, <1>9, <1>10 DEF IInv

LEMMA ServeKeeps ==
  ASSUME IInv, Serve
  PROVE  IInv'
<1>1. /\ 1 \in DOMAIN queue
      /\ \/ ServeStatus(1) \/ StatusFails(1) \/ ServeAuthenticate(1)
         \/ NativeChanged(1) \/ NativeCancelled(1) \/ NativeFails(1)
         \/ Mirror(1) \/ MirrorFails(1)
  BY DEF Serve, running
<1> QED
  BY <1>1, AnswersKeep, NativeChangedKeeps, FailuresKeep, MirrorKeeps

-----------------------------------------------------------------------------
\* Before the gate opens there is no session; a kill ends one.
LEMMA NoSession ==
  ASSUME StartInv, card = NoCard, queue = <<>>, missed = FALSE, status = "none", ops = {op("load")},
         unlocked => proven /\ stored.auth,
         boot.at \in {"unlock", "done"} => stored.mirror = native, gate # "ready" \/ boot.at = "done"
  PROVE  IInv
<1>1. NoCard \in Cards /\ NoCard.mounted = FALSE
  BY DEF NoCard, Cards
<1>2. op("load") \in Ops /\ op("load").current /\ op("load").at = "load"
  BY DEF op, Ops, Stages
<1>3. queue \in Seq(Calls) /\ DOMAIN queue = {}
  OBVIOUS
<1>4. SessionType /\ GateInv
  BY <1>1, <1>2, <1>3 DEF SessionType, GateInv
<1>5. AuthInv
  BY <1>1, <1>2, <1>3 DEF AuthInv
<1>6. MirrorInv
  BY <1>3 DEF MirrorInv
<1>7. CardInv
  BY <1>1, <1>3 DEF CardInv, ordered, suits, CardIsAuthoritative
<1> QED
  BY <1>4, <1>5, <1>6, <1>7 DEF IInv

LEMMA InitInv ==
  ASSUME Init
  PROVE  IInv
<1>1. /\ stored \in Databases /\ possible(stored) /\ native \in {FALSE, stored.auth}
      /\ tampered = ~appMade(stored) /\ boot = Idle /\ gate = "loading"
      /\ unlocked = FALSE /\ proven = FALSE /\ faulty = FALSE
  BY DEF Init, StartInit
<1>2. boot \in [at : Phases, authenticated : BOOLEAN] /\ boot.at = "idle" /\ boot.authenticated = FALSE
  BY <1>1 DEF Idle, Phases
<1>3. native \in BOOLEAN /\ tampered \in BOOLEAN
  <2>1. stored.auth \in BOOLEAN
    BY <1>1 DEF Databases
  <2>2. native \in BOOLEAN
    BY <1>1, <2>1
  <2>3. tampered \in BOOLEAN
    BY <1>1
  <2> QED
    BY <2>2, <2>3
<1>4. StartType
  BY <1>1, <1>2, <1>3 DEF StartType
<1>5. PhaseInv
  BY <1>1, <1>2 DEF PhaseInv, Numbered, Versioned, Shaped, SettingsChecked, JournalChecked, AuthChecked
<1>6. SchemaInv
  BY <1>1, <1>2 DEF SchemaInv, possible
<1>7. StartInv
  BY <1>4, <1>5, <1>6 DEF StartInv
<1> QED
  BY <1>1, <1>2, <1>7, NoSession DEF Init

LEMMA StartKeeps ==
  ASSUME IInv, Start
  PROVE  IInv'
<1>1. StartStep /\ UNCHANGED <<status, ops, offered, queue, card, missed>>
  BY DEF Start, sessionVars
<1>2. StartInv'
  BY <1>1, StartStepKeeps DEF IInv
<1>3. /\ gate # "ready" /\ native' = native
      /\ stored'.auth = stored.auth /\ stored'.seeded = stored.seeded
      /\ \/ unlocked' = unlocked /\ proven' = proven
         \/ unlocked' = TRUE /\ proven' = TRUE /\ stored.auth
      /\ gate' = "ready" \/ boot'.at \in {"unlock", "done"} =>
           stored'.mirror = native' \/ (stored' = stored /\ boot.at \in {"unlock", "done"})
  BY <1>1, StartStepBounds DEF IInv
<1>4. /\ card = NoCard /\ queue = <<>> /\ ~missed /\ status = "none"
  BY <1>3 DEF IInv, GateInv
<1>5. SessionType' /\ GateInv'
  BY <1>1, <1>3 DEF IInv, SessionType, GateInv
<1>6. AuthInv'
  BY <1>1, <1>3 DEF IInv, AuthInv
<1>7. MirrorInv'
  <2>1. DOMAIN queue' = {}
    BY <1>1, <1>4
  <2>2. boot.at \in {"unlock", "done"} => stored.mirror = native
    BY <1>1, <1>4, <2>1 DEF IInv, MirrorInv
  <2> QED
    BY <1>1, <1>3, <2>1, <2>2 DEF MirrorInv
<1>8. CardInv'
  BY <1>1, <1>3 DEF IInv, CardInv, ordered, suits, CardIsAuthoritative
<1> QED
  BY <1>2, <1>5, <1>6, <1>7, <1>8 DEF IInv

LEMMA KillKeeps ==
  ASSUME IInv, Kill
  PROVE  IInv'
<1>1. /\ tx' = NoTx /\ boot' = Idle /\ gate' = "loading"
      /\ unlocked' = FALSE /\ proven' = FALSE /\ faulty' = FALSE
      /\ UNCHANGED <<stored, native, tampered>>
      /\ status' = "none" /\ ops' = {op("load")} /\ queue' = <<>> /\ card' = NoCard /\ missed' = FALSE
  BY DEF Kill, killStart, sessionReset
<1>2. boot' \in [at : Phases, authenticated : BOOLEAN] /\ boot'.at = "idle" /\ boot'.authenticated = FALSE
  BY <1>1 DEF Idle, Phases
<1>3. NoCard \in Cards /\ NoCard.mounted = FALSE
  BY DEF NoCard, Cards
<1>4. op("load") \in Ops /\ op("load").current /\ op("load").at = "load"
  BY DEF op, Ops, Stages
<1>5. queue' \in Seq(Calls) /\ DOMAIN queue' = {}
  BY <1>1
<1>6. StartType'
  BY <1>1, <1>2 DEF IInv, StartInv, StartType
<1>7. PhaseInv'
  BY <1>1, <1>2 DEF PhaseInv, Numbered, Versioned, Shaped, SettingsChecked, JournalChecked, AuthChecked
<1>8. SchemaInv'
  BY <1>1, <1>2 DEF IInv, StartInv, SchemaInv
<1>9. SessionType' /\ GateInv'
  BY <1>1, <1>3, <1>4, <1>5 DEF SessionType, GateInv
<1>10. AuthInv'
  BY <1>1, <1>3, <1>4, <1>5 DEF AuthInv
<1>11. MirrorInv'
  BY <1>1, <1>2, <1>5 DEF MirrorInv
<1>12. CardInv'
  BY <1>1, <1>3, <1>5 DEF CardInv, ordered, suits, CardIsAuthoritative
<1> QED
  BY <1>6, <1>7, <1>8, <1>9, <1>10, <1>11, <1>12 DEF IInv, StartInv

LEMMA UnchangedKeeps ==
  ASSUME IInv, UNCHANGED vars
  PROVE  IInv'
<1>1. UNCHANGED <<stored, tx, conn, native, boot, gate, unlocked, proven, faulty, tampered,
                  status, ops, offered, queue, card, missed>>
  BY DEF vars, startVars, sessionVars
<1>2. StartInv'
  BY <1>1, SessionKeepsStart DEF IInv, StartInv, StartType, SchemaInv
<1>3. SessionType' /\ GateInv' /\ AuthInv'
  BY <1>1 DEF IInv, SessionType, GateInv, AuthInv
<1>4. MirrorInv'
  BY <1>1 DEF IInv, MirrorInv
<1>5. CardInv'
  BY <1>1 DEF IInv, CardInv, ordered, suits, CardIsAuthoritative
<1> QED
  BY <1>2, <1>3, <1>4, <1>5 DEF IInv

LEMMA StepInv ==
  ASSUME IInv, [Next]_vars
  PROVE  IInv'
<1>1. CASE Start
  BY <1>1, StartKeeps
<1>2. CASE StatusLoaded \/ Setup \/ Login
  BY <1>2, BeginsKeep
<1>3. CASE LoginWithDevice
  BY <1>3, LoginWithDeviceKeeps
<1>4. CASE Logout \/ LeaveSettings
  BY <1>4, LeavesKeep
<1>5. ASSUME NEW o \in ops,
             \/ Rejects(o) \/ SetupRead(o) \/ SetupSeed(o) \/ SetupDerive(o)
             \/ SetupInsert(o) \/ LoginVerified(o)
      PROVE  IInv'
  BY <1>5, OpStepsKeep
<1>6. CASE OpenSettings
  BY <1>6, OpenSettingsKeeps
<1>7. CASE Reload \/ \E value \in BOOLEAN : ChangeProtection(value)
  BY <1>7, CardAsksKeep
<1>8. CASE Serve
  BY <1>8, ServeKeeps
<1>9. CASE Kill
  BY <1>9, KillKeeps
<1>10. CASE UNCHANGED vars
  BY <1>10, UnchangedKeeps
<1> QED
  BY <1>1, <1>2, <1>3, <1>4, <1>5, <1>6, <1>7, <1>8, <1>9, <1>10 DEF Next

THEOREM InductiveInvariant == Spec => []IInv
<1>1. Init => IInv
  BY InitInv
<1>2. IInv /\ [Next]_vars => IInv'
  BY StepInv
<1> QED
  BY <1>1, <1>2, PTL DEF Spec

\* Whatever is queued, cancelled, signed out of or started anew in the meantime, the
\* journal is shown only in a session somebody proved a credential for.
THEOREM RevealedToProvenOnly == Spec => []RevealedWasAuthenticated
<1>1. IInv => RevealedWasAuthenticated
  BY DEF IInv, AuthInv, RevealedWasAuthenticated
<1> QED
  BY <1>1, InductiveInvariant, PTL

\* The settings mirror of the key protection follows the native side, but for a
\* write that failed.
THEOREM MirrorFollows == Spec => []MirrorFollowsNative
<1>1. IInv => MirrorFollowsNative
  BY DEF IInv, MirrorInv, MirrorFollowsNative, open
<1> QED
  BY <1>1, InductiveInvariant, PTL

\* A settled security card shows the native state, with any number of calls left
\* behind by closed screens.
THEOREM CardShowsNative == Spec => []CardIsAuthoritative
<1>1. IInv => CardIsAuthoritative
  BY DEF IInv, CardInv
<1> QED
  BY <1>1, InductiveInvariant, PTL

\* A start that nothing disturbs opens every database the app has left behind.
THEOREM UndisturbedStarts == Spec => []UndisturbedStartSucceeds
<1>1. IInv => UndisturbedStartSucceeds
  BY DEF IInv, StartInv, SchemaInv, UndisturbedStartSucceeds
<1> QED
  BY <1>1, InductiveInvariant, PTL

\* Only the start changes the schema and opens the gate.
LEMMA SessionKeepsSchema ==
  ASSUME IInv, Next, ~Start
  PROVE  stored'.shape = stored.shape /\ stored'.version = stored.version
         /\ (gate' = gate \/ gate' = "loading")
<1>1. stored \in Databases
  BY DEF IInv, StartInv, StartType
<1>2. \A b : /\ [stored EXCEPT !.auth = b].shape = stored.shape
             /\ [stored EXCEPT !.auth = b].version = stored.version
             /\ [stored EXCEPT !.seeded = b].shape = stored.shape
             /\ [stored EXCEPT !.seeded = b].version = stored.version
             /\ [stored EXCEPT !.mirror = b].shape = stored.shape
             /\ [stored EXCEPT !.mirror = b].version = stored.version
  BY <1>1 DEF Databases
<1>3. CASE UNCHANGED <<stored, gate>>
  BY <1>3
<1>4. CASE \E o \in ops : SetupSeed(o) \/ SetupInsert(o)
  BY <1>2, <1>4 DEF SetupSeed, SetupInsert, opens, sessionOnly
<1>5. CASE Serve
  <2>1. PICK i \in running :
          \/ ServeStatus(i) \/ StatusFails(i) \/ ServeAuthenticate(i)
          \/ NativeChanged(i) \/ NativeCancelled(i) \/ NativeFails(i)
          \/ Mirror(i) \/ MirrorFails(i)
    BY <1>5 DEF Serve
  <2>2. CASE Mirror(i)
    BY <1>2, <2>2 DEF Mirror, sessionOnly
  <2>3. CASE ~Mirror(i)
    BY <1>3, <2>1, <2>3 DEF ServeStatus, StatusFails, ServeAuthenticate, NativeChanged, NativeCancelled,
         NativeFails, MirrorFails, unchangedStart, startVars
  <2> QED
    BY <2>2, <2>3
<1>6. CASE Kill
  BY <1>6 DEF Kill, killStart
<1>7. CASE StatusLoaded \/ Setup \/ Login \/ LoginWithDevice \/ OpenSettings \/ LeaveSettings \/ Reload
  BY <1>3, <1>7 DEF StatusLoaded, Setup, Login, LoginWithDevice, OpenSettings, LeaveSettings, Reload,
       unchangedStart, startVars
<1>8. CASE Logout
  BY <1>3, <1>8 DEF Logout, sessionOnly
<1>9. CASE \E value \in BOOLEAN : ChangeProtection(value)
  BY <1>3, <1>9 DEF ChangeProtection, unchangedStart, startVars
<1>10. CASE \E o \in ops : Rejects(o) \/ SetupRead(o) \/ SetupDerive(o) \/ LoginVerified(o)
  BY <1>3, <1>10 DEF Rejects, SetupRead, SetupDerive, LoginVerified, opens, sessionOnly,
       unchangedStart, startVars
<1> QED
  BY <1>4, <1>5, <1>6, <1>7, <1>8, <1>9, <1>10 DEF Next

\* The schema changes only by the next migration of an intact one, or from nothing,
\* and the gate opens only over a sound database, from any file the app is given.
THEOREM MigratesOnlyIntact == Spec => MigratesIntactOnly
<1> DEFINE Step == /\ stored'.shape # stored.shape \/ stored'.version # stored.version =>
                        /\ intact(stored) \/ \A t \in TableNames : stored.shape[t] = "none"
                        /\ intact(stored') /\ stored'.version >= stored.version
                   /\ gate' = "ready" /\ gate # "ready" => sound(stored)
<1>1. IInv /\ [Next]_vars => [Step]_startVars
  <2> SUFFICES ASSUME IInv, [Next]_vars
               PROVE  [Step]_startVars
    OBVIOUS
  <2>1. CASE Start
    <3>1. StartStep /\ StartInv
      BY <2>1 DEF Start, IInv
    <3>2. Step
      BY <3>1, StartStepMigrates
    <3> QED
      BY <3>2
  <2>2. CASE Next /\ ~Start
    <3>1. stored'.shape = stored.shape /\ stored'.version = stored.version
          /\ (gate' = gate \/ gate' = "loading")
      BY <2>2, SessionKeepsSchema
    <3>2. Step
      BY <3>1
    <3> QED
      BY <3>2
  <2>3. CASE UNCHANGED vars
    BY <2>3 DEF vars
  <2> QED
    BY <2>1, <2>2, <2>3
<1> QED
  BY <1>1, InductiveInvariant, PTL DEF Spec, MigratesIntactOnly
=============================================================================
