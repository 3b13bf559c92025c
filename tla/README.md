# RememberMe: verification models

TLA+ models, TLC runs and TLAPS proofs for RememberMe, a daily journal in two
programs that share one repository:

* the **Android app** (`src/android`): a Capacitor shell around a React
  application, with native Java for reminders, the encrypted database and
  document transfer; all data stays on the device;
* the **web app** (`src/src`): an Astro/Hono server with a libsql database, a
  single user, and a weekly digest sent by mail.

Calendar arithmetic and the journal's text rules are shared in
`src/packages/rememberme-core`.

`PROJECT.json` lists the components, the runs, the code lines behind every
definition (`map`), the hazards of the code and the theorems.

## 1. Inventory

### Android

| Component | State it keeps | Operations | Hard behaviours | Correct when |
|---|---|---|---|---|
| Weekly reminder, native (`notifications/*.java`) | preference file (enabled, timezone, hour, last notified week, claimed week), one pending alarm | `reconcile` from the app, `reconcileStoredState` from alarm, boot, clock, timezone and update broadcasts | process death between any two effects, preference commits that fail after changing memory, clock set back, permission withdrawn | a week is announced at most once, the markers are true, a "scheduled" answer means an alarm |
| Notification action buffer and adapter (`WeeklyActionBuffer`, `weekly-notification-adapter.ts`) | two queues of at most 8 tap actions, one listener | record, consume, acknowledge; bind and unbind a listener | late binding, acknowledgement that fails, opposite eviction rules | every tap arrives, none is given twice in one life of the web view |
| Notification coordinator (`weekly-notification-coordinator.ts`) | owner, its settings snapshot, queue of native calls | `setOwner`, `start`, `reconcile`, `stop` | two sources of settings (the provider's hook, its own read on return to the app), failing native calls | the native reminder ends with the stored settings |
| Permission hook (`use-notification-permission.ts`) | permission state, sequence number | refresh, request, open settings | answers out of order, changes made in the system settings meanwhile | the device's answer is shown, Android asks once |
| Journal editor and view (`JournalEditor.tsx`, `JournalView.tsx`) | text, last saved text, in-flight write, timers | type, save, retry, flush on unmount and on background | overlapping writes, stale outcomes, kills, reopening a date | the last typed text reaches the row; older never lands after newer |
| Storage queue (`db/types.ts` `Serializer`) | one promise chain | `run` | everything else interleaves around it | operations run one at a time in order |
| Settings store (`db/settings.ts`, `settings-events.ts`, `use-settings.ts`) | settings row, subscribers | get, update, subscribe | read-back failure after commit, publication order | subscribers end with the row |
| Database bootstrap (`db/bootstrap.ts`, `migrations.ts`, `schema-validation.ts`) | schema version, open handle | open, migrate, close, retry | kill inside a migration, concurrent bootstraps, failed close | schema version never lies, one handle |
| Encrypted database (`capacitor-sqlite.ts`, `EncryptionFileSwap.java`, `UtilsSQLCipher.java`, `UtilsSecret.java`, `KeyProtectionState.java`, `KeyProtectionStore.java`) | database file, `.encrypting`, `.plain.bak`, the passphrase in one of two preference stores, the protection mode | probe, convert, recover, enable and disable protection | kill between renames, commit that fails, candidate that verifies although incomplete | the only copy and the only key are never lost |
| Authentication (`auth-service.ts`, `auth-context.tsx`, `device-unlock.ts`, `SecurityCard.tsx`) | verifier row, session, operation epoch, queue of device calls, settings mirror of the protection | setup, login, device unlock, logout, change of the protection | late answers, overlapping logins, a mirror that cannot be written | a late answer never unlocks a locked app; card and mirror follow the native state |
| Backup and import (`transfer/*`) | prepared snapshot with expected row versions | create, prepare, apply, cancel, dispose | journal or settings changed after prepare; partial failure | an import is all or nothing and never applied to another state than the one shown |
| Pages and archive views (`Today`, `Journal`, `Archive`, `WeeklyReview`) | listed days, generation of the load | load, navigate, reload after a flush, midnight | stale loads, writes that report late | a page at rest shows the stored days of its own week or month |

### Web

| Component | State it keeps | Operations | Hard behaviours | Correct when |
|---|---|---|---|---|
| Weekly digest (`server/jobs/weekly-digest.ts`, `repo.ts`) | `digest_deliveries` rows | hourly tick, manual request | overlapping runs, failing sends, restart between claim and send, remote database answers lost | at most one acknowledged mail per user and week |
| Journal editor and routes (`JournalEditor.tsx`, `routes/journal.ts`) | text, row | PUT, GET | overlapping PUTs of one editor | the row ends with the last text |
| Setup, login, settings (`routes/auth.ts`, `routes/settings.ts`) | user, settings rows, sessions | setup, login, logout, change password | two setups, failure half-way | one user with settings |
| Crypto, configuration, export | none | encrypt, decrypt, validate | none of its own | library calls |

### Shared core

Calendar, time zones, ISO weeks, journal text rules: pure functions over dates
(`calendar.ts`, `timezone.ts`, `weekly.ts`, `journal.ts`). Correct when dates,
week boundaries and wall-time resolution agree with a plain day count.

### How the parts interact

* The app's settings and session drive the coordinator, which calls the native
  plugin; the native controller is also entered by the system, without the app.
* Editor, settings, transfer and authentication share one database connection
  and one `Serializer`; settings changes travel by an event bus.
* Bootstrap prepares the key, opens the native database (which may convert or
  recover files), migrates, and only then builds the services.
* On the web the digest job and the routes meet only in the database.

## 2. Modules

| Module | Models | Proofs |
|---|---|---|
| `WeeklyNotification` | native reminder: controller, preferences, alarm, receiver | `ReminderProofs` |
| `JournalEditor` | mounts of one date over the storage queue | `JournalEditorProofs` |
| `WeeklyDigest` | concurrent digest runs over the delivery table | `ServerProofs` |
| `KeyProtection` | the passphrase's preference files and the security calls on them | `EncryptedDatabaseProofs` |
| `EncryptionFileSwap` | conversion and recovery over the three database files | `EncryptedDatabaseProofs` |
| `EncryptedDatabase` | the start of the app over both, up to an open database | `EncryptedDatabaseProofs` |
| `AppStart` | from an open database to mounted routes: migrations, validation, reconciliation, prompt | `AppSessionProofs` |
| `AppSession` | `AppStart` with the sign-in forms, the device queue and the security card | `AppSessionProofs` |
| `SettingsSync` | settings store, hooks, events, and the coordinator that follows them | `ReminderProofs` |
| `NotificationActions` | a tap's way through the native buffer, the bridge and the adapter | `NotificationShellProofs` |
| `NotificationPermission` | permission hook, plugin and device | `NotificationShellProofs` |
| `NotificationShell` | both in one web view that hides, returns and is made anew | `NotificationShellProofs` |
| `AtomicImport` | what an import promises: one step or nothing | `DataTransferProofs` |
| `DataTransfer` | card, picker, service and transaction of an import; implements `AtomicImport` | `DataTransferProofs` |
| `Calendar` | date, week and month arithmetic, and the day-by-day reference for it | `JournalPagesProofs` |
| `JournalPages` | the pages that list days, over `Calendar`, midnights and saves | `JournalPagesProofs` |
| `WebJournal` | the web editor and its overlapping PUTs | `ServerProofs` |
| `WebAccount` | setup, login, settings and password of the web server | `ServerProofs` |
| `WebApp` | both behind one session | `ServerProofs` |

Each specification that is run has an `MC...` module with the constants' values
and a `.cfg` per run. Most modules state their variables' types in the comments
beside `VARIABLES`; the reminder and the digest have a `TypeOK`, which is also
checked. The other proof modules define the type invariant their induction needs.

### WeeklyNotification

*State.* `mem` and `disk` are the preference map of the process and its file
(`AndroidWeeklyNotificationPlatform`), `alarm` the one pending intent,
`ctl` the reconciliation under way: its program counter, the snapshot it
carries, the due week and next instant it computed. `clock`, `allowed`,
`known` and `broadcast` are the device: clock, notification permission, the
timezones the OS release knows, an undelivered system broadcast.

*Actions.* One per effect of `WeeklyNotificationController.reconcile`, in code
order: `reconcile` (read and validate), `StoreSettings`, `cancelAlarm`, `Plan`
(due week, next alarm, covered?, permission), `WriteClaim`,
`postWeeklyNotification`, `clearClaimBestEffort`, `RecordPosted`,
`scheduleNext`; `RejectCancel` and `RejectStore` are `rejectDisabled`. The lock
lets one reconciliation run at a time; kills, reboots, clock and permission
changes come between any two of its steps.

*Abstraction.* A slot (timezone and hour) is due once a week, at
`Phase[slot]`; a week is a number. Week keys compare like dates, which is all
the controller does with them. The wall-clock arithmetic is not modelled here.
`SharedPreferences.commit()` is modelled by what it does: the in-memory map
changes first; TRUE means the file followed; FALSE says nothing about the file.

### JournalEditor

*State.* `queue` is the Serializer with its running operation first, `slot`
whether that operation has met the database, `ed[m]` the state and refs of
mount `m`, named as in `JournalEditor.tsx`. An operation's effect on the row
(`Execute`) and JavaScript hearing of it (`SettleGet`, `SettleWrite`,
`SettleBackground`) are separate steps, so every handler can run between them.
An upsert may fail after it has stored its text, because the read-back that
follows the statement may fail.

*Actions.* `Type`, `SaveTimerFires`, `RetryTimerFires`, `Hide` and `Show`
(visibility), `Leave` (unmount flush), `OpenDate`, `Kill`. Texts are model
values.

*Slips.* The editor can fall behind the user in five named ways, which the
history variable `slips` records at the step where each happens: `reverted`,
`overtaken`, `disarmed`, `reloaded`, `flushFailed`, explained in the module.
The safety properties hold but for these, so they also show that there is no
sixth way. All five come from the code as it stands: judging dirtiness against
the last *acknowledged* text (`:276`), a background write queued beside the
single-flight lock (`:289`), a timer cleared before it is known whether
anything will be queued (`:272`), a read that can be queued before a flush, and
a flush nobody retries.

*Hidden.* The promise of `:262-264`, that hidden text is never only in "a JS
pending flag that a killed process can lose", is `HiddenIsDurable`: while the app is
hidden, unsaved text of the open editor is in an operation it has queued at the
storage layer, or its save failed and the retry is armed. One way around it exists
in the code, the early return at `:276` while an earlier background write has not
settled; the history variable `skipped` holds exactly where hiding took it with
text that no operation had (section 5).

### WeeklyDigest

*State.* `run[r]` is a call of `runWeeklyDigest`: the digests still to do and
the one it has claimed; `deliveries` the table; `mails` counts mails the server
acknowledged. `ghosts` are mails that arrived although their send threw, and
`stranded` claims whose run ended before sending or undoing.

*Actions.* `Start` (scheduled with the due check, or manual without it),
`Claim`, `Send`, `SendFails`, `Undo`, `Abort` (a database call throws),
`ClaimUnheard` (a remote insert commits and its answer is lost), `Restart`,
`UpdateSettings`, `Tick`.

*Abstraction.* A time zone is an offset in hours, a day has `DayLength` hours;
day 0 is a Monday. Reading, decrypting and formatting the entries succeed or
fail together with the send.

### KeyProtection, EncryptionFileSwap, EncryptedDatabase

*State.* `mem` and `disk` are the three preference files (mode, ordinary copy,
protected copy) in memory and on file; `active` is the store the plugin reads
from after `activatePreferences`. `file[p]` is what lies at each of the three
paths, `side[p]` whose journal lies beside it. `start` is where
`openNativeDatabase` stands and what its probes answered. `hasData` and `slips`
are history.

*Plans.* `enable`, `disable`, `recoverEnabling` and every branch of
`EncryptionFileSwap` are straight lines once the branch is chosen. Each is an
operator that returns the sequence of its effects; `call` and `swap.todo` hold
what is left of it, and one action per kind of effect takes the head. A failing
file operation replaces the rest by its catch block (`rollback`), a failing
commit ends the call. Kills fall between any two effects and lose the plan.

*SQLCipher.* `opens` says which passphrase opens which file: a zero-length file
opens with any, an incomplete one like a complete one, because `opensWith` reads
the version only. A probe may answer no for any reason (`answers`); a wrong no
counts as a fault of this start (`faulty`).

*Processes and activities.* `Kill` loses memory. `Recreate` is a new activity in
the same process: a new plugin object over the *same* preference maps, so values
whose commit failed are still read. Most of what can go wrong with the key comes
from there.

*Slips.* `phantomCopy`, `phantomMode` and `phantomKey` lose the key after a
commit that failed was read back from memory; `hollowCandidate` loses the data
after an incomplete candidate was promoted; `unresolved` and `ghostCopy` make
the plugin report "enabled" with the ordinary copy on file. `KeyProtection`
explains each; the properties hold but for them.

*Abstraction.* A journal sidecar is one of three kinds; a passphrase is a model
value and fresh ones differ from all in use; power loss is outside, as
ADR-0005 says. The fallback to a global secret and overlapping security calls
are left out.

### AppStart, AppSession

*State.* `stored` is the committed database: the shape of each table, the
version, whether a row of some kind is damaged, whether there is a verifier, the
setup's seed and the settings mirror. `tx` is the version an open transaction
would commit; `boot` and `gate` stand for `openAppDatabase` and the
`AppBootstrap` component. `status`, `ops`, `offered` are `AuthProvider`, `queue`
the serialized calls of `DeviceUnlockService`, `card` the security card.

*Actions.* One per await of `openAppDatabase`, each with its failing variant
(`Fails`, `refuse`), the gate's own settings read, the retry button; then the
steps of setup (`SetupRead`, `SetupSeed`, `SetupDerive`, `SetupInsert`), login,
device login and logout, and one `Serve...` action per kind of device call.
Operations of `AuthProvider` from before a sign-out keep running; so do calls a
closed settings screen left in the queue.

*Abstraction.* A table is missing, as specified, deviating, or no table
(`Shapes`); the first database is any that this app can have left, or a foreign
one (`tampered`). A password is right or the login rejects. `ROLLBACK` is taken
to end the transaction. The native open, with its key and files, is
`EncryptedDatabase`; here it succeeds, is cancelled or fails.

### SettingsSync

*State.* `row` and `queue` are the settings and the Serializer; `hook` the
`useSettings` of the notification provider and of the settings form; `waiting`
the updates queued behind another of the same hook; `coord`, `calls`, `native`
the coordinator's snapshot, its native calls and what the reminder was last
told.

*Actions.* `Update` (optimistic in the form, then written, read back, announced),
`Restore` and `Setup` (writers without a hook), `Reload`, `OpenForm` and
`LeaveForm`, `Show` (the coordinator's own read), `NativeAnswers`, `Restart`. As in
`JournalEditor`, meeting the database and being heard of are separate steps. The
updates of a form that was left go on and are announced, but show nothing any more
(`left`). The names carry `Sync` (`SyncSpec`) because one proof module covers this
specification and the native reminder.

*Slips.* `behind`: a change stored but rejected by its read-back, and the
setup's seed, are announced to nobody. `bypassed`: the coordinator's read on
return sees a row that the provider does not show. `refused`: the last native
call failed; nothing retries it before the next change or return.

### NotificationActions, NotificationPermission, NotificationShell

*State.* `pending` is `WeeklyActionBuffer`; `toNative` and `toJs` are the bridge,
first in first out in each direction; `entries`, `binding`, `pump` the adapter
with its three-phase pump (acknowledge again, deliver, repeat). In the other
part, `device` holds the API level, grant, mark and switches, `calls` and
`answers` the hook's questions, `generation` the newest.

*Composition.* A tap brings a hidden app to the front, which refreshes the
permission; a recreated activity makes both hooks anew while buffer and device
stay.

*Lists.* `enqueue` and the filters of the adapter are written without recursion, so
that they can be proved about: `only(s, P)` is `s` at the positions `P`, in order, and
`enqueue` appends the first occurrences of what is not known yet, up to the limit.

*Slips.* `lost` are taps that a full buffer turned away or evicted; `late`
taps whose event is handed on only after the round trip of their delivery and
acknowledgement by way of the consumed list; a binding that failed delivers
nothing.

### AtomicImport, DataTransfer

`AtomicImport` is the abstract specification: previews come and go, the user
agrees to the one on the screen, and an import changes all its dates and
settings in one step, once, and only while what it overwrites is what the
preview showed. `DataTransfer` is the code: the card with its generation and
expiry, the document picker, decryption, `prepare` under the lock, the token,
`apply` with fingerprint check, statements and commit, each able to
fail, a left card, disposal and a kill. The rollback after a failure is taken to
end the transaction: the code swallows its failure (`data-transfer.ts:209-213`),
and the plugin's commit ends the transaction itself when it fails. `Import == INSTANCE AtomicImport`
takes the card's preview as `offered` and the applies in the queue as `agreed`;
`ImplementsImport` is `Import!Spec`. The open transaction's copy (`tx.rows`) is
not visible to the abstraction, so the refinement says that no half of an
import is ever committed.

*Abstraction.* An entry with its times is one value, the portable settings are
one value. `createBackup` only reads and is left out with the formats.

### Calendar, JournalPages

`Calendar` translates the civil-date helpers; `nextDay` and `AgreesOn` are the
reference, which knows only the lengths of months and counts; `isDay` says what
counting from the first of the year 0 arrives at, by the days before each year and
month. `JournalPages`
walks a `day` forward and checks the helpers on every day it meets; on the `Busy`
days it opens pages, types, saves and lets midnight fall anywhere. `page.shown`
is what a page lists, `silent` the days whose change no page was told of since it
last read: a write flushed after leaving the editor is reported to its own
`JournalView`, not to an `Archive` or `WeeklyReview` that has loaded already.
A text is present or absent here: the success of a stale write whose text is present
like the editor's is reported where the code says nothing, and the background write
that the code queues beside one in flight (`JournalEditor.tsx:287-308`) is left out.
Either could only add landings no page is told of, which are `silent`.

### WebJournal, WebAccount, WebApp

`net` holds the PUTs of the editor; the server applies any of them next, and any
answer may come next, be an error, or be lost. Each failed PUT arms a retry, but
only the newest timer is known to be cleared by typing (`retryRef`); the others
are counted in `lost` and still fire. *Slips*: `overtaken`, `trusted`, `left`.
`WebAccount` has two setups step by step, login and logout, settings and
password changes, and a server that stops between any two steps. The library's
accounts and sessions are external: one user per address.

## 3. Runs

| Run | Result | What it shows |
|---|---|---|
| `WeeklyNotification_safety` | pass | with failing commits, kills, reboots, timezone removal and a clock set in both directions at every step: at most one announcement per week (with one exact exception), truthful markers, a write-ahead claim before every post, truthful results, catch-up before re-arming |
| `JournalEditor_saves` | pass | nothing typed is left without a write or a timer, hidden text is queued at the storage layer or its failed save will be retried (but for `skipped`), older text never lands after newer, stale outcomes paint nothing, and the row catches up under fairness, but for the named slips |
| `JournalEditor_newest` | violation | "the database always ends with the newest value" fails when the saved text is typed back while another text is being stored |
| `WeeklyDigest_claims` | pass | the unique delivery row alone makes acknowledged delivery at-most-once, claims exclusive, and a scheduled week never one whose Sunday has not begun for the subscriber |
| `EncryptedDatabase_start` | pass | through failing commits and file operations, wrong probes, kills and recreated activities: data and key survive, an undisturbed start succeeds, an open database is encrypted with nothing left of a conversion, needed journals are never deleted, and "enabled" is true, but for the named slips |
| `EncryptedDatabase_candidate` | violation | ADR-0005's "never losing the only copy" fails: a kill while the candidate is empty or partly exported lets the next start promote it and delete the plaintext backup |
| `AppSession_gate` | pass | whatever starts, setups and protection changes were cut off: an undisturbed start of the app's own file succeeds, a schema only changes by the next migration of an intact one, the journal is revealed only by a proof of this session, card and mirror show the native protection |
| `SettingsSync_quiet` | pass | once everything is answered, every hook shows the stored settings and the native reminder has them, but for the named slips |
| `NotificationShell_taps` | pass | every tap reaches a listener, once in each web view, but for full buffers and failed bindings; the permission shown is the device's, and the dialog opens at most once |
| `DataTransfer_imports` | pass | an import is one agreed step of the database or none (refinement of `AtomicImport`), and the card's last word about it is true |
| `JournalPages_dates` | pass | the date helpers agree with counting through 400-year eras and at both ends of the range; a page at rest shows exactly the stored days of its own week or month, but for `silent` ones |
| `WebApp_saves` | pass | a web editor at rest has its text stored but for the named slips; of two setups at most one is told it worked, and its password and settings are the stored ones |

*Bounds.* `WeeklyNotification`: two slots half a week apart and a clock of four
half-weeks give two to three due weeks per slot, the least with which a later
claim can overwrite an earlier one and a rollback return to it; kills and
failures are unbounded. `JournalEditor`: three texts, three edits, two trips to
the background, two mounts: a third text is needed for "A saved, B in flight,
back to A", the second trip for `disarmed`, the second mount for `reloaded`.
`WeeklyDigest`: two runs and two users are enough for every race over one row
and for a failure that skips another subscriber; hours 10 to 15 of two-hour
days run from Saturday over Sunday to Monday; one restart and one settings
change can fall anywhere. `EncryptedDatabase`: two passphrases, a lost one and
its replacement; kills, failures, recreations and switches of the protection are
unbounded, and the state space is finite without a counter. `AppSession`: kills,
failures and operations are unbounded; `MaxQueue` 2 lets a call left behind by a
closed screen stand before the next screen's (4 adds no new kind of state).
`SettingsSync`: two writes and one return to the app overlap a load, and two
operations ahead of a new form make its load late. `NotificationShell`: buffers
of two instead of eight with three taps reach eviction and refusal; three user
events let a change fall between a request and its read. `DataTransfer`: two
files, one that carries settings and one that does not, over two dates; a third
pick replaces a preview while an earlier one is being applied; two edits touch a
covered and an uncovered date. `JournalPages`: pages are used from Saturday
30 December 2000 to Monday 1 January 2001, where the reviewed week turns first and
then week, month and year, with three visits and two edits; the walks go from 0000-01-01 over its
first years, from 1970 to 2104 (a leap century and none) and over the last two
years. `WebApp`: two edits and two loads of the page, two setups with two
passwords and zones, one later change.

*Deadlock.* The reminder, `AppSession`, `SettingsSync` and `EncryptedDatabase`
run with the deadlock check. The editor, the digest and the other runs bound
what the user does, the clock or the days, and may really have nothing left to
do, so theirs is off.

*Fairness* (`JournalEditor_saves`, `FairSpec`). The event loop eventually runs
a due timer and a settled promise, and the queue runs its head: weak fairness.
Storage is not broken for ever: strong fairness of a successful execution;
without it "retries every 5s until it succeeds" promises nothing. The user is
under no fairness. No other module claims liveness: nothing in the code makes
the next broadcast, app start or scheduler tick at the due hour happen, and a
server that is down for the due hour skips the week.

## 4. Proofs

All proofs hold for every value of the constants that satisfies the modules'
named `ASSUME`s. These are few: constants are numbers where they are
counted with, the values that stand for "nothing" (`None`, `NoText`, `Empty`, `"none"`)
are no passphrase, text, snapshot or tap, `"settings"` is no date, the digest's hours
and offsets stay within the clock's range, the dates of `JournalPages` are days of the
calendar, and its screens are opened on days whose current and last week are dates
(the review of the first days of the year 0 has no Monday to show). The bounds that
keep the runs small (`MaxEdits`, `MaxQueue`, `MaxTime`, ...) are arbitrary numbers in
the proofs.
Each inductive invariant was checked by TLC on the module's run before it was proved.

| Module | Theorems | Properties they state |
|---|---|---|
| `ReminderProofs` | `TypeCorrect`, `AtMostOnce`, `NotifiedWasPosted`, `ResultsAreTruthful`, `CatchUpFirst`, `WriteAhead`, `MarkerMonotone`; `SyncInvariant`, `Converging`, `Following` | all of `WeeklyNotification_safety` and of `SettingsSync_quiet` |
| `ServerProofs` | `DigestTypes`, `DigestAcknowledgedOnce`, `ClaimsAreExclusive`, `RowsHaveMeaning`, `ScheduledWeeksReachedSunday`; `SetupAnswersAreTrue`, `StoredOrSlipped` | all of `WeeklyDigest_claims` and of `WebApp_saves` |
| `JournalEditorProofs` | `SavesStayArmed`, `TypedIsStored`, `HiddenTextIsSafe`, `RowMovesForward`, `StaleOutcomesAreSilent` | all of `JournalEditor_saves` but `EventuallyStored` |
| `EncryptedDatabaseProofs` | `DataOutlivesFailures`, `EnabledIsGated`, `OpenedIsReconciled`, `UndisturbedStartEnds`, `LiveJournalStays` | all of `EncryptedDatabase_start` |
| `AppSessionProofs` | `UndisturbedStarts`, `MigratesOnlyIntact`, `RevealedToProvenOnly`, `MirrorFollows`, `CardShowsNative` | all of `AppSession_gate` |
| `NotificationShellProofs` | `AskedOnlyOnce`, `ScreenShowsDevice`; `TapsInvariant`, `TapsArrive`, `TapsGivenOnce` | all of `NotificationShell_taps` |
| `DataTransferProofs` | `ReportsAreTrue`, `TransferImplementsImport` | all of `DataTransfer_imports` |
| `JournalPagesProofs` | `EveryDayAgrees`, `HelpersAgree`, `PagesInvariant`, `PagesShowTheirDates` | all of `JournalPages_dates` |

**ReminderProofs**, the native reminder. `AtMostOncePerWeek` alone is not inductive; what
makes it so: both copies of the preferences *and* the snapshot the reconciliation
carries remember every announced week, by the notified marker or by the claim,
unless that week was given up with an erased claim (`MemoryInv`, `DiskInv`,
`CarriedInv`); from the claim on the due week is ahead of the carried markers
(`DueInv`) and memory and file hold exactly the claimed snapshot (`ClaimInv`);
memory and the carried snapshot never trail the file's notified marker
(`MarkerInv`). `ResultsAreTruthful` and `CatchUpFirst` need in addition what the
last steps know (`ArmInv`): the computed alarm lies on the slot of the carried
snapshot, and an arming without a failure has that snapshot in memory and on file.

**ReminderProofs**, the settings. Of the operations in the queue the newest of a mounted
hook, and it alone, is current (`NewestInv`), and a success not yet heard of is still
true of the row (`SlotInv`). A hook that does not show the row has an error, is
`behind`, has an operation of its own in the queue, or is about to be told by the
running one (`ConvergeInv`): with the queue empty nothing but the first three is left.
The last native call carries what the coordinator holds, which is what the provider
shows unless it was `bypassed` (`CoordInv`).

**ServerProofs**, the digest. The invariant adds what a run holds in each phase
(`Holding`): a run about to undo is the only one that ever had the claim and its
mail was never acknowledged, so deleting the row frees nothing else.
`RowsHaveMeaning` and `ScheduledWeeksReachedSunday` follow by the same cases;
types need that a run's digests come from settings within the table's weeks.

**JournalEditorProofs.** `MountInv` and `QueueInv` tie refs to operations: an
operation in the queue is known to its mount by the ref that guards it, and a mount
has at most one of each kind. `SlotInv` says that a success not yet heard of is
still true of the row, which is what lets `Settle...` believe it. The writes in the
queue stand in the order of the user's changes (`OrderInv`), what is still to be
written is the latest change (`LatestInv`), and a left mount asks for its flush
before the next one can show the entry (`PendingInv`): together `RowMovesForward`.
A dirty open editor has its next save in a timer, a request, the write in flight or
a background write behind it, unless `disarmed` (`CoveredInv`, `HiddenInv`). While
the app is hidden its text is the one in flight or in the mount's last queued
operation, or nothing is in flight and the retry is armed (`KeptInv`): a text typed
over a background write must not count as that write's. Without a
slip the open editor is the only mount with work to do and a clean one shows the row
(`OpenInv`); with none open the last write, to come or done, is of the last text
(`ClosedInv`).

**EncryptedDatabaseProofs.** The plans make the induction possible: each is a
straight line, so an invariant is a table from what is left of it to what is true
then. `FilesInv` has five shapes of which of the three files exist, and for each
shape the suffixes that fit it (`Stage`); a kill forgets the suffix and leaves a
shape, and `recover` has a line for every one. With it go what a conversion has
established (`ConvertInv`), journals (`SideInv`), which passphrase opens what
(`FileInv`), and that without a fault no catch block runs (`FaultInv`).
`KeysInv` is the same for the preference files: until one of the losses, memory and
file hold one passphrase between them (`KeyInv`), and what is left of `enable`,
`disable` and `recoverEnabling` fits what is committed (`CallInv`). `GateInv`
carries "enabled means gated", `ActiveInv` the store the plugin reads from.

**AppSessionProofs.** `PhaseInv` is what `openAppDatabase` has found out by the
phase it is in, `SchemaInv` that only a foreign database or a failure ends a start;
`MigratesOnlyIntact` is then a step property. For the session: `GateInv` (none
before the gate opens), `AuthInv` (what no sign-out has ended is current, and an
unlocked session was proven), `MirrorInv` (the native state has reached the mirror,
or the running call will write it, or its write failed) and `CardInv` (which call a
card waits for, and which are left over from cards that were closed). A queue of any
length needs the lemmas on where a call stands in it (`BehindRunning`).

**NotificationShellProofs**, the permission. Only the newest read counts and it is in one place:
a call, an answer, or heard (`NewestInv`). `AskInv` places the one request before
that read, and never after the mark "asked", which gives `AskedOnlyOnce`;
`ShownInv` lists what will bring a changed device to the screen.

**NotificationShellProofs**, the taps. The native buffer forgets a tap only when it was
delivered or lost (`HeldInv`); `BindingInv` says what is under way in each state of the
binding, which fixes the order of "listen" and "consume". A tap that is still owed is in
an event, in the consumed list, queued during installation, or an entry the pump will
come to (`FoundInv`): with the queues empty and the pump at rest there is no such
place. For `GivenOnce`, the pump has one acknowledgement on its way at a time, that of
the entry it is at (`PumpInv`), and what was delivered and is not late is an entry that
awaits its acknowledgement, or no buffer and no event holds it: the bridge keeps the
order, so the acknowledgement comes behind the events (`OnceInv`). What `only` and
`enqueue` return for lists of any length is proved by counting the chosen positions
(`RankFacts`, `OnlyFacts`, `EnqueueFacts`).

**DataTransferProofs.** A token is used once on its way (`MadeInv`, `FreshInv`,
prepared, queued, imported or dropped); an open transaction's copy is the import
applied to what the executed statements cover, over rows that are still those of
the preview (`TxInv`); what the card has said is of its own token (`CardInv`).
`TransferImplementsImport` maps initial states, and every step to a step of
`AtomicImport` or a stutter: only the commit of an apply imports, and then all.

**ServerProofs**, the web application. `AccountInv`: a setup past its sign-up is the only one there will
ever be. `JournalInv`: without a slip every PUT under way is of the page that is open,
and a text that is not in the debounce is stored, under way, refused, or about to be
sent again; the lemmas say what taking one PUT out of many leaves.

**JournalPagesProofs.** A date has one place in its era of 400 years (`Place`: century,
leap cycle, year and month seen from March), and both conversions are polynomials of
it, so they are inverses (`RoundTrip`) and keep the order; weeks and months are then
addition on day numbers. `EveryDayAgrees` is about every day from 0000-01-01 to
9999-12-31, not only those a walk meets, and `isDay` is kept by `nextDay`. For the
screens, `Waiting` says that a loading one waits for just one list in the queue, of its
own dates, and any other for none, so late answers are dropped; `Answered` what the
running operation has read; `Shown` that what is on the screen differs from the rows
only by a write still to be reported or a `silent` one.

*Model-checked only.* Every safety and action property of the passing runs is
proved. `EventuallyStored` is not: liveness under fairness and ENABLED are out of the
prover's reach. The two violation runs check sentences that are false.

## 5. Where code and documentation disagree

Two runs are counterexamples to a sentence in the repository (`findings` in
`PROJECT.json`). Further observations made while modelling, not claimed as
findings:

Android, reminder and taps

* `WeeklyNotificationController.java:216`: a failed post erases the only claim
  field, also of an earlier week that was posted but not recorded and whose claim
  it had overwritten. A clock set back makes that week due again, although
  ADR-0007 calls rollbacks idempotent. `AtMostOncePerWeek` carries exactly this
  exception.
* A timezone an OS update no longer knows disables the reminder.
* An action the native buffer evicted can never be acknowledged: its entry keeps a
  slot of the adapter until the web view ends. A tap delivered but not yet
  acknowledged is delivered again after the activity is recreated.
* A refresh on return to the app that overtakes the check of `requestIfPrompt`
  drops the prompt the user asked for. The mark "asked" is written before the
  dialog is opened.
* A coordinator that read the row past a provider that is behind, and a native
  call that failed, leave the reminder with other settings until the next change
  or return.

Android, settings, session and data

* The time zone the setup stores is announced to no hook. A settings update that
  was stored but whose read-back failed is reported as an error and announced to
  nobody.
* `deviceUnlockAvailable` is read when the provider mounts and not again after the
  security card has changed the protection; the comment at `auth-context.tsx:66`
  then no longer holds.
* The preview's fingerprints cover the imported dates and, if the file has
  settings, the portable ones; other dates may change between preview and import.
* A preview that expires while its import is being applied shows "expired" first
  and "Restored" after.
* A write flushed on leaving the editor is missed by an Archive or Weekly Review
  that loaded before it; a failed Archive load has no retry; Today turns only when
  something renders it. The success of a stale write refreshes no marker.

Android editor and web

* `JournalEditor.tsx:276`: hiding the app queues nothing while an earlier
  background write has not settled, whatever text that write has. With A in flight
  and B typed, hiding queues B; shown again, C is typed and the save timer only sets
  `pending`; hidden again, C is in a JavaScript flag, against `:262-264`. If the
  timer had not fired, C is in no timer either (`disarmed`). `HiddenIsDurable`
  without its `skipped` fails in this way.
* `JournalEditor.tsx:301-308`: a failed background write paints an error and
  arms a retry even when its text is no longer the editor's, unlike the rule
  stated at `:46-48`.
* `README.md:185-187` of the web app says a week is mailed at most once; a mail
  whose acknowledgement was lost is sent again (`ghosts`). `README.md:189-190`
  says a failed send is not retried; `weekly-digest.ts:130-131` undoes the claim
  so that it is.
* The week is computed from UTC's Sunday and the due hour in the subscriber's
  zone; a manual request early on Sunday mails the week before.
* `schema.ts:108` calls a row of `digest_deliveries` a delivered digest. A server
  killed between claim and send leaves a row for a digest nobody got
  (`stranded`).
* Web editor: the success of an older PUT sets the status to "saved" while newer
  text is only in the debounce, so the guard described at
  `src/src/components/journal/JournalEditor.tsx:20` is off. Retries of earlier
  failures are not cleared by typing; PUTs may overtake each other, and the older
  text then stays.
* A web setup that stops between the user and its settings leaves a user without
  settings; a later settings PUT creates them.

## 6. Plan

The modelling and the proofs of the plan are done; what is not modelled is in section 7.
What would come next is `stop` and a change of the coordinator's owner, and a model of
wall-clock resolution.

## 7. Not modelled

* Wall-clock resolution (`timezone.ts`, `WeeklyScheduleMath`): offsets come from
  the platform's zone data; the reminder has one due instant per week and slot,
  the digest a whole-hour offset.
* `stop` and a changed owner of the coordinator: both come only with the end of
  the web view, modelled as a kill.
* Changing the passphrase, session prompts and the busy refusal of overlapping
  security calls in the patched plugin; power loss.
* Export of a backup, codec formats, cryptographic primitives, mail texts,
  rendering, layout and focus, the HTTP framework and the session library with
  its own sign-up route.
* Tests and generated code. Test files are more than half of the TypeScript lines
  under `src/android/src`; no definition stands for them, so the map covers a
  small share of all lines although most stateful code of the app has a model.
