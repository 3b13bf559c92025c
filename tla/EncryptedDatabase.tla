-------------------------- MODULE EncryptedDatabase --------------------------
(***************************************************************************)
(* The start of the Android app up to an open database: JavaScript         *)
(* prepares the key (KeyProtection), probes, recovers and converts the     *)
(* files (EncryptionFileSwap) and opens the result; later the user may     *)
(* switch the key protection.  The process can be killed before any        *)
(* effect, and the activity can be recreated in the same process.          *)
(***************************************************************************)
EXTENDS EncryptionFileSwap

VARIABLES
  start,   \* how far the start has come, and what its probes answered
  hasData  \* history: the user has a journal

vars == <<keyVars, fileVars, start, hasData>>

-----------------------------------------------------------------------------
Phases == {"down", "prepare", "exists", "encrypted", "ensure", "key", "open",
           "convert", "swap", "attach", "running", "failed"}

Down == [at |-> "down", secretStored |-> FALSE, existing |-> FALSE, encrypted |-> FALSE]

Init ==
  /\ KeyInit
  /\ FileInit
  /\ start = Down
  /\ hasData = exists("main")

go(phase) == start' = [start EXCEPT !.at = phase]

\* The swap has done all it had to.
swapped == swap = NoSwap

-----------------------------------------------------------------------------
\* openAppDatabase(): the key first, before any probe.
Prepare ==
  /\ start.at = "down"
  /\ prepareKeyAccess
  /\ go("prepare")
  /\ UNCHANGED <<fileVars, hasData>>

\* A cancelled prompt can be retried; any other failure is final for this start.
PrepareRefused ==
  /\ start.at = "prepare" /\ call = <<>> /\ answer \in {"cancelled", "failed"}
  /\ go(IF answer = "cancelled" THEN "down" ELSE "failed")
  /\ UNCHANGED <<keyVars, fileVars, hasData>>

\* isSecretStored(), then isDatabase(), which recovers first.
ProbeDatabase ==
  /\ start.at = "prepare" /\ call = <<>> /\ answer \in {"enabled", "disabled"}
  /\ start' = [start EXCEPT !.at = "exists", !.secretStored = (passphrase # None)]
  /\ recover
  /\ UNCHANGED hasData

\* isDatabaseEncrypted() recovers again.
ProbeEncryption ==
  /\ start.at = "exists" /\ swapped
  /\ IF exists("main")
     THEN start' = [start EXCEPT !.at = "encrypted", !.existing = TRUE] /\ recover
     ELSE go("ensure") /\ UNCHANGED <<fileVars, keyVars>>
  /\ UNCHANGED hasData

\* getDatabaseState(): plaintext, encrypted with the secret, or unknown.
ClassifyDatabase ==
  /\ start.at = "encrypted" /\ swapped
  /\ \/ /\ opens("main", None)
        /\ go("ensure")
        /\ UNCHANGED faulty
     \/ /\ opens("main", passphrase) /\ passphrase # None
        /\ ~opens("main", None)
        /\ start' = [start EXCEPT !.at = "ensure", !.encrypted = TRUE]
        /\ UNCHANGED faulty
     \/ /\ go("failed")
        /\ faulty' = (faulty \/ opens("main", None) \/ opens("main", passphrase))
  /\ UNCHANGED <<fileVars, mem, disk, active, call, answer, slips, hasData>>

\* A missing secret is only replaced when nothing is encrypted with it.
EnsureSecret ==
  /\ start.at = "ensure"
  /\ \/ /\ start.secretStored
        /\ go("open")
        /\ UNCHANGED keyVars
     \/ /\ ~start.secretStored
        /\ \E k \in Keys :
             /\ k \notin {mem.disabled, mem.protected, disk.disabled, disk.protected}
             /\ \A p \in Paths : file[p].key # k
             /\ ensureEncryptionSecret(k)
        /\ go("key")
  /\ UNCHANGED <<fileVars, hasData>>

\* setEncryptionSecret() looks at the database once more and may throw.
SecretEnsured ==
  /\ start.at = "key" /\ call = <<>>
  /\ \/ answer # "failed" /\ go("open") /\ UNCHANGED faulty
     \/ answer = "failed" /\ go("failed") /\ UNCHANGED faulty
     \/ exists("main") /\ go("failed") /\ faulty' = TRUE
  /\ UNCHANGED <<fileVars, mem, disk, active, call, answer, slips, hasData>>

\* Database.open(): mode "encryption" recovers a third time and converts.
OpenConnection ==
  /\ start.at = "open"
  /\ IF start.existing /\ ~start.encrypted
     THEN go("convert") /\ recover
     ELSE go("attach") /\ UNCHANGED <<keyVars, fileVars>>
  /\ UNCHANGED hasData

undurable == {f \in {"phantomKey"} : disk[active] # passphrase}

Convert ==
  /\ start.at = "convert" /\ swapped
  /\ go("swap")
  /\ beginConversion
  /\ slips' = slips \cup undurable
  /\ UNCHANGED <<file, side, mem, disk, active, call, answer, faulty, hasData>>

Converted ==
  /\ start.at = "swap" /\ swapped
  /\ go("attach")
  /\ UNCHANGED <<keyVars, fileVars, hasData>>

\* openOrCreateDatabase(): create a missing database, open one the passphrase
\* fits, and let SQLCipher roll back its journal.
OpenOrCreate ==
  /\ start.at = "attach"
  /\ \/ /\ ~exists("main")
        /\ file' = [file EXCEPT !["main"] = Cipher(passphrase, ~hasData)]
        /\ hasData' = TRUE
        /\ slips' = slips \cup undurable
        /\ side' = [side EXCEPT !["main"] = "none"]
        /\ go("running")
        /\ UNCHANGED faulty
     \/ /\ exists("main") /\ opens("main", passphrase)
        /\ side' = [side EXCEPT !["main"] = "none"]
        /\ go("running")
        /\ UNCHANGED <<file, hasData, slips, faulty>>
     \/ /\ go("failed")
        /\ faulty' = (faulty \/ ~exists("main") \/ opens("main", passphrase))
        /\ UNCHANGED <<file, side, hasData, slips>>
  /\ UNCHANGED <<swap, mem, disk, active, call, answer>>

\* A recovery or the conversion has thrown.
StartFails ==
  /\ swap.thrown
  /\ swap' = NoSwap
  /\ go("failed")
  /\ UNCHANGED <<keyVars, file, side, hasData>>

-----------------------------------------------------------------------------
\* The journal is being written: a transaction's sidecar is on file.
WriteJournal ==
  /\ start.at = "running"
  /\ side' = [side EXCEPT !["main"] = IF @ = "cipher" THEN "none" ELSE "cipher"]
  /\ UNCHANGED <<file, swap, keyVars, start, hasData>>

SetKeyProtection(enabled) ==
  /\ start.at = "running"
  /\ setKeyProtection(enabled)
  /\ UNCHANGED <<fileVars, start, hasData>>

KeyCallStep == KeyStep /\ UNCHANGED <<fileVars, start, hasData>>

FileOperation == FileStep /\ UNCHANGED <<start, hasData>>

\* The process is killed.
Kill ==
  /\ killKeys
  /\ swap' = NoSwap
  /\ start' = Down
  /\ UNCHANGED <<file, side, hasData>>

\* The activity is finished and opened again in the same process.
Recreate ==
  /\ start.at \in {"running", "failed"}
  /\ recreateKeys
  /\ start' = Down
  /\ UNCHANGED <<fileVars, hasData>>

Next ==
  \/ Prepare \/ PrepareRefused \/ ProbeDatabase \/ ProbeEncryption
  \/ ClassifyDatabase \/ EnsureSecret \/ SecretEnsured \/ OpenConnection
  \/ Convert \/ Converted \/ OpenOrCreate \/ StartFails
  \/ WriteJournal
  \/ \E enabled \in BOOLEAN : SetKeyProtection(enabled)
  \/ KeyCallStep
  \/ FileOperation
  \/ Kill
  \/ Recreate

Spec == Init /\ [][Next]_vars

-----------------------------------------------------------------------------
durableKeys == {disk.disabled, disk.protected} \ {None}

\* Some file holds all of the user's data, in the clear or under a passphrase
\* that is on file.
readable ==
  \E p \in Paths :
    file[p].full /\ (file[p].is = "plain" \/ (file[p].is = "cipher" /\ file[p].key \in durableKeys))

\* Whatever is killed or fails, neither the only copy of the data nor the only
\* key to it is lost by a conversion, a recovery or a move of the passphrase, but
\* for the known slips.
DataSurvives == hasData /\ slips \cap Losses = {} => readable

\* A database that openNativeDatabase() has opened is the encrypted one, and
\* neither a candidate nor a plaintext backup is left of a conversion.
RunningIsReconciled ==
  start.at = "running" /\ call = <<>> =>
    /\ file["main"].is = "cipher"
    /\ ~exists("tmp") /\ ~exists("bak")

\* A start that meets no failure itself succeeds, whatever earlier processes
\* left behind ("a deterministic next startup reconciles artifacts",
\* docs/adr/0005-on-device-encryption.md:137), but for the known losses.
StartupReconciles ==
  start.at = "failed" /\ ~faulty => slips \cap Losses # {}

\* A conversion or recovery only deletes journals that belong to another file:
\* the one a database needs to roll back its last transaction is left to SQLCipher.
LiveJournalIsKept ==
  [][deleteSidecars /\ op.at = "main" => side["main"] # file["main"].is]_vars

\* "never losing the only copy" (docs/adr/0005-on-device-encryption.md:139): some
\* file holds all of the user's data.  An incomplete candidate refutes it.
NeverLosesOnlyCopy == hasData => \E p \in Paths : file[p].full
=============================================================================
