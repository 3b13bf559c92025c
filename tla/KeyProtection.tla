---------------------------- MODULE KeyProtection ----------------------------
(***************************************************************************)
(* Where the passphrase of the Android database lives.  Three preference   *)
(* files hold the protection mode, the ordinary ("disabled") copy and the  *)
(* copy that needs device authentication ("protected").  Enabling and      *)
(* disabling the protection move the passphrase by a fixed sequence of     *)
(* commits, and a start after a crash completes an interrupted move.       *)
(*                                                                         *)
(* A commit changes the in-memory map first.  TRUE means the file has      *)
(* followed; FALSE says nothing about the file.  Every read, also the read *)
(* back after a write, sees memory.                                        *)
(***************************************************************************)
EXTENDS Naturals, Sequences

CONSTANTS
  Keys,  \* passphrases
  None   \* no passphrase

ASSUME KeysAssumption == None \notin Keys

VARIABLES
  mem,     \* the preference files as the running process sees them
  disk,    \* the preference files
  active,  \* the store the plugin reads the passphrase from, once prepared
  call,    \* the security call under way: what it still has to write or use
  answer,  \* what the last security call reported
  faulty,  \* history: something failed since the app was last started
  slips    \* history: the known ways to lose the key or the data that happened

keyVars == <<mem, disk, active, call, answer, faulty, slips>>

-----------------------------------------------------------------------------
Modes == {"DISABLED", "ENABLING", "ENABLED"}
Stores == {"disabled", "protected"}
Copies == Keys \cup {None}
Prefs == [mode : Modes, disabled : Copies, protected : Copies]

\* The ways the key or the data is known to be lost:
\*   phantomCopy      the protected copy was made the only one while it was in
\*                    memory only: its commit had failed
\*   phantomMode      the ordinary copy was removed while the protected mode
\*                    was in memory only: its commit had failed
\*   phantomKey       a database was encrypted under a passphrase that was in
\*                    memory only: its commit had failed
\*   hollowCandidate  an incomplete encrypted file opened with the passphrase
\*                    and replaced the database
\* The ways "enabled" is known to be reported while the ordinary copy is on file:
\*   unresolved       a move broke off, and the early answer does not look at it
\*   ghostCopy        the removal failed, but left memory without the copy
Losses == {"phantomCopy", "phantomMode", "phantomKey", "hollowCandidate"}

write(f, v) == [to |-> f, value |-> v]
use(store) == [to |-> "active", value |-> store]

NoPrefs == [mode |-> "DISABLED", disabled |-> None, protected |-> None]

KeyInit ==
  /\ mem = NoPrefs /\ disk = NoPrefs
  /\ active = "none"
  /\ call = <<>>
  /\ answer = "none"
  /\ faulty = FALSE
  /\ slips = {}

\* getPassphrase() of the prepared store; an empty passphrase is none.
passphrase == IF active = "none" THEN None ELSE mem[active]

-----------------------------------------------------------------------------
\* Mutant: the ordinary copy is removed before the protected one is written.
enableClearsFirst(secret) ==
  <<write("mode", "ENABLING"), write("disabled", None), write("protected", secret),
    write("mode", "ENABLED"), use("protected")>>

\* KeyProtectionState.enable()
enable(secret) ==
  <<write("mode", "ENABLING"), write("protected", secret), write("disabled", None),
    write("mode", "ENABLED"), use("protected")>>

\* KeyProtectionState.disable()
disable(secret) ==
  <<write("disabled", secret), write("mode", "DISABLED"), write("protected", None),
    use("disabled")>>

duplicate == mem.disabled # None /\ mem.disabled = mem.protected

\* recoverEnabling() and then access to the store it decided for; no plan when
\* the copies differ or both are missing.
recoverEnabling ==
  {p \in {<<write("disabled", None), write("mode", "ENABLED"), use("protected")>>} : duplicate}
    \cup {p \in {<<write("mode", "ENABLED"), use("protected")>>} :
            mem.disabled = None /\ mem.protected # None}
    \cup {p \in {<<write("mode", "DISABLED"), use("disabled")>>} :
            mem.disabled # None /\ mem.protected = None}

\* Mutant: a leftover ordinary copy is tolerated.
openEnabledKeepsCopy ==
  {p \in {<<use("protected")>>} : mem.protected # None}

\* Access in mode ENABLED: a leftover ordinary copy is removed.
openEnabled ==
  {p \in {<<write("disabled", None), use("protected")>>} : duplicate}
    \cup {p \in {<<use("protected")>>} : mem.disabled = None /\ mem.protected # None}

prepareAfterAuthentication ==
  IF mem.mode = "ENABLING" THEN recoverEnabling ELSE openEnabled

refused == answer' = "failed" /\ UNCHANGED call

begin(plan) == call' = plan /\ answer' = "none"

\* The prompt is cancelled, or cannot be shown or completed.
prompted ==
  /\ UNCHANGED call
  /\ \/ answer' = "cancelled" /\ UNCHANGED faulty
     \/ answer' = "failed" /\ faulty' = TRUE

\* prepareKeyAccess(): without a prompt in mode DISABLED; else after one.
prepareKeyAccess ==
  /\ call = <<>>
  /\ \/ mem.mode = "DISABLED" /\ begin(<<use("disabled")>>) /\ UNCHANGED faulty
     \/ /\ mem.mode # "DISABLED"
        /\ \/ \E p \in prepareAfterAuthentication : begin(p)
           \/ prepareAfterAuthentication = {} /\ refused
        /\ UNCHANGED faulty
     \/ mem.mode # "DISABLED" /\ prompted
  /\ UNCHANGED <<mem, disk, active, slips>>

\* The last move to or from protected mode has not been completed.
incomplete == mem.mode = "ENABLING" \/ mem.disabled # None

\* setKeyProtection(): nothing to do when the mode already reads as asked for,
\* and ENABLING reads as enabled; else a prompt and the move.
setKeyProtection(enabled) ==
  /\ call = <<>>
  /\ \/ /\ enabled = (mem.mode # "DISABLED")
        /\ answer' = IF enabled THEN "enabled" ELSE "disabled"
        /\ slips' = slips \cup {f \in {"unresolved"} : enabled /\ incomplete}
        /\ UNCHANGED <<call, faulty>>
     \/ /\ enabled /\ mem.mode = "DISABLED"
        /\ IF mem.disabled # None THEN begin(enable(mem.disabled)) ELSE refused
        /\ UNCHANGED <<faulty, slips>>
     \/ /\ ~enabled /\ mem.mode = "ENABLED"
        /\ IF mem.protected # None THEN begin(disable(mem.protected)) ELSE refused
        /\ UNCHANGED <<faulty, slips>>
     \/ /\ ~enabled /\ mem.mode = "ENABLING"
        /\ IF recoverEnabling = {} THEN refused
           ELSE \E p \in recoverEnabling :
                  begin(IF mem.protected # None THEN p \o disable(mem.protected) ELSE p)
        /\ UNCHANGED <<faulty, slips>>
     \/ /\ enabled # (mem.mode # "DISABLED")
        /\ prompted
        /\ UNCHANGED slips
  /\ UNCHANGED <<mem, disk, active>>

\* ensureEncryptionSecret(): a fresh passphrase for the prepared store.
ensureEncryptionSecret(k) ==
  /\ call = <<>>
  /\ active # "none"
  /\ IF passphrase = None THEN begin(<<write(active, k)>>) ELSE refused
  /\ UNCHANGED <<mem, disk, active, faulty, slips>>

-----------------------------------------------------------------------------
reported == IF mem.mode = "ENABLED" THEN "enabled" ELSE "disabled"

\* activatePreferences()
activate ==
  /\ call # <<>> /\ Head(call).to = "active"
  /\ active' = Head(call).value
  /\ call' = Tail(call)
  /\ answer' = IF Tail(call) = <<>> THEN reported ELSE answer
  /\ UNCHANGED <<mem, disk, faulty, slips>>

\* What a commit destroys when an earlier one has stayed in memory.
losing(w) ==
  {f \in {"phantomCopy"} :
     /\ w \in {write("disabled", None), write("mode", "ENABLED")}
     /\ disk'[w.to] = w.value
     /\ disk.protected # mem.protected}
  \cup {f \in {"phantomMode"} :
     w = write("disabled", None) /\ disk'.disabled = None /\ disk.mode = "DISABLED"}

\* One preference commit of the call.
commitSucceeds ==
  /\ call # <<>> /\ Head(call).to # "active"
  /\ LET w == Head(call)
     IN  /\ mem' = [mem EXCEPT ![w.to] = w.value]
         /\ disk' = [disk EXCEPT ![w.to] = w.value]
         /\ slips' = slips \cup losing(w)
  /\ call' = Tail(call)
  /\ answer' = IF Tail(call) = <<>> THEN reported ELSE answer
  /\ UNCHANGED <<active, faulty>>

\* The commit reports failure or throws, and with it the call.
commitFails ==
  /\ call # <<>> /\ Head(call).to # "active"
  /\ LET w == Head(call)
         written == [disk EXCEPT ![w.to] = w.value]
     IN  /\ \/ mem' = [mem EXCEPT ![w.to] = w.value] /\ disk' \in {disk, written}
            \/ UNCHANGED <<mem, disk>>
         /\ slips' = slips \cup losing(w)
              \cup {f \in {"ghostCopy"} : mem'.disabled = None /\ disk'.disabled # None}
  /\ call' = <<>>
  /\ answer' = "failed"
  /\ faulty' = TRUE
  /\ UNCHANGED active

KeyStep == activate \/ commitSucceeds \/ commitFails

\* The process dies, and the next one reads the files.
killKeys ==
  /\ mem' = disk
  /\ active' = "none"
  /\ call' = <<>>
  /\ answer' = "none"
  /\ faulty' = FALSE
  /\ UNCHANGED <<disk, slips>>

\* The activity is recreated in the same process: a new plugin, the same
\* preference maps.
recreateKeys ==
  /\ call = <<>>
  /\ active' = "none"
  /\ answer' = "none"
  /\ faulty' = FALSE
  /\ UNCHANGED <<mem, disk, call, slips>>

-----------------------------------------------------------------------------
\* setKeyProtection() and prepareKeyAccess() only report "enabled" when the
\* protected copy is durable, no ordinary copy is left to read without a prompt,
\* and the next process will prompt too, but for the misreports and the commits
\* that failed and were read back from memory.
EnabledMeansGated ==
  (answer = "enabled" /\ call = <<>> /\ slips \subseteq {"phantomKey", "hollowCandidate"}) =>
    disk.mode # "DISABLED" /\ disk.disabled = None /\ disk.protected # None
=============================================================================
