-------------------------- MODULE EncryptionFileSwap --------------------------
(***************************************************************************)
(* The conversion of a plaintext database to an encrypted one, and its     *)
(* recovery after a crash, over three files next to each other: the        *)
(* database (main), the encrypted candidate (tmp, ".encrypting") and the   *)
(* plaintext backup (bak, ".plain.bak"), each with its journal sidecars.   *)
(*                                                                         *)
(* Both procedures are straight lines of file operations once their        *)
(* branch is chosen.  Each operation can fail, which throws or runs the    *)
(* rollback of its catch block, and the process can die before any of      *)
(* them.  A rename or a delete is atomic and lasts: power loss is outside  *)
(* of the protocol's promise.                                              *)
(***************************************************************************)
EXTENDS KeyProtection

VARIABLES
  file,  \* file[p]: what is at path p
  side,  \* side[p]: whose journal lies at the sidecar paths of p
  swap   \* the file operations still to do, and whether one has thrown

fileVars == <<file, side, swap>>

-----------------------------------------------------------------------------
Paths == {"main", "tmp", "bak"}

\* full: the file holds all of the user's data.
File == [is : {"absent", "plain", "cipher", "empty"}, key : Copies, full : BOOLEAN]

Absent == [is |-> "absent", key |-> None, full |-> FALSE]
Zero == [is |-> "empty", key |-> None, full |-> FALSE]
Plain == [is |-> "plain", key |-> None, full |-> TRUE]
Cipher(k, full) == [is |-> "cipher", key |-> k, full |-> full]

exists(p) == file[p].is # "absent"

\* What SQLCipher can open: a zero-length file opens with any passphrase or none.
\* It reads the version only, so an incomplete file opens as well.
opens(p, k) ==
  \/ file[p].is = "empty"
  \/ file[p].is = "plain" /\ k = None
  \/ file[p].is = "cipher" /\ k # None /\ file[p].key = k

-----------------------------------------------------------------------------
\* File operations.  undo names what their catch block does.
FileSteps ==
  [do : {"strip", "drop", "move", "opensSecret", "opensPlain", "fsync",
         "openMain", "create", "export", "complete", "throw"},
   at : Paths, to : Paths, undo : {"throw", "unpromote", "restore", "unswap"}]

simple(op, p) == [do |-> op, at |-> p, to |-> p, undo |-> "throw"]
strip(p) == simple("strip", p)
drop(p) == simple("drop", p)
moveElse(p, q, undo) == [do |-> "move", at |-> p, to |-> q, undo |-> undo]
move(p, q) == moveElse(p, q, "throw")
verify(undo) == [simple("opensSecret", "main") EXCEPT !.undo = undo]
throw == simple("throw", "main")

\* The catch blocks; each ends by throwing.
rollback(undo) ==
  CASE undo = "throw" -> <<throw>>
    [] undo = "unpromote" -> <<move("main", "tmp"), throw>>
    [] undo = "restore" -> <<move("bak", "main"), throw>>
    [] undo = "unswap" -> <<move("main", "tmp"), move("bak", "main"), strip("main"), throw>>

\* Mutant: the journals of the plaintext backup go, the backup stays.
releaseBackupLeavesFile == <<strip("bak")>>

releaseBackup == <<strip("bak"), drop("bak")>>
deleteStaleTmp == <<strip("tmp"), drop("tmp")>>

restoreBackup ==
  <<simple("opensPlain", "bak"), move("bak", "main"), strip("main"), strip("bak"), strip("tmp")>>

promoteIntoAbsentMain ==
  <<strip("tmp"), move("tmp", "main"), verify("unpromote"), strip("main")>>

promoteWithBackup ==
  <<strip("main"), strip("tmp"), move("main", "bak"), moveElse("tmp", "main", "restore"),
    verify("unswap"), strip("main")>> \o releaseBackup

promoteRecoveryCandidate ==
  <<simple("fsync", "tmp")>>
    \o (IF exists("main") THEN promoteWithBackup ELSE promoteIntoAbsentMain)

\* Mutant: recovery stops when the backup was made and the candidate not moved.
recoveryPlanBackupIsAmbiguous(mainEncrypted, mainPlaintext, tmpEncrypted) ==
  IF ~exists("tmp") /\ ~exists("bak") THEN <<>>
  ELSE IF exists("tmp") /\ exists("main") /\ ~exists("bak") /\ mainPlaintext /\ tmpEncrypted
  THEN promoteRecoveryCandidate
  ELSE IF exists("tmp") /\ exists("main") /\ ~exists("bak") /\ mainPlaintext
  THEN deleteStaleTmp
  ELSE <<throw>>

\* recover(): the decision table over which files exist and what opens how.
recoveryPlan(mainEncrypted, mainPlaintext, tmpEncrypted) ==
  LET hasTmp == exists("tmp")
      hasBak == exists("bak")
      hasMain == exists("main")
  IN  CASE ~hasTmp /\ ~hasBak -> <<>>
        [] hasTmp /\ ~hasBak /\ ~hasMain ->
             IF tmpEncrypted THEN promoteRecoveryCandidate ELSE <<throw>>
        [] hasTmp /\ hasBak /\ ~hasMain ->
             IF tmpEncrypted THEN promoteRecoveryCandidate \o releaseBackup
             ELSE restoreBackup \o deleteStaleTmp
        [] ~hasTmp /\ hasBak /\ ~hasMain -> restoreBackup
        [] hasTmp /\ hasMain /\ ~hasBak ->
             IF mainEncrypted THEN deleteStaleTmp
             ELSE IF mainPlaintext /\ tmpEncrypted THEN promoteRecoveryCandidate
             ELSE IF mainPlaintext THEN deleteStaleTmp ELSE <<throw>>
        [] ~hasTmp /\ hasMain /\ hasBak -> IF mainEncrypted THEN releaseBackup ELSE <<throw>>
        [] hasTmp /\ hasMain /\ hasBak ->
             IF mainEncrypted THEN deleteStaleTmp \o releaseBackup ELSE <<throw>>

\* encrypt() after its recovery, with the commit() it ends in.
conversion ==
  <<simple("openMain", "main"), simple("create", "tmp"), simple("export", "tmp"),
    simple("complete", "tmp"), simple("fsync", "tmp"), simple("opensPlain", "main")>>
    \o promoteWithBackup

-----------------------------------------------------------------------------
NoSwap == [todo |-> <<>>, thrown |-> FALSE]

FileInit ==
  /\ \/ file = [p \in Paths |-> Absent]
     \/ file = [[p \in Paths |-> Absent] EXCEPT !["main"] = Plain]
  /\ side \in {s \in [Paths -> {"none", "plain"}] :
                 \A p \in Paths : s[p] = "plain" => exists(p)}
  /\ swap = NoSwap

\* A question to SQLCipher: the answer may be no for any reason, yes only when
\* the file opens.  A no of a complete file that opens is a fault.
answers(p, k, yes) == yes => exists(p) /\ opens(p, k)
misjudged(p, k, yes) == exists(p) /\ opens(p, k) /\ file[p].full /\ ~yes

hasArtifacts == exists("tmp") \/ exists("bak")

\* recover(verifier): without artifacts nothing; else look at the files, then
\* do what the table says.
recover ==
  /\ swap = NoSwap
  /\ IF ~hasArtifacts THEN UNCHANGED <<swap, faulty>>
     ELSE \E mainEncrypted, mainPlaintext, tmpEncrypted \in BOOLEAN :
             /\ answers("main", passphrase, mainEncrypted)
             /\ answers("main", None, mainPlaintext)
             /\ answers("tmp", passphrase, tmpEncrypted)
             /\ swap' = [NoSwap EXCEPT
                           !.todo = recoveryPlan(mainEncrypted, mainPlaintext, tmpEncrypted)]
             /\ faulty' = \/ faulty
                          \/ misjudged("main", passphrase, mainEncrypted)
                          \/ misjudged("main", None, mainPlaintext)
                          \/ misjudged("tmp", passphrase, tmpEncrypted)
  /\ UNCHANGED <<file, side, mem, disk, active, call, answer, slips>>

beginConversion == swap = NoSwap /\ swap' = [NoSwap EXCEPT !.todo = conversion]

-----------------------------------------------------------------------------
op == Head(swap.todo)
next == swap' = [swap EXCEPT !.todo = Tail(@)]
Doing(what) == swap.todo # <<>> /\ op.do = what

\* The operation fails: what follows is its catch block.
FileStepFails ==
  /\ swap.todo # <<>> /\ op.do # "throw"
  /\ swap' = [swap EXCEPT !.todo = rollback(op.undo)]
  /\ faulty' = TRUE
  /\ UNCHANGED <<file, side, mem, disk, active, call, answer, slips>>

Throw ==
  /\ Doing("throw")
  /\ swap' = [todo |-> <<>>, thrown |-> TRUE]
  /\ UNCHANGED <<file, side, keyVars>>

deleteSidecars ==
  /\ Doing("strip")
  /\ side' = [side EXCEPT ![op.at] = "none"]
  /\ next
  /\ UNCHANGED <<file, keyVars>>

deleteChecked ==
  /\ Doing("drop")
  /\ file' = [file EXCEPT ![op.at] = Absent]
  /\ next
  /\ UNCHANGED <<side, keyVars>>

\* renameChecked(): the source must be there and the target free.
renameChecked ==
  /\ Doing("move")
  /\ IF exists(op.at) /\ ~exists(op.to)
     THEN /\ file' = [file EXCEPT ![op.to] = file[op.at], ![op.at] = Absent]
          /\ next
          /\ slips' = slips \cup {f \in {"hollowCandidate"} :
                                    op.at = "tmp" /\ op.to = "main" /\ ~file["tmp"].full}
     ELSE /\ swap' = [swap EXCEPT !.todo = rollback(op.undo)]
          /\ UNCHANGED <<file, slips>>
  /\ UNCHANGED <<side, mem, disk, active, call, answer, faulty>>

\* A verification inside the line of operations; a file that does not open
\* leads to the catch block without a fault.
Verified ==
  /\ Doing("opensSecret") \/ Doing("opensPlain")
  /\ LET k == IF op.do = "opensPlain" THEN None ELSE passphrase
     IN  IF exists(op.at) /\ opens(op.at, k) THEN next
         ELSE swap' = [swap EXCEPT !.todo = rollback(op.undo)]
  /\ UNCHANGED <<file, side, keyVars>>

fsync == Doing("fsync") /\ next /\ UNCHANGED <<file, side, keyVars>>

\* Mutant: the original is opened for reading, which rolls nothing back.
openOriginalReadOnly ==
  /\ Doing("openMain")
  /\ IF opens("main", None) THEN next ELSE swap' = [swap EXCEPT !.todo = <<throw>>]
  /\ UNCHANGED <<file, side, keyVars>>

\* Opening the original for writing rolls its journal back and closes it.
openOriginal ==
  /\ Doing("openMain")
  /\ IF opens("main", None) THEN next ELSE swap' = [swap EXCEPT !.todo = <<throw>>]
  /\ side' = IF opens("main", None) THEN [side EXCEPT !["main"] = "none"] ELSE side
  /\ UNCHANGED <<file, keyVars>>

createNewFile ==
  /\ Doing("create")
  /\ IF exists("tmp")
     THEN swap' = [swap EXCEPT !.todo = <<throw>>] /\ UNCHANGED file
     ELSE next /\ file' = [file EXCEPT !["tmp"] = Zero]
  /\ UNCHANGED <<side, keyVars>>

\* sqlcipher_export under way, and done.
export ==
  /\ Doing("export")
  /\ file' = [file EXCEPT !["tmp"] = Cipher(passphrase, FALSE)]
  /\ side' = [side EXCEPT !["tmp"] = "cipher"]
  /\ next
  /\ UNCHANGED keyVars

exported ==
  /\ Doing("complete")
  /\ file' = [file EXCEPT !["tmp"] = Cipher(passphrase, file["main"].full)]
  /\ side' = [side EXCEPT !["tmp"] = "none"]
  /\ next
  /\ UNCHANGED keyVars

FileStep ==
  \/ FileStepFails \/ Throw \/ deleteSidecars \/ deleteChecked \/ renameChecked
  \/ Verified \/ fsync \/ openOriginal \/ createNewFile \/ export \/ exported
=============================================================================
