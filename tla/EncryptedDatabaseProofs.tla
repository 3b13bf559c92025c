------------------------ MODULE EncryptedDatabaseProofs ------------------------
(***************************************************************************)
(* Proofs about the start of the encrypted database: the invariant Inv, by *)
(* induction over the steps of EncryptedDatabase, and from it the          *)
(* properties of its run for any set of passphrases.                       *)
(*                                                                         *)
(* FilesInv is about the files.  A conversion or recovery is a straight    *)
(* line of operations, and what is left of each line only fits one shape   *)
(* of which of the three files exist (Stage): a kill at any point leaves   *)
(* one of five shapes, and recover() has a line for each of them.          *)
(* KeysInv is about the passphrase: until one of the known losses, memory  *)
(* and the preference files hold one passphrase between them (KeyInv), and *)
(* what is left of a security call fits what it has already committed      *)
(* (CallInv).                                                              *)
(***************************************************************************)
EXTENDS EncryptedDatabase, TLAPS

-----------------------------------------------------------------------------
(* The lines of file operations, by what is left of them *)

\* releaseBackup, and promoteWithBackup which ends in it; ...
releasing2 == <<drop("bak")>>
releasing1 == <<strip("bak"), drop("bak")>>
promoting6 == <<strip("main"), strip("bak"), drop("bak")>>
promoting5 == <<verify("unswap"), strip("main"), strip("bak"), drop("bak")>>
promoting4 ==
  <<moveElse("tmp", "main", "restore"), verify("unswap"), strip("main"), strip("bak"), drop("bak")>>
promoting3 ==
  <<move("main", "bak"), moveElse("tmp", "main", "restore"), verify("unswap"), strip("main"),
    strip("bak"), drop("bak")>>
promoting2 ==
  <<strip("tmp"), move("main", "bak"), moveElse("tmp", "main", "restore"), verify("unswap"),
    strip("main"), strip("bak"), drop("bak")>>
promoting1 ==
  <<strip("main"), strip("tmp"), move("main", "bak"), moveElse("tmp", "main", "restore"),
    verify("unswap"), strip("main"), strip("bak"), drop("bak")>>

\* ... the recovery of a candidate next to its database, and the conversion, which both
\* end in promoteWithBackup.
recovering ==
  <<simple("fsync", "tmp"),
    strip("main"), strip("tmp"), move("main", "bak"), moveElse("tmp", "main", "restore"),
    verify("unswap"), strip("main"), strip("bak"), drop("bak")>>
converting6 ==
  <<simple("opensPlain", "main"),
    strip("main"), strip("tmp"), move("main", "bak"), moveElse("tmp", "main", "restore"),
    verify("unswap"), strip("main"), strip("bak"), drop("bak")>>
converting5 ==
  <<simple("fsync", "tmp"), simple("opensPlain", "main"),
    strip("main"), strip("tmp"), move("main", "bak"), moveElse("tmp", "main", "restore"),
    verify("unswap"), strip("main"), strip("bak"), drop("bak")>>
converting4 ==
  <<simple("complete", "tmp"), simple("fsync", "tmp"), simple("opensPlain", "main"),
    strip("main"), strip("tmp"), move("main", "bak"), moveElse("tmp", "main", "restore"),
    verify("unswap"), strip("main"), strip("bak"), drop("bak")>>
converting3 ==
  <<simple("export", "tmp"), simple("complete", "tmp"), simple("fsync", "tmp"),
    simple("opensPlain", "main"),
    strip("main"), strip("tmp"), move("main", "bak"), moveElse("tmp", "main", "restore"),
    verify("unswap"), strip("main"), strip("bak"), drop("bak")>>
converting2 ==
  <<simple("create", "tmp"), simple("export", "tmp"), simple("complete", "tmp"),
    simple("fsync", "tmp"), simple("opensPlain", "main"),
    strip("main"), strip("tmp"), move("main", "bak"), moveElse("tmp", "main", "restore"),
    verify("unswap"), strip("main"), strip("bak"), drop("bak")>>
converting1 ==
  <<simple("openMain", "main"), simple("create", "tmp"), simple("export", "tmp"),
    simple("complete", "tmp"), simple("fsync", "tmp"), simple("opensPlain", "main"),
    strip("main"), strip("tmp"), move("main", "bak"), moveElse("tmp", "main", "restore"),
    verify("unswap"), strip("main"), strip("bak"), drop("bak")>>

\* Recovery while the database lies at its backup path: the candidate is promoted,
\* or the backup restored and the candidate deleted.
absent4 == <<verify("unpromote"), strip("main"), strip("bak"), drop("bak")>>
absent3 == <<move("tmp", "main"), verify("unpromote"), strip("main"), strip("bak"), drop("bak")>>
absent2 ==
  <<strip("tmp"), move("tmp", "main"), verify("unpromote"), strip("main"), strip("bak"),
    drop("bak")>>
absent1 ==
  <<simple("fsync", "tmp"), strip("tmp"), move("tmp", "main"), verify("unpromote"),
    strip("main"), strip("bak"), drop("bak")>>
stale2 == <<drop("tmp")>>
stale1 == <<strip("tmp"), drop("tmp")>>
restoring5 == <<strip("tmp"), strip("tmp"), drop("tmp")>>
restoring4 == <<strip("bak"), strip("tmp"), strip("tmp"), drop("tmp")>>
restoring3 == <<strip("main"), strip("bak"), strip("tmp"), strip("tmp"), drop("tmp")>>
restoring2 ==
  <<move("bak", "main"), strip("main"), strip("bak"), strip("tmp"), strip("tmp"), drop("tmp")>>
restoring1 ==
  <<simple("opensPlain", "bak"), move("bak", "main"), strip("main"), strip("bak"), strip("tmp"),
    strip("tmp"), drop("tmp")>>

\* The catch blocks.
throwing == <<throw>>
unpromoting == <<move("main", "tmp"), throw>>
unmoving == <<move("bak", "main"), throw>>
unswapping3 == <<strip("main"), throw>>
unswapping2 == <<move("bak", "main"), strip("main"), throw>>
unswapping1 == <<move("main", "tmp"), move("bak", "main"), strip("main"), throw>>

\* Which of the database, its candidate and its backup exist.
shape(f) == <<f["main"].is # "absent", f["tmp"].is # "absent", f["bak"].is # "absent">>

\* The five that occur: nothing, a database, a database and its candidate, a candidate
\* and a backup, the promoted candidate and a backup.
Shapes ==
  {<<FALSE, FALSE, FALSE>>, <<TRUE, FALSE, FALSE>>, <<TRUE, TRUE, FALSE>>,
   <<FALSE, TRUE, TRUE>>, <<TRUE, FALSE, TRUE>>}

ShapeInv == shape(file) \in Shapes

\* The lines of a database and its candidate, of one moved to its backup path, and of a
\* promoted candidate.
BothThere ==
  {converting3, converting4, converting5, converting6, recovering, promoting1, promoting2,
   promoting3, restoring3, restoring4, restoring5, stale1, stale2, unswapping3}
MainMoved ==
  {promoting4, absent1, absent2, absent3, restoring1, restoring2, unmoving, unswapping2}
Promoted ==
  {promoting5, absent4, promoting6, releasing1, releasing2, unpromoting, unswapping1}

\* What is left to do fits the files that are there; an empty line and a throw always do.
Stage(f, todo) ==
  \/ todo \in {<<>>, throwing}
  \/ shape(f) = <<TRUE, FALSE, FALSE>> /\ todo \in {converting1, converting2}
  \/ shape(f) = <<TRUE, TRUE, FALSE>> /\ todo \in BothThere
  \/ shape(f) = <<FALSE, TRUE, TRUE>> /\ todo \in MainMoved
  \/ shape(f) = <<TRUE, FALSE, TRUE>> /\ todo \in Promoted

StageInv == Stage(file, swap.todo)

\* The lines of the catch blocks, and the others.
Throwing == {throwing, unpromoting, unmoving, unswapping1, unswapping2, unswapping3}
Going ==
  {converting1, converting2, converting3, converting4, converting5, converting6, recovering,
   promoting1, promoting2, promoting3, promoting4, promoting5, promoting6, releasing1,
   releasing2, absent1, absent2, absent3, absent4, restoring1, restoring2, restoring3,
   restoring4, restoring5, stale1, stale2}

\* Nothing is left to do after a throw.
ThrownInv == swap.thrown => swap.todo = <<>>

\* What can be at a path.
Contents == {Absent, Zero, Plain} \cup {Cipher(k, full) : k \in Keys, full \in BOOLEAN}

TypeInv ==
  /\ mem \in Prefs /\ disk \in Prefs
  /\ active \in Stores \cup {"none"}
  /\ answer \in {"none", "failed", "cancelled", "enabled", "disabled"}
  /\ faulty \in BOOLEAN
  /\ file \in [Paths -> Contents]
  /\ side \in [Paths -> {"none", "plain", "cipher"}]
  /\ swap = [todo |-> swap.todo, thrown |-> swap.thrown] /\ swap.thrown \in BOOLEAN
  /\ start \in [at : Phases, secretStored : BOOLEAN, existing : BOOLEAN, encrypted : BOOLEAN]
  /\ hasData \in BOOLEAN

-----------------------------------------------------------------------------
(* The security calls, by what is left of them *)

gating == <<use("protected")>>
enabling4 == <<write("mode", "ENABLED"), use("protected")>>
enabling3 == <<write("disabled", None), write("mode", "ENABLED"), use("protected")>>
enabling2(s) == <<write("protected", s), write("disabled", None), write("mode", "ENABLED"),
                  use("protected")>>
opening == <<write("disabled", None), use("protected")>>
backing2 == <<use("disabled")>>
backing1 == <<write("mode", "DISABLED"), use("disabled")>>
disabling3 == <<write("protected", None), use("disabled")>>
disabling2 == <<write("mode", "DISABLED"), write("protected", None), use("disabled")>>

\* What a call still has to do fits what memory and files hold by now; the passphrase of a
\* disable() that completes a move first is the protected copy.
CallInv ==
  \/ call = <<>>
  \/ /\ call = backing2
     /\ mem.mode = "DISABLED"
     /\ start.at = "prepare" \/ mem.disabled # None
  \/ /\ call = backing1
     /\ mem.mode = "ENABLING" /\ mem.disabled # None /\ mem.protected = None
  \/ /\ call = disabling3
     /\ mem.mode = "DISABLED" /\ mem.disabled # None
     /\ disk.mode = "DISABLED" /\ disk.disabled = mem.disabled
  \/ /\ call = disabling2
     /\ mem.mode = "ENABLED" /\ mem.disabled # None /\ disk.disabled = mem.disabled
  \/ /\ mem.protected # None
     /\ \/ call = disable(mem.protected) /\ mem.mode = "ENABLED"
        \/ /\ call \in {gating, gating \o disable(mem.protected)}
           /\ mem.mode = "ENABLED" /\ mem.disabled = None
        \/ /\ call \in {enabling4, enabling4 \o disable(mem.protected)}
           /\ mem.mode = "ENABLING" /\ mem.disabled = None
        \/ /\ call \in {enabling3, enabling3 \o disable(mem.protected)}
           /\ mem.mode = "ENABLING" /\ mem.disabled = mem.protected
        \/ /\ call = opening
           /\ mem.mode = "ENABLED" /\ mem.disabled = mem.protected
  \/ /\ mem.disabled # None
     /\ \/ call = enable(mem.disabled) /\ mem.mode = "DISABLED" /\ start.at = "running"
        \/ call = enabling2(mem.disabled) /\ mem.mode = "ENABLING" /\ disk.mode = "ENABLING"
  \/ /\ start.at = "key" /\ passphrase = None /\ active = "disabled"
     /\ \E k \in Keys : call = <<write("disabled", k)>>

\* One of the known losses has happened.
Lost == slips \cap Losses # {}
\* The passphrases that memory and files hold.
Held == {mem.disabled, mem.protected, disk.disabled, disk.protected} \ {None}

\* Without a loss there is at most one passphrase, and neither a failed commit nor a kill
\* leaves a mode that has none: the mode reads DISABLED with no ordinary copy only when
\* there is no passphrase at all.
KeyInv ==
  ~Lost =>
    /\ \A a, b \in Held : a = b
    /\ disk.mode = "DISABLED" /\ disk.disabled = None => disk.protected = None
    /\ mem.mode = "DISABLED" /\ mem.disabled = None => Held = {}
    /\ mem.mode = "ENABLING" => mem.disabled # None \/ mem.protected # None
    /\ disk.mode = "ENABLING" => disk.disabled # None \/ disk.protected # None
    /\ mem.protected = None /\ disk.protected # None => disk.disabled # None

\* The mode is ENABLED only where there is a protected copy.
ModeInv ==
  "phantomCopy" \notin slips =>
    /\ mem.mode = "ENABLED" => mem.protected # None
    /\ disk.mode = "ENABLED" => disk.protected # None

\* None of the slips that EnabledMeansGated excuses has happened: then memory without an
\* ordinary copy tells the truth about the file, and about the protected copy.
Clean == slips \subseteq {"phantomKey", "hollowCandidate"}
GateInv ==
  Clean =>
    /\ mem.disabled = None => disk.disabled = None /\ mem.protected = disk.protected
    /\ mem.disabled = None /\ mem.mode # "DISABLED" => disk.mode # "DISABLED"
    /\ answer = "enabled" /\ call = <<>> =>
         mem.mode = "ENABLED" /\ mem.disabled = None /\ mem.protected # None

-----------------------------------------------------------------------------
(* The phases of the start *)

\* Where file operations are under way, and where the files have been recovered.
SwapPhases == {"exists", "swap"}
Probed == {"exists", "encrypted", "ensure", "key", "open", "convert", "swap", "attach", "running"}

\* What each phase of the start has found out still holds.
PhaseInv ==
  /\ call # <<>> => start.at \in {"prepare", "key", "running"}
  /\ call # <<>> /\ start.at = "key" => \E k \in Keys : call = <<write("disabled", k)>>
  /\ swap # NoSwap => start.at \in SwapPhases
  /\ swap = NoSwap /\ start.at \in Probed => ~hasArtifacts
  /\ start.at = "down" => ~start.existing /\ ~start.encrypted
  /\ start.at \in {"prepare", "exists"} => ~start.existing /\ ~start.encrypted
  /\ start.at = "encrypted" => start.existing /\ ~start.encrypted
  /\ start.at \in {"ensure", "key", "open", "convert"} /\ swap = NoSwap =>
       /\ ~start.existing => ~exists("main")
       /\ start.existing /\ ~start.encrypted => opens("main", None)
       /\ start.existing /\ start.encrypted => file["main"].is = "cipher"
  /\ start.at = "encrypted" /\ swap = NoSwap => exists("main")
  /\ start.at = "convert" => start.existing /\ ~start.encrypted
  /\ start.at = "attach" => file["main"].is \in {"absent", "cipher"}
  /\ start.at = "running" => file["main"].is = "cipher"

\* prepareKeyAccess() has succeeded.
prepared == start.at = "prepare" /\ call = <<>> /\ answer \in {"enabled", "disabled"}

\* The prepared store is the one that holds the passphrase, if there is one.
ActiveInv ==
  /\ prepared \/ start.at \in Probed => active # "none"
  /\ prepared \/ start.at \in {"exists", "encrypted", "ensure", "key"} =>
       /\ active = "protected" => mem.protected # None
       /\ active = "disabled" /\ mem.disabled = None => mem.mode = "DISABLED"
  /\ start.at \in {"exists", "encrypted", "ensure"} => (start.secretStored <=> passphrase # None)
  /\ start.at = "key" /\ call = <<>> /\ answer # "failed" => passphrase # None
  /\ start.at \in {"open", "convert", "swap", "attach"} => passphrase # None

\* The lines of a recovery: a conversion is under way in its phase only, ...
RecoveryLines ==
  {recovering, promoting1, promoting2, promoting3, promoting4, promoting5, promoting6,
   releasing1, releasing2, absent1, absent2, absent3, absent4, restoring1, restoring2,
   restoring3, restoring4, restoring5, stale1, stale2} \cup Throwing

RecoveryInv == start.at # "swap" => swap.todo \in {<<>>} \cup RecoveryLines

\* ... where the original is open until there is a candidate, and once the candidate is
\* exported, it or the database is encrypted under a passphrase that is on file.
ConvertInv ==
  start.at = "swap" =>
    /\ \/ swap.todo \in {converting1, converting2} /\ opens("main", None)
       \/ swap.todo \in {converting3, converting4}
       \/ /\ swap.todo \in {converting5, converting6, promoting1, promoting2, promoting3,
                            promoting4}
          /\ file["tmp"].is = "cipher"
       \/ /\ swap.todo \in {promoting5, promoting6, releasing1, releasing2} \/ swap = NoSwap
          /\ file["main"].is = "cipher"
       \/ swap.todo \in Throwing \/ swap.thrown
    /\ ~Lost => disk[active] = passphrase

\* The journal of the database is there only before a conversion has rolled it back.
SideInv ==
  side["main"] # "none" =>
    ~hasArtifacts /\ swap.todo \in {<<>>, converting1, throwing}

\* Without a loss every encrypted file has a passphrase on file, a backup is the plaintext
\* database, and a promoted file is complete.
FileInv ==
  ~Lost =>
    /\ \A p \in Paths : file[p].is = "cipher" => file[p].key \in {disk.disabled, disk.protected}
    /\ ~exists("main") /\ ~hasArtifacts => ~hasData
    /\ exists("bak") => file["bak"] = Plain
    /\ exists("main") => file["main"].is \in {"plain", "cipher"} /\ file["main"].full
    /\ exists("main") /\ exists("tmp") => file["main"] = Plain
    /\ exists("main") /\ exists("bak") => file["main"].is = "cipher"
    /\ file["tmp"].is # "plain"

\* Without a loss only a failure met since the app was started leads to a catch block, to a
\* refusal or to a failed start.
FaultInv ==
  ~Lost /\ ~faulty =>
    /\ start.at # "failed"
    /\ ~swap.thrown /\ swap.todo \in {<<>>} \cup Going
    /\ start.at \in {"prepare", "key"} => answer # "failed"

FilesInv ==
  /\ TypeInv /\ ShapeInv /\ StageInv /\ ThrownInv
  /\ PhaseInv /\ RecoveryInv /\ ConvertInv /\ SideInv /\ FileInv /\ FaultInv
KeysInv == CallInv /\ KeyInv /\ ModeInv /\ GateInv /\ ActiveInv
Inv == FilesInv /\ KeysInv

-----------------------------------------------------------------------------
(* What the lines consist of *)

\* todo begins with this operation and goes on with rest.
Line(todo, do, at, to, undo, rest) ==
  /\ todo # <<>> /\ Tail(todo) = rest
  /\ Head(todo).do = do /\ Head(todo).at = at /\ Head(todo).to = to /\ Head(todo).undo = undo

\* The operations of every line, one after the other.
LEMMA Lines ==
  /\ Line(converting1, "openMain", "main", "main", "throw", converting2)
  /\ Line(converting2, "create", "tmp", "tmp", "throw", converting3)
  /\ Line(converting3, "export", "tmp", "tmp", "throw", converting4)
  /\ Line(converting4, "complete", "tmp", "tmp", "throw", converting5)
  /\ Line(converting5, "fsync", "tmp", "tmp", "throw", converting6)
  /\ Line(converting6, "opensPlain", "main", "main", "throw", promoting1)
  /\ Line(recovering, "fsync", "tmp", "tmp", "throw", promoting1)
  /\ Line(promoting1, "strip", "main", "main", "throw", promoting2)
  /\ Line(promoting2, "strip", "tmp", "tmp", "throw", promoting3)
  /\ Line(promoting3, "move", "main", "bak", "throw", promoting4)
  /\ Line(promoting4, "move", "tmp", "main", "restore", promoting5)
  /\ Line(promoting5, "opensSecret", "main", "main", "unswap", promoting6)
  /\ Line(promoting6, "strip", "main", "main", "throw", releasing1)
  /\ Line(releasing1, "strip", "bak", "bak", "throw", releasing2)
  /\ Line(releasing2, "drop", "bak", "bak", "throw", <<>>)
  /\ Line(absent1, "fsync", "tmp", "tmp", "throw", absent2)
  /\ Line(absent2, "strip", "tmp", "tmp", "throw", absent3)
  /\ Line(absent3, "move", "tmp", "main", "throw", absent4)
  /\ Line(absent4, "opensSecret", "main", "main", "unpromote", promoting6)
  /\ Line(restoring1, "opensPlain", "bak", "bak", "throw", restoring2)
  /\ Line(restoring2, "move", "bak", "main", "throw", restoring3)
  /\ Line(restoring3, "strip", "main", "main", "throw", restoring4)
  /\ Line(restoring4, "strip", "bak", "bak", "throw", restoring5)
  /\ Line(restoring5, "strip", "tmp", "tmp", "throw", stale1)
  /\ Line(stale1, "strip", "tmp", "tmp", "throw", stale2)
  /\ Line(stale2, "drop", "tmp", "tmp", "throw", <<>>)
  /\ Line(throwing, "throw", "main", "main", "throw", <<>>)
  /\ Line(unpromoting, "move", "main", "tmp", "throw", throwing)
  /\ Line(unmoving, "move", "bak", "main", "throw", throwing)
  /\ Line(unswapping3, "strip", "main", "main", "throw", throwing)
  /\ Line(unswapping2, "move", "bak", "main", "throw", unswapping3)
  /\ Line(unswapping1, "move", "main", "tmp", "throw", unswapping2)
<1> USE DEF Line, simple, strip, drop, moveElse, move, verify, throw
<1>1. Line(converting1, "openMain", "main", "main", "throw", converting2)
  BY DEF converting1, converting2
<1>2. Line(converting2, "create", "tmp", "tmp", "throw", converting3)
  BY DEF converting2, converting3
<1>3. Line(converting3, "export", "tmp", "tmp", "throw", converting4)
  BY DEF converting3, converting4
<1>4. Line(converting4, "complete", "tmp", "tmp", "throw", converting5)
  BY DEF converting4, converting5
<1>5. Line(converting5, "fsync", "tmp", "tmp", "throw", converting6)
  BY DEF converting5, converting6
<1>6. Line(converting6, "opensPlain", "main", "main", "throw", promoting1)
  BY DEF converting6, promoting1
<1>7. Line(recovering, "fsync", "tmp", "tmp", "throw", promoting1)
  BY DEF recovering, promoting1
<1>8. Line(promoting1, "strip", "main", "main", "throw", promoting2)
  BY DEF promoting1, promoting2
<1>9. Line(promoting2, "strip", "tmp", "tmp", "throw", promoting3)
  BY DEF promoting2, promoting3
<1>10. Line(promoting3, "move", "main", "bak", "throw", promoting4)
  BY DEF promoting3, promoting4
<1>11. Line(promoting4, "move", "tmp", "main", "restore", promoting5)
  BY DEF promoting4, promoting5
<1>12. Line(promoting5, "opensSecret", "main", "main", "unswap", promoting6)
  BY DEF promoting5, promoting6
<1>13. Line(promoting6, "strip", "main", "main", "throw", releasing1)
  BY DEF promoting6, releasing1
<1>14. Line(releasing1, "strip", "bak", "bak", "throw", releasing2)
  BY DEF releasing1, releasing2
<1>15. Line(releasing2, "drop", "bak", "bak", "throw", <<>>)
  BY DEF releasing2
<1>16. Line(absent1, "fsync", "tmp", "tmp", "throw", absent2)
  BY DEF absent1, absent2
<1>17. Line(absent2, "strip", "tmp", "tmp", "throw", absent3)
  BY DEF absent2, absent3
<1>18. Line(absent3, "move", "tmp", "main", "throw", absent4)
  BY DEF absent3, absent4
<1>19. Line(absent4, "opensSecret", "main", "main", "unpromote", promoting6)
  BY DEF absent4, promoting6
<1>20. Line(restoring1, "opensPlain", "bak", "bak", "throw", restoring2)
  BY DEF restoring1, restoring2
<1>21. Line(restoring2, "move", "bak", "main", "throw", restoring3)
  BY DEF restoring2, restoring3
<1>22. Line(restoring3, "strip", "main", "main", "throw", restoring4)
  BY DEF restoring3, restoring4
<1>23. Line(restoring4, "strip", "bak", "bak", "throw", restoring5)
  BY DEF restoring4, restoring5
<1>24. Line(restoring5, "strip", "tmp", "tmp", "throw", stale1)
  BY DEF restoring5, stale1
<1>25. Line(stale1, "strip", "tmp", "tmp", "throw", stale2)
  BY DEF stale1, stale2
<1>26. Line(stale2, "drop", "tmp", "tmp", "throw", <<>>)
  BY DEF stale2
<1>27. Line(throwing, "throw", "main", "main", "throw", <<>>)
  BY DEF throwing
<1>28. Line(unpromoting, "move", "main", "tmp", "throw", throwing)
  BY DEF unpromoting, throwing
<1>29. Line(unmoving, "move", "bak", "main", "throw", throwing)
  BY DEF unmoving, throwing
<1>30. Line(unswapping3, "strip", "main", "main", "throw", throwing)
  BY DEF unswapping3, throwing
<1>31. Line(unswapping2, "move", "bak", "main", "throw", unswapping3)
  BY DEF unswapping2, unswapping3
<1>32. Line(unswapping1, "move", "main", "tmp", "throw", unswapping2)
  BY DEF unswapping1, unswapping2
<1> QED
  BY <1>1, <1>2, <1>3, <1>4, <1>5, <1>6, <1>7, <1>8, <1>9, <1>10, <1>11, <1>12, <1>13, <1>14,
     <1>15, <1>16, <1>17, <1>18, <1>19, <1>20, <1>21, <1>22, <1>23, <1>24, <1>25, <1>26, <1>27,
     <1>28, <1>29, <1>30, <1>31, <1>32

\* A concatenation is told by its elements.
LEMMA Joined ==
  ASSUME NEW s, NEW t, NEW u, NEW S, s \in Seq(S), t \in Seq(S), u \in Seq(S),
         Len(u) = Len(s) + Len(t),
         \A i \in 1 .. Len(s) : u[i] = s[i],
         \A i \in 1 .. Len(t) : u[Len(s) + i] = t[i]
  PROVE  s \o t = u
<1>1. s \o t \in Seq(S) /\ Len(s \o t) = Len(u)
  OBVIOUS
<1>2. \A i \in 1 .. Len(u) : (s \o t)[i] = u[i]
  OBVIOUS
<1> QED BY <1>1, <1>2

\* Concatenations of so many and so many elements.
LEMMA Joined62 ==
  ASSUME NEW a1, NEW a2, NEW a3, NEW a4, NEW a5, NEW a6, NEW b1, NEW b2
  PROVE  <<a1, a2, a3, a4, a5, a6>> \o <<b1, b2>>
           = <<a1, a2, a3, a4, a5, a6, b1, b2>>
<1> DEFINE s == <<a1, a2, a3, a4, a5, a6>>
           t == <<b1, b2>>
           u == <<a1, a2, a3, a4, a5, a6, b1, b2>>
           S == {a1, a2, a3, a4, a5, a6, b1, b2}
<1>1. s \in Seq(S) /\ t \in Seq(S) /\ u \in Seq(S) /\ Len(u) = Len(s) + Len(t)
  OBVIOUS
<1>2. \A i \in 1 .. Len(s) : u[i] = s[i]
  OBVIOUS
<1>3. \A i \in 1 .. Len(t) : u[Len(s) + i] = t[i]
  OBVIOUS
<1>4. s \o t = u
  <2> HIDE DEF s, t, u, S
  <2> QED BY <1>1, <1>2, <1>3, Joined
<1> QED BY <1>4

LEMMA Joined18 ==
  ASSUME NEW a1, NEW b1, NEW b2, NEW b3, NEW b4, NEW b5, NEW b6, NEW b7, NEW b8
  PROVE  <<a1>> \o <<b1, b2, b3, b4, b5, b6, b7, b8>>
           = <<a1, b1, b2, b3, b4, b5, b6, b7, b8>>
<1> DEFINE s == <<a1>>
           t == <<b1, b2, b3, b4, b5, b6, b7, b8>>
           u == <<a1, b1, b2, b3, b4, b5, b6, b7, b8>>
           S == {a1, b1, b2, b3, b4, b5, b6, b7, b8}
<1>1. s \in Seq(S) /\ t \in Seq(S) /\ u \in Seq(S) /\ Len(u) = Len(s) + Len(t)
  OBVIOUS
<1>2. \A i \in 1 .. Len(s) : u[i] = s[i]
  OBVIOUS
<1>3. \A i \in 1 .. Len(t) : u[Len(s) + i] = t[i]
  OBVIOUS
<1>4. s \o t = u
  <2> HIDE DEF s, t, u, S
  <2> QED BY <1>1, <1>2, <1>3, Joined
<1> QED BY <1>4

LEMMA Joined68 ==
  ASSUME NEW a1, NEW a2, NEW a3, NEW a4, NEW a5, NEW a6, NEW b1, NEW b2, NEW b3, NEW b4,
         NEW b5, NEW b6, NEW b7, NEW b8
  PROVE  <<a1, a2, a3, a4, a5, a6>> \o <<b1, b2, b3, b4, b5, b6, b7, b8>>
           = <<a1, a2, a3, a4, a5, a6, b1, b2, b3, b4, b5, b6, b7, b8>>
<1> DEFINE s == <<a1, a2, a3, a4, a5, a6>>
           t == <<b1, b2, b3, b4, b5, b6, b7, b8>>
           u == <<a1, a2, a3, a4, a5, a6, b1, b2, b3, b4, b5, b6, b7, b8>>
           S == {a1, a2, a3, a4, a5, a6, b1, b2, b3, b4, b5, b6, b7, b8}
<1>1. s \in Seq(S) /\ t \in Seq(S) /\ u \in Seq(S) /\ Len(u) = Len(s) + Len(t)
  OBVIOUS
<1>2. \A i \in 1 .. Len(s) : u[i] = s[i]
  OBVIOUS
<1>3. \A i \in 1 .. Len(t) : u[Len(s) + i] = t[i]
  OBVIOUS
<1>4. s \o t = u
  <2> HIDE DEF s, t, u, S
  <2> QED BY <1>1, <1>2, <1>3, Joined
<1> QED BY <1>4

LEMMA Joined14 ==
  ASSUME NEW a1, NEW b1, NEW b2, NEW b3, NEW b4
  PROVE  <<a1>> \o <<b1, b2, b3, b4>>
           = <<a1, b1, b2, b3, b4>>
<1> DEFINE s == <<a1>>
           t == <<b1, b2, b3, b4>>
           u == <<a1, b1, b2, b3, b4>>
           S == {a1, b1, b2, b3, b4}
<1>1. s \in Seq(S) /\ t \in Seq(S) /\ u \in Seq(S) /\ Len(u) = Len(s) + Len(t)
  OBVIOUS
<1>2. \A i \in 1 .. Len(s) : u[i] = s[i]
  OBVIOUS
<1>3. \A i \in 1 .. Len(t) : u[Len(s) + i] = t[i]
  OBVIOUS
<1>4. s \o t = u
  <2> HIDE DEF s, t, u, S
  <2> QED BY <1>1, <1>2, <1>3, Joined
<1> QED BY <1>4

LEMMA Joined52 ==
  ASSUME NEW a1, NEW a2, NEW a3, NEW a4, NEW a5, NEW b1, NEW b2
  PROVE  <<a1, a2, a3, a4, a5>> \o <<b1, b2>>
           = <<a1, a2, a3, a4, a5, b1, b2>>
<1> DEFINE s == <<a1, a2, a3, a4, a5>>
           t == <<b1, b2>>
           u == <<a1, a2, a3, a4, a5, b1, b2>>
           S == {a1, a2, a3, a4, a5, b1, b2}
<1>1. s \in Seq(S) /\ t \in Seq(S) /\ u \in Seq(S) /\ Len(u) = Len(s) + Len(t)
  OBVIOUS
<1>2. \A i \in 1 .. Len(s) : u[i] = s[i]
  OBVIOUS
<1>3. \A i \in 1 .. Len(t) : u[Len(s) + i] = t[i]
  OBVIOUS
<1>4. s \o t = u
  <2> HIDE DEF s, t, u, S
  <2> QED BY <1>1, <1>2, <1>3, Joined
<1> QED BY <1>4

\* The line of a promotion with a backup, and what is put before it.
LEMMA PromotionLine ==
  /\ promoteWithBackup = promoting1
  /\ <<simple("fsync", "tmp")>> \o promoting1 = recovering
  /\ conversion = converting1
<1>1. promoteWithBackup = promoting1
  BY Joined62 DEF promoteWithBackup, releaseBackup, promoting1
<1>2. <<simple("fsync", "tmp")>> \o promoting1 = recovering
  BY Joined18 DEF promoting1, recovering
<1>3. conversion = converting1
  BY <1>1, Joined68 DEF conversion, promoting1, converting1
<1> QED BY <1>1, <1>2, <1>3

\* The lines of a recovery whose database is at its backup path.
LEMMA AbsentLines ==
  /\ (<<simple("fsync", "tmp")>> \o promoteIntoAbsentMain) \o releaseBackup = absent1
  /\ restoreBackup \o deleteStaleTmp = restoring1
  /\ releaseBackup = releasing1
  /\ deleteStaleTmp = stale1
<1>1. <<simple("fsync", "tmp")>> \o promoteIntoAbsentMain
        = <<simple("fsync", "tmp"), strip("tmp"), move("tmp", "main"), verify("unpromote"),
            strip("main")>>
  BY Joined14 DEF promoteIntoAbsentMain
<1>2. (<<simple("fsync", "tmp")>> \o promoteIntoAbsentMain) \o releaseBackup = absent1
  <2>1. <<simple("fsync", "tmp"), strip("tmp"), move("tmp", "main"), verify("unpromote"),
          strip("main")>> \o releaseBackup = absent1
    BY Joined52 DEF releaseBackup, absent1
  <2> QED BY <1>1, <2>1
<1>3. restoreBackup \o deleteStaleTmp = restoring1
  BY Joined52 DEF restoreBackup, deleteStaleTmp, restoring1
<1> QED BY <1>2, <1>3 DEF releaseBackup, deleteStaleTmp, releasing1, stale1

\* Every plan of a recovery is one of these lines, for the files that are there.
LEMMA RecoveryFits ==
  ASSUME ShapeInv, NEW e \in BOOLEAN, NEW p \in BOOLEAN, NEW t \in BOOLEAN
  PROVE  LET plan == recoveryPlan(e, p, t)
         IN  \/ ~hasArtifacts /\ plan = <<>>
             \/ /\ shape(file) = <<TRUE, TRUE, FALSE>>
                /\ \/ (e \/ (p /\ ~t)) /\ plan = stale1
                   \/ ~e /\ p /\ t /\ plan = recovering
                   \/ ~e /\ ~p /\ plan = throwing
             \/ /\ shape(file) = <<FALSE, TRUE, TRUE>>
                /\ plan \in {absent1, restoring1}
             \/ /\ shape(file) = <<TRUE, FALSE, TRUE>>
                /\ \/ e /\ plan = releasing1
                   \/ ~e /\ plan = throwing
<1> USE DEF exists, hasArtifacts
<1>1. CASE shape(file) \in {<<FALSE, FALSE, FALSE>>, <<TRUE, FALSE, FALSE>>}
  BY <1>1 DEF shape, recoveryPlan
<1>2. CASE shape(file) = <<TRUE, TRUE, FALSE>>
  <2>1. promoteRecoveryCandidate = recovering
    BY <1>2, PromotionLine DEF shape, promoteRecoveryCandidate
  <2>2. file["main"].is # "absent" /\ file["tmp"].is # "absent" /\ file["bak"].is = "absent"
    BY <1>2 DEF shape
  <2> QED BY <1>2, <2>1, <2>2, AbsentLines DEF recoveryPlan, throwing
<1>3. CASE shape(file) = <<FALSE, TRUE, TRUE>>
  <2>2. file["main"].is = "absent" /\ file["tmp"].is # "absent" /\ file["bak"].is # "absent"
    BY <1>3 DEF shape
  <2>1. promoteRecoveryCandidate \o releaseBackup = absent1
    BY <2>2, AbsentLines DEF promoteRecoveryCandidate
  <2> QED BY <1>3, <2>1, <2>2, AbsentLines DEF recoveryPlan
<1>4. CASE shape(file) = <<TRUE, FALSE, TRUE>>
  <2>2. file["main"].is # "absent" /\ file["tmp"].is = "absent" /\ file["bak"].is # "absent"
    BY <1>4 DEF shape
  <2> QED BY <1>4, <2>2, AbsentLines DEF recoveryPlan, throwing
<1> QED BY <1>1, <1>2, <1>3, <1>4 DEF ShapeInv, Shapes

-----------------------------------------------------------------------------
(* The operations and where they stand *)

AllLines == Going \cup Throwing

\* What a line can begin with, and the operations that change which files there are
\* or end a line.
LEMMA Kinds ==
  ASSUME NEW todo \in AllLines
  PROVE  /\ todo # <<>>
         /\ Head(todo).do = "openMain" <=> todo = converting1
         /\ Head(todo).do = "create" <=> todo = converting2
         /\ Head(todo).do = "export" <=> todo = converting3
         /\ Head(todo).do = "complete" <=> todo = converting4
         /\ Head(todo).do = "drop" <=> todo \in {releasing2, stale2}
         /\ Head(todo).do = "throw" <=> todo = throwing
         /\ Head(todo).do = "move" <=>
              todo \in {promoting3, promoting4, absent3, restoring2, unpromoting, unmoving,
                        unswapping1, unswapping2}
         /\ Head(todo).do = "opensPlain" <=> todo \in {converting6, restoring1}
         /\ Head(todo).do = "opensSecret" <=> todo \in {promoting5, absent4}
         /\ Head(todo).do = "fsync" <=> todo \in {converting5, recovering, absent1}
         /\ Head(todo).do = "strip" <=>
              todo \in {promoting1, promoting2, promoting6, releasing1, absent2, restoring3,
                        restoring4, restoring5, stale1, unswapping3}
<1>1. /\ Head(converting1).do = "openMain" /\ converting1 # <<>>
      /\ Head(converting2).do = "create" /\ converting2 # <<>>
      /\ Head(converting3).do = "export" /\ converting3 # <<>>
      /\ Head(converting4).do = "complete" /\ converting4 # <<>>
      /\ Head(converting5).do = "fsync" /\ converting5 # <<>>
      /\ Head(converting6).do = "opensPlain" /\ converting6 # <<>>
      /\ Head(recovering).do = "fsync" /\ recovering # <<>>
      /\ Head(promoting1).do = "strip" /\ promoting1 # <<>>
      /\ Head(promoting2).do = "strip" /\ promoting2 # <<>>
      /\ Head(promoting3).do = "move" /\ promoting3 # <<>>
      /\ Head(promoting4).do = "move" /\ promoting4 # <<>>
      /\ Head(promoting5).do = "opensSecret" /\ promoting5 # <<>>
      /\ Head(promoting6).do = "strip" /\ promoting6 # <<>>
      /\ Head(releasing1).do = "strip" /\ releasing1 # <<>>
      /\ Head(releasing2).do = "drop" /\ releasing2 # <<>>
      /\ Head(absent1).do = "fsync" /\ absent1 # <<>>
      /\ Head(absent2).do = "strip" /\ absent2 # <<>>
      /\ Head(absent3).do = "move" /\ absent3 # <<>>
      /\ Head(absent4).do = "opensSecret" /\ absent4 # <<>>
      /\ Head(restoring1).do = "opensPlain" /\ restoring1 # <<>>
      /\ Head(restoring2).do = "move" /\ restoring2 # <<>>
      /\ Head(restoring3).do = "strip" /\ restoring3 # <<>>
      /\ Head(restoring4).do = "strip" /\ restoring4 # <<>>
      /\ Head(restoring5).do = "strip" /\ restoring5 # <<>>
      /\ Head(stale1).do = "strip" /\ stale1 # <<>>
      /\ Head(stale2).do = "drop" /\ stale2 # <<>>
      /\ Head(throwing).do = "throw" /\ throwing # <<>>
      /\ Head(unpromoting).do = "move" /\ unpromoting # <<>>
      /\ Head(unmoving).do = "move" /\ unmoving # <<>>
      /\ Head(unswapping3).do = "strip" /\ unswapping3 # <<>>
      /\ Head(unswapping2).do = "move" /\ unswapping2 # <<>>
      /\ Head(unswapping1).do = "move" /\ unswapping1 # <<>>
  BY Lines DEF Line
<1> USE DEF AllLines, Going, Throwing
<1>2. Head(todo).do = "openMain" <=> todo = converting1
  BY <1>1
<1>3. Head(todo).do = "create" <=> todo = converting2
  BY <1>1
<1>4. Head(todo).do = "export" <=> todo = converting3
  BY <1>1
<1>5. Head(todo).do = "complete" <=> todo = converting4
  BY <1>1
<1>6. Head(todo).do = "drop" <=> todo \in {releasing2, stale2}
  BY <1>1
<1>7. Head(todo).do = "throw" <=> todo = throwing
  BY <1>1
<1>8. Head(todo).do = "move" <=>
         todo \in {promoting3, promoting4, absent3, restoring2, unpromoting, unmoving,
                  unswapping2, unswapping1}
  BY <1>1
<1>9. Head(todo).do = "opensPlain" <=> todo \in {converting6, restoring1}
  BY <1>1
<1>10. Head(todo).do = "opensSecret" <=> todo \in {promoting5, absent4}
  BY <1>1
<1>11. Head(todo).do = "fsync" <=> todo \in {converting5, recovering, absent1}
  BY <1>1
<1>12. Head(todo).do = "strip" <=>
         todo \in {promoting1, promoting2, promoting6, releasing1, absent2, restoring3,
                  restoring4, restoring5, stale1, unswapping3}
  BY <1>1
<1>13. todo # <<>>
  BY <1>1
<1> QED BY <1>2, <1>3, <1>4, <1>5, <1>6, <1>7, <1>8, <1>9, <1>10, <1>11, <1>12, <1>13

\* What is left to do is one of the lines.
LEMMA StageLines == StageInv => swap.todo \in {<<>>} \cup AllLines
BY DEF StageInv, Stage, BothThere, MainMoved, Promoted, AllLines, Going, Throwing

\* What follows the first operation of every line.
LEMMA Tails ==
  /\ Tail(converting1) = converting2
  /\ Tail(converting2) = converting3
  /\ Tail(converting3) = converting4
  /\ Tail(converting4) = converting5
  /\ Tail(converting5) = converting6
  /\ Tail(converting6) = promoting1
  /\ Tail(recovering) = promoting1
  /\ Tail(promoting1) = promoting2
  /\ Tail(promoting2) = promoting3
  /\ Tail(promoting3) = promoting4
  /\ Tail(promoting4) = promoting5
  /\ Tail(promoting5) = promoting6
  /\ Tail(promoting6) = releasing1
  /\ Tail(releasing1) = releasing2
  /\ Tail(releasing2) = <<>>
  /\ Tail(absent1) = absent2
  /\ Tail(absent2) = absent3
  /\ Tail(absent3) = absent4
  /\ Tail(absent4) = promoting6
  /\ Tail(restoring1) = restoring2
  /\ Tail(restoring2) = restoring3
  /\ Tail(restoring3) = restoring4
  /\ Tail(restoring4) = restoring5
  /\ Tail(restoring5) = stale1
  /\ Tail(stale1) = stale2
  /\ Tail(stale2) = <<>>
  /\ Tail(throwing) = <<>>
  /\ Tail(unpromoting) = throwing
  /\ Tail(unmoving) = throwing
  /\ Tail(unswapping3) = throwing
  /\ Tail(unswapping2) = unswapping3
  /\ Tail(unswapping1) = unswapping2
BY Lines DEF Line

\* Every line has an operation left.
LEMMA Nonempty ==
  /\ converting1 # <<>>
  /\ converting2 # <<>>
  /\ converting3 # <<>>
  /\ converting4 # <<>>
  /\ converting5 # <<>>
  /\ converting6 # <<>>
  /\ recovering # <<>>
  /\ promoting1 # <<>>
  /\ promoting2 # <<>>
  /\ promoting3 # <<>>
  /\ promoting4 # <<>>
  /\ promoting5 # <<>>
  /\ promoting6 # <<>>
  /\ releasing1 # <<>>
  /\ releasing2 # <<>>
  /\ absent1 # <<>>
  /\ absent2 # <<>>
  /\ absent3 # <<>>
  /\ absent4 # <<>>
  /\ restoring1 # <<>>
  /\ restoring2 # <<>>
  /\ restoring3 # <<>>
  /\ restoring4 # <<>>
  /\ restoring5 # <<>>
  /\ stale1 # <<>>
  /\ stale2 # <<>>
  /\ throwing # <<>>
  /\ unpromoting # <<>>
  /\ unmoving # <<>>
  /\ unswapping3 # <<>>
  /\ unswapping2 # <<>>
  /\ unswapping1 # <<>>
BY Lines DEF Line

\* The first operation of every line.
LEMMA Heads ==
  /\ Head(converting1).do = "openMain" /\ Head(converting1).at = "main"
  /\ Head(converting2).do = "create" /\ Head(converting2).at = "tmp"
  /\ Head(converting3).do = "export" /\ Head(converting3).at = "tmp"
  /\ Head(converting4).do = "complete" /\ Head(converting4).at = "tmp"
  /\ Head(converting5).do = "fsync" /\ Head(converting5).at = "tmp"
  /\ Head(converting6).do = "opensPlain" /\ Head(converting6).at = "main"
  /\ Head(recovering).do = "fsync" /\ Head(recovering).at = "tmp"
  /\ Head(promoting1).do = "strip" /\ Head(promoting1).at = "main"
  /\ Head(promoting2).do = "strip" /\ Head(promoting2).at = "tmp"
  /\ Head(promoting3).do = "move" /\ Head(promoting3).at = "main"
  /\ Head(promoting4).do = "move" /\ Head(promoting4).at = "tmp"
  /\ Head(promoting5).do = "opensSecret" /\ Head(promoting5).at = "main"
  /\ Head(promoting6).do = "strip" /\ Head(promoting6).at = "main"
  /\ Head(releasing1).do = "strip" /\ Head(releasing1).at = "bak"
  /\ Head(releasing2).do = "drop" /\ Head(releasing2).at = "bak"
  /\ Head(absent1).do = "fsync" /\ Head(absent1).at = "tmp"
  /\ Head(absent2).do = "strip" /\ Head(absent2).at = "tmp"
  /\ Head(absent3).do = "move" /\ Head(absent3).at = "tmp"
  /\ Head(absent4).do = "opensSecret" /\ Head(absent4).at = "main"
  /\ Head(restoring1).do = "opensPlain" /\ Head(restoring1).at = "bak"
  /\ Head(restoring2).do = "move" /\ Head(restoring2).at = "bak"
  /\ Head(restoring3).do = "strip" /\ Head(restoring3).at = "main"
  /\ Head(restoring4).do = "strip" /\ Head(restoring4).at = "bak"
  /\ Head(restoring5).do = "strip" /\ Head(restoring5).at = "tmp"
  /\ Head(stale1).do = "strip" /\ Head(stale1).at = "tmp"
  /\ Head(stale2).do = "drop" /\ Head(stale2).at = "tmp"
  /\ Head(throwing).do = "throw" /\ Head(throwing).at = "main"
  /\ Head(unpromoting).do = "move" /\ Head(unpromoting).at = "main"
  /\ Head(unmoving).do = "move" /\ Head(unmoving).at = "bak"
  /\ Head(unswapping3).do = "strip" /\ Head(unswapping3).at = "main"
  /\ Head(unswapping2).do = "move" /\ Head(unswapping2).at = "bak"
  /\ Head(unswapping1).do = "move" /\ Head(unswapping1).at = "main"
BY Lines DEF Line

\* Where the renames lead.
LEMMA Targets ==
  /\ Head(converting1).to = "main"
  /\ Head(converting2).to = "tmp"
  /\ Head(converting3).to = "tmp"
  /\ Head(converting4).to = "tmp"
  /\ Head(converting5).to = "tmp"
  /\ Head(converting6).to = "main"
  /\ Head(recovering).to = "tmp"
  /\ Head(promoting1).to = "main"
  /\ Head(promoting2).to = "tmp"
  /\ Head(promoting3).to = "bak"
  /\ Head(promoting4).to = "main"
  /\ Head(promoting5).to = "main"
  /\ Head(promoting6).to = "main"
  /\ Head(releasing1).to = "bak"
  /\ Head(releasing2).to = "bak"
  /\ Head(absent1).to = "tmp"
  /\ Head(absent2).to = "tmp"
  /\ Head(absent3).to = "main"
  /\ Head(absent4).to = "main"
  /\ Head(restoring1).to = "bak"
  /\ Head(restoring2).to = "main"
  /\ Head(restoring3).to = "main"
  /\ Head(restoring4).to = "bak"
  /\ Head(restoring5).to = "tmp"
  /\ Head(stale1).to = "tmp"
  /\ Head(stale2).to = "tmp"
  /\ Head(throwing).to = "main"
  /\ Head(unpromoting).to = "tmp"
  /\ Head(unmoving).to = "main"
  /\ Head(unswapping3).to = "main"
  /\ Head(unswapping2).to = "main"
  /\ Head(unswapping1).to = "tmp"
BY Lines DEF Line

-----------------------------------------------------------------------------
(* File operations *)

\* A file operation leaves the keys alone; it may add a slip of its own.
LEMMA KeysUntouched ==
  ASSUME KeysInv, UNCHANGED <<mem, disk, active, call, answer, start>>,
         slips' \in {slips, slips \cup {"hollowCandidate"}}
  PROVE  KeysInv' /\ (~Lost' => ~Lost)
<1>1. ~Lost' => ~Lost
  BY DEF Lost
<1>2. CallInv'
  BY DEF KeysInv, CallInv, passphrase
<1>3. Held' = Held
  BY DEF Held
<1>4. KeyInv'
  BY <1>1, <1>3 DEF KeysInv, KeyInv
<1>5. ModeInv'
  BY DEF KeysInv, ModeInv
<1>6. Clean' => Clean
  BY DEF Clean
<1>7. GateInv'
  BY <1>6 DEF KeysInv, GateInv
<1>8. prepared' = prepared
  BY DEF prepared
<1>9. ActiveInv'
  BY <1>8 DEF KeysInv, ActiveInv, passphrase
<1> QED BY <1>1, <1>2, <1>4, <1>5, <1>7, <1>9 DEF KeysInv

\* An operation that changes no file: the line goes on.
LEMMA LineGoesOn ==
  ASSUME FilesInv, swap.todo \in AllLines,
         Head(swap.todo).do \in {"strip", "fsync", "opensSecret", "opensPlain"},
         next, UNCHANGED <<file, keyVars, start, hasData>>,
         side' \in [Paths -> {"none", "plain", "cipher"}],
         side'["main"] \in {"none", side["main"]}
  PROVE  FilesInv'
<1>1. swap' = [todo |-> Tail(swap.todo), thrown |-> FALSE] /\ swap.todo # <<>> /\ ~swap.thrown
  BY Kinds DEF next, FilesInv, TypeInv, ThrownInv
<1>2. swap'.todo = Tail(swap.todo) /\ swap'.thrown = FALSE
  BY <1>1
<1>3. swap.todo \in
        {converting5, converting6, recovering, promoting1, promoting2, promoting5, promoting6,
         releasing1, absent1, absent2, absent4, restoring1, restoring3, restoring4, restoring5,
         stale1, unswapping3}
  BY Kinds
<1>4. TypeInv'
  BY <1>1, <1>2 DEF FilesInv, TypeInv, keyVars
<1>5. ShapeInv'
  BY DEF FilesInv, ShapeInv
<1>6. StageInv' /\ Tail(swap.todo) # <<>>
  <2>1. swap.todo \notin {<<>>, converting1, converting2, throwing}
    BY <1>1, Kinds
  <2>2. swap.todo \in BothThere => Tail(swap.todo) \in BothThere \cup {throwing}
    <3>1. swap.todo \notin {converting3, converting4, promoting3, stale2}
      BY Kinds
    <3> QED BY <3>1, Tails DEF BothThere
  <2>3. swap.todo \in MainMoved => Tail(swap.todo) \in MainMoved
    <3>1. swap.todo \notin {promoting4, absent3, restoring2, unmoving, unswapping2}
      BY Kinds
    <3> QED BY <3>1, Tails DEF MainMoved
  <2>4. swap.todo \in Promoted => Tail(swap.todo) \in Promoted
    <3>1. swap.todo \notin {releasing2, unpromoting, unswapping1}
      BY Kinds
    <3> QED BY <3>1, Tails DEF Promoted
  <2>5. Tail(swap.todo) # <<>>
    BY <1>3, Tails, Nonempty
  <2> QED BY <2>1, <2>2, <2>3, <2>4, <2>5, <1>2 DEF FilesInv, StageInv, Stage
<1>7. ThrownInv'
  BY <1>2 DEF ThrownInv
<1>8. swap # NoSwap /\ swap' # NoSwap
  BY <1>1, <1>6 DEF NoSwap
<1>9. PhaseInv'
  BY <1>8 DEF FilesInv, PhaseInv, exists, hasArtifacts, opens, keyVars
<1>10. ConvertInv'
  <2> SUFFICES ASSUME start.at = "swap" PROVE ConvertInv'
    BY DEF ConvertInv
  <2>1. (~Lost => disk[active] = passphrase)'
    BY DEF FilesInv, ConvertInv, Lost, passphrase, keyVars
  <2>6. swap.todo \notin {promoting3, promoting4, releasing2, throwing}
    BY Kinds
  <2>2. CASE swap.todo \in {converting5, converting6, promoting1, promoting2, promoting3,
                            promoting4} /\ file["tmp"].is = "cipher"
    <3>1. Tail(swap.todo) \in {converting6, promoting1, promoting2, promoting3}
      BY <2>2, <2>6, Tails
    <3> QED BY <1>2, <2>1, <2>2, <3>1 DEF ConvertInv
  <2>3. CASE swap.todo \in {promoting5, promoting6, releasing1, releasing2}
             /\ file["main"].is = "cipher"
    <3>1. Tail(swap.todo) \in {promoting6, releasing1, releasing2}
      BY <2>3, <2>6, Tails
    <3> QED BY <1>2, <2>1, <2>3, <3>1 DEF ConvertInv
  <2>4. CASE swap.todo \in Throwing
    <3>1. Tail(swap.todo) \in Throwing
      BY <2>4, <2>6, Tails DEF Throwing
    <3> QED BY <1>2, <2>1, <3>1 DEF ConvertInv
  <2>5. swap.todo \notin {converting1, converting2, converting3, converting4}
    BY Kinds
  <2> QED BY <1>1, <1>8, <2>2, <2>3, <2>4, <2>5 DEF FilesInv, ConvertInv
<1>14. RecoveryInv'
  <2>1. swap.todo \in RecoveryLines => Tail(swap.todo) \in RecoveryLines
    <3>1. swap.todo \notin {releasing2, stale2, throwing}
      BY Kinds
    <3> QED BY <3>1, Tails DEF RecoveryLines, Throwing
  <2> QED BY <1>1, <1>2, <2>1 DEF FilesInv, RecoveryInv
<1>11. SideInv'
  <2>1. swap.todo \notin {<<>>, converting1, throwing}
    BY <1>1, Kinds
  <2>2. side["main"] = "none"
    BY <2>1 DEF FilesInv, SideInv
  <2> QED BY <2>2 DEF SideInv
<1>12. FileInv'
  BY DEF FilesInv, FileInv, Lost, exists, hasArtifacts, keyVars
<1>13. FaultInv'
  <2>1. swap.todo \in Going => Tail(swap.todo) \in Going
    <3>1. swap.todo \notin {releasing2, stale2}
      BY Kinds
    <3> QED BY <3>1, Tails DEF Going
  <2> QED BY <1>1, <1>2, <2>1 DEF FilesInv, FaultInv, Lost, keyVars
<1> QED BY <1>4, <1>5, <1>6, <1>7, <1>9, <1>10, <1>11, <1>12, <1>13, <1>14 DEF FilesInv

\* The catch blocks.
LEMMA Rollbacks ==
  /\ rollback("throw") = throwing
  /\ rollback("unpromote") = unpromoting
  /\ rollback("restore") = unmoving
  /\ rollback("unswap") = unswapping1
BY DEF rollback, throwing, unpromoting, unmoving, unswapping1

\* What the catch block of the first operation of every line does.
LEMMA HeadUndos ==
  /\ Head(converting1).undo = "throw"
  /\ Head(converting2).undo = "throw"
  /\ Head(converting3).undo = "throw"
  /\ Head(converting4).undo = "throw"
  /\ Head(converting5).undo = "throw"
  /\ Head(converting6).undo = "throw"
  /\ Head(recovering).undo = "throw"
  /\ Head(promoting1).undo = "throw"
  /\ Head(promoting2).undo = "throw"
  /\ Head(promoting3).undo = "throw"
  /\ Head(promoting4).undo = "restore"
  /\ Head(promoting5).undo = "unswap"
  /\ Head(promoting6).undo = "throw"
  /\ Head(releasing1).undo = "throw"
  /\ Head(releasing2).undo = "throw"
  /\ Head(absent1).undo = "throw"
  /\ Head(absent2).undo = "throw"
  /\ Head(absent3).undo = "throw"
  /\ Head(absent4).undo = "unpromote"
  /\ Head(restoring1).undo = "throw"
  /\ Head(restoring2).undo = "throw"
  /\ Head(restoring3).undo = "throw"
  /\ Head(restoring4).undo = "throw"
  /\ Head(restoring5).undo = "throw"
  /\ Head(stale1).undo = "throw"
  /\ Head(stale2).undo = "throw"
  /\ Head(throwing).undo = "throw"
  /\ Head(unpromoting).undo = "throw"
  /\ Head(unmoving).undo = "throw"
  /\ Head(unswapping3).undo = "throw"
  /\ Head(unswapping2).undo = "throw"
  /\ Head(unswapping1).undo = "throw"
BY Lines DEF Line

\* Each operation with a rollback of its own, and where it stands.
LEMMA Undos ==
  ASSUME NEW todo \in AllLines
  PROVE  \/ Head(todo).undo = "throw"
         \/ Head(todo).undo = "unpromote" /\ todo = absent4
         \/ Head(todo).undo = "restore" /\ todo = promoting4
         \/ Head(todo).undo = "unswap" /\ todo = promoting5
BY HeadUndos DEF AllLines, Going, Throwing

\* Every failure of an operation leads to a catch block that fits the files.
LEMMA LineBreaks ==
  ASSUME FilesInv, swap.todo \in AllLines,
         swap' = [swap EXCEPT !.todo = rollback(op.undo)],
         UNCHANGED <<file, side, mem, disk, active, call, answer, slips, start, hasData>>,
         faulty' \in BOOLEAN, Lost \/ faulty'
  PROVE  FilesInv'
<1>1. swap' = [todo |-> rollback(op.undo), thrown |-> FALSE] /\ swap.todo # <<>> /\ ~swap.thrown
  BY Kinds DEF FilesInv, TypeInv, ThrownInv
<1>2. swap'.todo = rollback(op.undo) /\ swap'.thrown = FALSE
  BY <1>1
<1>3. \/ swap'.todo = throwing
      \/ swap'.todo = unpromoting /\ swap.todo = absent4
      \/ swap'.todo = unmoving /\ swap.todo = promoting4
      \/ swap'.todo = unswapping1 /\ swap.todo = promoting5
  BY <1>2, Undos, Rollbacks DEF op
<1>4. TypeInv'
  BY <1>1, <1>2 DEF FilesInv, TypeInv
<1>5. ShapeInv'
  BY DEF FilesInv, ShapeInv
<1>6. StageInv'
  <2>1. swap.todo \in {absent4, promoting5} => swap.todo \notin BothThere \cup MainMoved \cup
          {<<>>, throwing, converting1, converting2}
    BY HeadUndos, Nonempty DEF BothThere, MainMoved
  <2>2. swap.todo = promoting4 => swap.todo \notin BothThere \cup Promoted \cup
          {<<>>, throwing, converting1, converting2}
    BY HeadUndos, Nonempty DEF BothThere, Promoted
  <2>3. Stage(file, swap.todo)
    BY DEF FilesInv, StageInv
  <2>4. unpromoting \in Promoted /\ unmoving \in MainMoved /\ unswapping1 \in Promoted
    BY DEF Promoted, MainMoved
  <2> QED BY <1>3, <2>1, <2>2, <2>3, <2>4 DEF StageInv, Stage
<1>7. ThrownInv'
  BY <1>2 DEF ThrownInv
<1>8. swap # NoSwap /\ swap' # NoSwap
  BY <1>1, <1>2, <1>3, Nonempty DEF NoSwap
<1>9. PhaseInv'
  BY <1>8 DEF FilesInv, PhaseInv, exists, hasArtifacts, opens
<1>10. ConvertInv'
  <2>1. swap'.todo \in Throwing
    BY <1>3 DEF Throwing
  <2> QED BY <2>1 DEF FilesInv, ConvertInv, Lost, passphrase
<1>14. RecoveryInv'
  BY <1>3 DEF RecoveryInv, RecoveryLines, Throwing
<1>11. SideInv'
  <2>1. swap.todo \in {absent4, promoting4, promoting5}
        => swap.todo \notin {<<>>, converting1, throwing}
    BY HeadUndos, Nonempty
  <2> QED BY <1>3, <2>1 DEF FilesInv, SideInv, exists, hasArtifacts
<1>12. FileInv'
  BY DEF FilesInv, FileInv, Lost, exists, hasArtifacts
<1>13. FaultInv'
  BY DEF FilesInv, FaultInv, Lost
<1> QED BY <1>4, <1>5, <1>6, <1>7, <1>9, <1>10, <1>11, <1>12, <1>13, <1>14 DEF FilesInv

\* While there is something left to do, the start waits for it.
LEMMA InLine ==
  ASSUME FilesInv, swap.todo # <<>>
  PROVE  swap.todo \in AllLines /\ ~swap.thrown /\ swap # NoSwap /\ start.at \in SwapPhases
         /\ call = <<>>
BY StageLines DEF FilesInv, ThrownInv, PhaseInv, NoSwap, SwapPhases

\* An operation fails.
LEMMA StepFails ==
  ASSUME Inv, FileStepFails, UNCHANGED <<start, hasData>>
  PROVE  Inv'
<1>1. FilesInv'
  BY InLine, LineBreaks DEF Inv, FileStepFails
<1>2. KeysInv'
  BY KeysUntouched DEF Inv, FileStepFails
<1> QED BY <1>1, <1>2 DEF Inv

\* deleteSidecars() goes on with the line.
LEMMA Strips ==
  ASSUME Inv, deleteSidecars, UNCHANGED <<start, hasData>>
  PROVE  Inv'
<1>1. FilesInv'
  <2>1. side' \in [Paths -> {"none", "plain", "cipher"}] /\ side'["main"] \in {"none", side["main"]}
    BY DEF deleteSidecars, Inv, FilesInv, TypeInv, Paths
  <2> QED BY <2>1, InLine, LineGoesOn DEF Inv, deleteSidecars, Doing, op
<1>2. KeysInv'
  BY KeysUntouched DEF Inv, deleteSidecars, keyVars
<1> QED BY <1>1, <1>2 DEF Inv

\* So does fsync.
LEMMA Syncs ==
  ASSUME Inv, fsync, UNCHANGED <<start, hasData>>
  PROVE  Inv'
<1>1. FilesInv'
  <2>1. side' = side /\ side \in [Paths -> {"none", "plain", "cipher"}]
    BY DEF fsync, Inv, FilesInv, TypeInv
  <2> QED BY <2>1, InLine, LineGoesOn DEF Inv, fsync, Doing, op
<1>2. KeysInv'
  BY KeysUntouched DEF Inv, fsync, keyVars
<1> QED BY <1>1, <1>2 DEF Inv

\* Without a loss, the prepared store holds the key of every encrypted file.
LEMMA KeyFits ==
  ASSUME Inv, ~Lost, NEW p \in Paths, file[p].is = "cipher",
         prepared \/
           start.at \in {"exists", "encrypted", "ensure", "open", "convert", "swap", "attach"}
  PROVE  passphrase # None /\ file[p].key = passphrase
<1>0. mem \in Prefs /\ disk \in Prefs /\ active \in Stores \cup {"none"} /\ file[p] \in Contents
  BY DEF Inv, FilesInv, TypeInv
<1>1. file[p].key \in Keys
  BY <1>0 DEF Contents, Absent, Zero, Plain, Cipher
<1>2. file[p].key \in Held
  BY <1>1, KeysAssumption DEF Inv, FilesInv, FileInv, Held
<1>3. active \in Stores
  BY <1>0 DEF Inv, KeysInv, ActiveInv, Probed
<1>4. passphrase = mem[active]
  BY <1>3 DEF passphrase, Stores
<1>5. passphrase # None
  <2>1. CASE prepared \/ start.at \in {"exists", "encrypted", "ensure"}
    BY <2>1, <1>2, <1>3, <1>4 DEF Inv, KeysInv, ActiveInv, KeyInv, Stores
  <2> QED BY <2>1 DEF Inv, KeysInv, ActiveInv
<1>6. passphrase \in Held
  BY <1>3, <1>4, <1>5 DEF Held, Stores
<1> QED BY <1>2, <1>5, <1>6 DEF Inv, KeysInv, KeyInv

\* A verification goes on with the line or ends in its catch block; without a loss the latter
\* is not reached, as a file that is verified there opens.
LEMMA Verifies ==
  ASSUME Inv, Verified, UNCHANGED <<start, hasData>>
  PROVE  Inv'
<1>0. swap.todo \in AllLines /\ start.at \in SwapPhases /\ ~swap.thrown
  BY InLine DEF Inv, Verified, Doing
<1> DEFINE k == IF op.do = "opensPlain" THEN None ELSE passphrase
<1>1. FilesInv'
  <2>1. CASE next
    <3>1. side' = side /\ side \in [Paths -> {"none", "plain", "cipher"}]
      BY DEF Verified, Inv, FilesInv, TypeInv
    <3> QED BY <1>0, <2>1, <3>1, LineGoesOn DEF Inv, Verified, Doing, op
  <2>2. CASE ~(exists(op.at) /\ opens(op.at, k))
    <3>1. ~Lost => faulty
      <4> SUFFICES ASSUME ~Lost, ~faulty PROVE FALSE
        OBVIOUS
      <4>1. swap.todo \in {converting6, restoring1, promoting5, absent4} /\ swap.todo \in Going
        BY <1>0, Kinds DEF Inv, FilesInv, FaultInv, Verified, Doing, op
      <4>2. Stage(file, swap.todo)
        BY DEF Inv, FilesInv, StageInv
      <4>3. CASE swap.todo = converting6
        <5>1. op.do = "opensPlain" /\ op.at = "main"
          BY <4>3, Heads DEF op
        <5>2. shape(file) = <<TRUE, TRUE, FALSE>>
          BY <4>2, <4>3, Heads, Nonempty DEF Stage, MainMoved, Promoted
        <5>3. file["main"] = Plain
          BY <5>2 DEF Inv, FilesInv, FileInv, shape, exists
        <5> QED BY <5>1, <5>3, <2>2 DEF exists, opens, Plain
      <4>4. CASE swap.todo = restoring1
        <5>1. op.do = "opensPlain" /\ op.at = "bak"
          BY <4>4, Heads DEF op
        <5>2. shape(file) = <<FALSE, TRUE, TRUE>>
          BY <4>2, <4>4, Heads, Nonempty DEF Stage, BothThere, Promoted
        <5>3. file["bak"] = Plain
          BY <5>2 DEF Inv, FilesInv, FileInv, shape, exists
        <5> QED BY <5>1, <5>3, <2>2 DEF exists, opens, Plain
      <4>5. CASE swap.todo \in {promoting5, absent4}
        <5>1. op.do = "opensSecret" /\ op.at = "main"
          BY <4>5, Heads DEF op
        <5>2. shape(file) = <<TRUE, FALSE, TRUE>>
          BY <4>2, <4>5, HeadUndos, Nonempty DEF Stage, BothThere, MainMoved
        <5>3. file["main"].is = "cipher"
          BY <5>2 DEF Inv, FilesInv, FileInv, shape, exists
        <5>4. passphrase # None /\ file["main"].key = passphrase
          BY <1>0, <5>3, KeyFits DEF Paths, SwapPhases
        <5> QED BY <5>1, <5>3, <5>4, <2>2 DEF exists, opens
      <4> QED BY <4>1, <4>3, <4>4, <4>5
    <3> QED BY <1>0, <2>2, <3>1, LineBreaks DEF Inv, Verified, keyVars, FilesInv, TypeInv
  <2> QED BY <2>1, <2>2 DEF Verified
<1>2. KeysInv'
  BY KeysUntouched DEF Inv, Verified, keyVars
<1> QED BY <1>1, <1>2 DEF Inv

\* What next does to the record.
LEMMA Nexts ==
  ASSUME next, swap = [todo |-> swap.todo, thrown |-> FALSE]
  PROVE  swap' = [todo |-> Tail(swap.todo), thrown |-> FALSE]
<1> DEFINE rest == Tail(swap.todo)
<1>1. swap' = [swap EXCEPT !.todo = rest]
  BY DEF next
<1>2. DOMAIN swap = {"todo", "thrown"} /\ swap.thrown = FALSE
  OBVIOUS
<1>3. swap' = [i \in {"todo", "thrown"} |-> IF i = "todo" THEN rest ELSE FALSE]
  BY <1>1, <1>2
<1> QED BY <1>3

\* The line has thrown.
LEMMA Throws ==
  ASSUME Inv, Throw, UNCHANGED <<start, hasData>>
  PROVE  Inv'
<1>0. swap.todo = throwing /\ start.at \in SwapPhases /\ swap' = [todo |-> <<>>, thrown |-> TRUE]
  BY InLine, Kinds DEF Inv, Throw, Doing, op
<1>1. swap'.todo = <<>> /\ swap'.thrown = TRUE /\ swap' # NoSwap
  BY <1>0 DEF NoSwap
<1>2. TypeInv' /\ ShapeInv' /\ StageInv' /\ ThrownInv'
  BY <1>0, <1>1 DEF Inv, FilesInv, TypeInv, ShapeInv, StageInv, Stage, ThrownInv, Throw, keyVars
<1>3. PhaseInv' /\ RecoveryInv' /\ ConvertInv'
  BY <1>0, <1>1 DEF Inv, FilesInv, PhaseInv, RecoveryInv, ConvertInv, Throw, keyVars, exists,
                    hasArtifacts, opens, Lost, passphrase
<1>4. SideInv' /\ FileInv'
  BY <1>0, <1>1 DEF Inv, FilesInv, SideInv, FileInv, Throw, keyVars, exists, hasArtifacts, Lost
<1>5. FaultInv'
  <2>1. throwing \notin Going \cup {<<>>}
    BY Heads, Nonempty DEF Going
  <2> QED BY <1>0, <2>1 DEF Inv, FilesInv, FaultInv, Throw, keyVars, Lost
<1>6. KeysInv'
  BY KeysUntouched DEF Inv, Throw, keyVars
<1> QED BY <1>2, <1>3, <1>4, <1>5, <1>6 DEF Inv, FilesInv

\* A conversion's first steps have the database alone at hand.
LEMMA Converts ==
  ASSUME Inv, swap.todo \in {converting1, converting2, converting3, converting4}
  PROVE  /\ start.at = "swap" /\ swap.todo \in AllLines /\ swap.todo # <<>>
         /\ swap = [todo |-> swap.todo, thrown |-> FALSE]
         /\ swap.todo \in {converting1, converting2} =>
              shape(file) = <<TRUE, FALSE, FALSE>> /\ opens("main", None)
         /\ swap.todo \in {converting3, converting4} => shape(file) = <<TRUE, TRUE, FALSE>>
         /\ passphrase \in Keys
         /\ ~Lost => disk[active] = passphrase
<1>1. swap.todo # <<>>
  BY Nonempty
<1>2. swap.todo \in AllLines /\ ~swap.thrown /\ start.at \in SwapPhases
  BY <1>1, InLine DEF Inv
<1>3. start.at = "swap"
  <2>1. swap.todo \notin RecoveryLines
    BY Heads DEF RecoveryLines, Throwing
  <2> QED BY <1>1, <2>1 DEF Inv, FilesInv, RecoveryInv
<1>4. swap = [todo |-> swap.todo, thrown |-> FALSE]
  BY <1>2 DEF Inv, FilesInv, TypeInv
<1>5. Stage(file, swap.todo)
  BY DEF Inv, FilesInv, StageInv
<1>6. swap.todo # throwing /\ swap.todo \notin MainMoved \cup Promoted
  BY Heads DEF MainMoved, Promoted
<1>7. ASSUME swap.todo \in {converting1, converting2}
      PROVE  shape(file) = <<TRUE, FALSE, FALSE>> /\ opens("main", None)
  <2>1. swap.todo \notin BothThere
    BY <1>7, Heads DEF BothThere
  <2>2. shape(file) = <<TRUE, FALSE, FALSE>>
    BY <1>1, <1>5, <1>6, <2>1 DEF Stage
  <2>3. swap.todo \notin {converting3, converting4, converting5, converting6, promoting1,
                          promoting2, promoting3, promoting4, promoting5, promoting6,
                          releasing1, releasing2} \cup Throwing
    BY <1>7, Heads DEF Throwing
  <2>4. swap # NoSwap
    BY <1>1 DEF NoSwap
  <2> QED BY <1>2, <1>3, <2>2, <2>3, <2>4 DEF Inv, FilesInv, ConvertInv
<1>8. ASSUME swap.todo \in {converting3, converting4} PROVE shape(file) = <<TRUE, TRUE, FALSE>>
  <2>1. swap.todo \notin {converting1, converting2}
    BY <1>8, Heads
  <2> QED BY <1>1, <1>5, <1>6, <2>1 DEF Stage
<1>9. passphrase \in Keys
  <2>1. passphrase # None
    BY <1>3 DEF Inv, KeysInv, ActiveInv
  <2>2. passphrase \in Copies
    BY DEF Inv, FilesInv, TypeInv, passphrase, Prefs, Stores, Copies
  <2> QED BY <2>1, <2>2 DEF Copies
<1> QED BY <1>1, <1>2, <1>3, <1>4, <1>7, <1>8, <1>9 DEF Inv, FilesInv, ConvertInv

\* The original is opened, which rolls its journal back.
LEMMA Opens ==
  ASSUME Inv, openOriginal, UNCHANGED <<start, hasData>>
  PROVE  Inv'
<1>0. swap.todo = converting1
  BY InLine, Kinds DEF Inv, openOriginal, Doing, op
<1>1. /\ start.at = "swap" /\ shape(file) = <<TRUE, FALSE, FALSE>> /\ opens("main", None)
      /\ swap = [todo |-> swap.todo, thrown |-> FALSE]
  BY <1>0, Converts
<1>2. swap' = [todo |-> converting2, thrown |-> FALSE] /\ side' = [side EXCEPT !["main"] = "none"]
  <2>1. next /\ side' = [side EXCEPT !["main"] = "none"]
    BY <1>1 DEF openOriginal
  <2> QED BY <1>0, <1>1, <2>1, Nexts, Tails
<1>3. swap'.todo = converting2 /\ swap'.thrown = FALSE /\ swap' # NoSwap /\ swap # NoSwap
  BY <1>0, <1>1, <1>2, Nonempty DEF NoSwap
<1>4. TypeInv' /\ ShapeInv' /\ StageInv' /\ ThrownInv'
  BY <1>1, <1>2, <1>3 DEF Inv, FilesInv, TypeInv, ShapeInv, StageInv, Stage, ThrownInv,
                          openOriginal, keyVars
<1>5. PhaseInv' /\ RecoveryInv' /\ ConvertInv'
  BY <1>1, <1>3 DEF Inv, FilesInv, PhaseInv, RecoveryInv, ConvertInv, openOriginal, keyVars,
                    exists, hasArtifacts, opens, Lost, passphrase
<1>6. SideInv'
  <2>1. side'["main"] = "none"
    BY <1>2 DEF Inv, FilesInv, TypeInv, Paths
  <2> QED BY <2>1 DEF SideInv
<1>7. FileInv'
  BY DEF Inv, FilesInv, FileInv, openOriginal, keyVars, exists, hasArtifacts, Lost
<1>8. FaultInv'
  BY <1>3 DEF Inv, FilesInv, FaultInv, openOriginal, keyVars, Lost, Going
<1>9. KeysInv'
  BY KeysUntouched DEF Inv, openOriginal, keyVars
<1> QED BY <1>4, <1>5, <1>6, <1>7, <1>8, <1>9 DEF Inv, FilesInv

\* The candidate's file is created.
LEMMA Creates ==
  ASSUME Inv, createNewFile, UNCHANGED <<start, hasData>>
  PROVE  Inv'
<1>0. swap.todo = converting2
  BY InLine, Kinds DEF Inv, createNewFile, Doing, op
<1>1. /\ start.at = "swap" /\ shape(file) = <<TRUE, FALSE, FALSE>> /\ opens("main", None)
      /\ swap = [todo |-> swap.todo, thrown |-> FALSE]
  BY <1>0, Converts
<1>2. /\ file["main"].is # "absent" /\ file["tmp"].is = "absent" /\ file["bak"].is = "absent"
      /\ file \in [Paths -> Contents]
  BY <1>1 DEF shape, Inv, FilesInv, TypeInv
<1>3. swap' = [todo |-> converting3, thrown |-> FALSE] /\ file' = [file EXCEPT !["tmp"] = Zero]
  <2>1. next /\ file' = [file EXCEPT !["tmp"] = Zero]
    BY <1>2 DEF createNewFile, exists
  <2> QED BY <1>0, <1>1, <2>1, Nexts, Tails
<1>4. swap'.todo = converting3 /\ swap'.thrown = FALSE /\ swap' # NoSwap /\ swap # NoSwap
  BY <1>0, <1>1, <1>3, Nonempty DEF NoSwap
<1>5. /\ file' \in [Paths -> Contents] /\ file'["main"] = file["main"] /\ file'["tmp"] = Zero
      /\ file'["bak"] = file["bak"]
  BY <1>2, <1>3 DEF Paths, Contents
<1>6. shape(file') = <<TRUE, TRUE, FALSE>>
  <2>1. file'["tmp"].is = "empty"
    BY <1>5 DEF Zero
  <2> QED BY <1>2, <1>5, <2>1 DEF shape
<1>7. TypeInv' /\ ShapeInv' /\ StageInv' /\ ThrownInv'
  BY <1>3, <1>4, <1>5, <1>6 DEF Inv, FilesInv, TypeInv, ShapeInv, Shapes, StageInv, Stage,
                                BothThere, ThrownInv, createNewFile, keyVars
<1>8. PhaseInv' /\ RecoveryInv' /\ ConvertInv'
  BY <1>1, <1>4 DEF Inv, FilesInv, PhaseInv, RecoveryInv, ConvertInv, createNewFile, keyVars,
                    SwapPhases, Lost, passphrase
<1>9. SideInv'
  <2>1. converting2 \notin {<<>>, converting1, throwing}
    BY Heads, Nonempty
  <2> QED BY <1>0, <2>1 DEF Inv, FilesInv, SideInv, createNewFile
<1>10. FileInv'
  <2> SUFFICES ASSUME ~Lost' PROVE FileInv'
    BY DEF FileInv
  <2>1. ~Lost /\ disk' = disk
    BY DEF Lost, createNewFile, keyVars
  <2>2. file["main"] = Plain
    <3>1. file["main"].is \in {"plain", "cipher"}
      BY <1>2, <2>1 DEF Inv, FilesInv, FileInv, exists
    <3> QED BY <1>1, <1>2, <3>1 DEF opens, Contents, Absent, Zero, Plain, Cipher, Paths
  <2>3. \A p \in Paths : file'[p].is # "cipher"
    BY <1>2, <1>5, <2>2 DEF Paths, Zero, Plain
  <2> QED BY <1>2, <1>5, <2>2, <2>3 DEF FileInv, exists, hasArtifacts, Plain, Zero
<1>11. FaultInv'
  BY <1>4 DEF Inv, FilesInv, FaultInv, createNewFile, keyVars, Lost, Going
<1>12. KeysInv'
  BY KeysUntouched DEF Inv, createNewFile, keyVars
<1> QED BY <1>7, <1>8, <1>9, <1>10, <1>11, <1>12 DEF Inv, FilesInv

\* What the kinds of contents have.
LEMMA ContentsAre ==
  ASSUME NEW c \in Contents
  PROVE  /\ c.full \in BOOLEAN
         /\ c.is = "absent" <=> c = Absent
         /\ c.is = "plain" <=> c = Plain
         /\ c.is \in {"absent", "empty"} => ~c.full
         /\ c.is = "cipher" => c.key \in Keys
<1>1. CASE c = Absent
  BY <1>1 DEF Absent, Plain
<1>2. CASE c = Zero
  BY <1>2 DEF Absent, Plain, Zero
<1>3. CASE c = Plain
  BY <1>3 DEF Absent, Plain
<1>4. ASSUME NEW k \in Keys, NEW full \in BOOLEAN, c = Cipher(k, full)
      PROVE  c.is = "cipher" /\ c.key \in Keys /\ c.full \in BOOLEAN /\ c # Absent /\ c # Plain
  <2>1. c.is = "cipher" /\ c.key = k /\ c.full = full
    BY <1>4 DEF Cipher
  <2>2. Absent.is = "absent" /\ Plain.is = "plain"
    BY DEF Absent, Plain
  <2> QED BY <2>1, <2>2
<1> QED BY <1>1, <1>2, <1>3, <1>4 DEF Contents

\* Writing the candidate, incompletely or completely.
LEMMA Writes ==
  ASSUME Inv, UNCHANGED <<keyVars, start, hasData>>, next,
         NEW full \in BOOLEAN,
         file' = [file EXCEPT !["tmp"] = Cipher(passphrase, full)],
         side' \in [Paths -> {"none", "plain", "cipher"}], side'["main"] = side["main"],
         swap.todo \in {converting3, converting4}
  PROVE  Inv'
<1>1. /\ start.at = "swap" /\ shape(file) = <<TRUE, TRUE, FALSE>> /\ passphrase \in Keys
      /\ swap = [todo |-> swap.todo, thrown |-> FALSE] /\ swap.todo # <<>>
  BY Converts
<1>2. /\ file["main"].is # "absent" /\ file["tmp"].is # "absent" /\ file["bak"].is = "absent"
      /\ file \in [Paths -> Contents]
  BY <1>1 DEF shape, Inv, FilesInv, TypeInv
<1>3. swap' = [todo |-> Tail(swap.todo), thrown |-> FALSE]
  BY <1>1, Nexts
<1>4. swap'.todo \in {converting4, converting5} /\ swap'.thrown = FALSE /\ swap' # NoSwap
      /\ swap # NoSwap
  <2>1. swap'.todo = Tail(swap.todo) /\ swap'.thrown = FALSE
    BY <1>3
  <2>2. Tail(swap.todo) \in {converting4, converting5}
    BY Tails
  <2> QED BY <1>1, <2>1, <2>2, Nonempty DEF NoSwap
<1>5. /\ file' \in [Paths -> Contents] /\ file'["main"] = file["main"]
      /\ file'["tmp"] = Cipher(passphrase, full) /\ file'["bak"] = file["bak"]
  BY <1>1, <1>2 DEF Paths, Contents
<1>6. file'["tmp"].is = "cipher" /\ file'["tmp"].key = passphrase
  BY <1>5 DEF Cipher
<1>7. shape(file') = <<TRUE, TRUE, FALSE>>
  BY <1>2, <1>5, <1>6 DEF shape
<1>8. TypeInv' /\ ShapeInv' /\ StageInv' /\ ThrownInv'
  BY <1>3, <1>4, <1>5, <1>7 DEF Inv, FilesInv, TypeInv, ShapeInv, Shapes, StageInv, Stage,
                                BothThere, ThrownInv, keyVars
<1>9. PhaseInv' /\ RecoveryInv' /\ ConvertInv'
  BY <1>1, <1>4, <1>6 DEF Inv, FilesInv, PhaseInv, RecoveryInv, ConvertInv, keyVars,
                          SwapPhases, Lost, passphrase
<1>10. SideInv'
  <2>1. swap.todo \notin {<<>>, converting1, throwing}
    BY Heads, Nonempty
  <2> QED BY <2>1 DEF Inv, FilesInv, SideInv
<1>11. FileInv'
  <2> SUFFICES ASSUME ~Lost' PROVE FileInv'
    BY DEF FileInv
  <2>1. ~Lost /\ disk' = disk
    BY DEF Lost, keyVars
  <2>2. passphrase \in {disk.disabled, disk.protected}
    <3>1. disk[active] = passphrase
      BY <2>1, Converts
    <3>2. active \in Stores
      BY <1>1, KeysAssumption DEF Inv, FilesInv, TypeInv, passphrase
    <3> QED BY <3>1, <3>2 DEF Stores
  <2>3. \A p \in Paths : file'[p].is = "cipher" => file'[p].key \in {disk.disabled, disk.protected}
    BY <1>5, <1>6, <2>1, <2>2 DEF Paths, Inv, FilesInv, FileInv
  <2> QED BY <1>2, <1>5, <1>6, <2>1, <2>3 DEF Inv, FilesInv, FileInv, exists, hasArtifacts
<1>12. FaultInv'
  BY <1>4 DEF Inv, FilesInv, FaultInv, keyVars, Lost, Going
<1>13. KeysInv'
  BY KeysUntouched DEF Inv, keyVars
<1> QED BY <1>8, <1>9, <1>10, <1>11, <1>12, <1>13 DEF Inv, FilesInv

\* Both steps of the export keep the invariant.
LEMMA Exports ==
  ASSUME Inv, export \/ exported, UNCHANGED <<start, hasData>>
  PROVE  Inv'
<1>1. swap.todo \in {converting3, converting4}
  BY InLine, Kinds DEF Inv, export, exported, Doing, op
<1>2. /\ side' \in [Paths -> {"none", "plain", "cipher"}] /\ side'["main"] = side["main"]
      /\ next /\ UNCHANGED keyVars
  BY DEF export, exported, Inv, FilesInv, TypeInv, Paths
<1>3. CASE export
  BY <1>1, <1>2, <1>3, Writes DEF export
<1>4. CASE exported
  <2>1. file["main"].full \in BOOLEAN
    BY ContentsAre DEF Inv, FilesInv, TypeInv, Paths
  <2> QED BY <1>1, <1>2, <1>4, <2>1, Writes DEF exported
<1> QED BY <1>3, <1>4

\* The backup or a candidate is deleted at the end of a line: nothing is left of it.
LEMMA Drops ==
  ASSUME Inv, deleteChecked, UNCHANGED <<start, hasData>>
  PROVE  Inv'
<1>0. /\ swap.todo \in AllLines /\ swap.todo # <<>> /\ start.at \in SwapPhases /\ call = <<>>
      /\ swap.todo \in {releasing2, stale2} /\ swap = [todo |-> swap.todo, thrown |-> FALSE]
  BY InLine, Kinds DEF Inv, FilesInv, TypeInv, deleteChecked, Doing, op
<1>1. file \in [Paths -> Contents] /\ next
  BY DEF Inv, FilesInv, TypeInv, deleteChecked
<1>2. Tail(swap.todo) = <<>>
  BY <1>0, Tails
<1>3. swap' = NoSwap /\ swap'.todo = <<>> /\ swap'.thrown = FALSE /\ swap # NoSwap
  <2>1. swap' = [todo |-> Tail(swap.todo), thrown |-> FALSE]
    BY <1>0, <1>1, Nexts
  <2>2. swap' = NoSwap
    BY <1>2, <2>1 DEF NoSwap
  <2> QED BY <1>0, <2>2 DEF NoSwap
<1>4. /\ file' \in [Paths -> Contents] /\ file'["main"] = file["main"]
      /\ file["main"].is # "absent" /\ file'["tmp"] = Absent /\ file'["bak"] = Absent
  <2>0. Stage(file, swap.todo)
    BY DEF Inv, FilesInv, StageInv
  <2>1. CASE swap.todo = releasing2
    <3>1. swap.todo \notin BothThere \cup MainMoved \cup {throwing, converting1, converting2}
      BY <2>1, Heads DEF BothThere, MainMoved
    <3>2. shape(file) = <<TRUE, FALSE, TRUE>>
      BY <1>0, <2>0, <3>1 DEF Stage
    <3>3. file["tmp"] = Absent /\ file["main"].is # "absent"
      BY <1>1, <3>2, ContentsAre DEF shape, Paths
    <3>4. op.at = "bak" /\ file' = [file EXCEPT ![op.at] = Absent] /\ Absent \in Contents
      BY <2>1, Heads DEF op, deleteChecked, Contents
    <3> QED BY <1>1, <3>3, <3>4 DEF Paths
  <2>2. CASE swap.todo = stale2
    <3>1. swap.todo \notin MainMoved \cup Promoted \cup {throwing, converting1, converting2}
      BY <2>2, Heads DEF MainMoved, Promoted
    <3>2. shape(file) = <<TRUE, TRUE, FALSE>>
      BY <1>0, <2>0, <3>1 DEF Stage
    <3>3. file["bak"] = Absent /\ file["main"].is # "absent"
      BY <1>1, <3>2, ContentsAre DEF shape, Paths
    <3>4. op.at = "tmp" /\ file' = [file EXCEPT ![op.at] = Absent] /\ Absent \in Contents
      BY <2>2, Heads DEF op, deleteChecked, Contents
    <3> QED BY <1>1, <3>3, <3>4 DEF Paths
  <2> QED BY <1>0, <2>1, <2>2
<1>5. file'["main"].is # "absent" /\ file'["tmp"].is = "absent" /\ file'["bak"].is = "absent"
  BY <1>4 DEF Absent
<1>6. TypeInv' /\ ShapeInv' /\ StageInv' /\ ThrownInv'
  <2>1. shape(file') = <<TRUE, FALSE, FALSE>>
    BY <1>5 DEF shape
  <2>2. swap' = [todo |-> swap'.todo, thrown |-> swap'.thrown]
    BY <1>3 DEF NoSwap
  <2> QED BY <1>3, <1>4, <2>1, <2>2 DEF Inv, FilesInv, TypeInv, ShapeInv, Shapes, StageInv,
                                        Stage, ThrownInv, deleteChecked, keyVars
<1>7. PhaseInv' /\ RecoveryInv'
  BY <1>0, <1>3, <1>4, <1>5 DEF Inv, FilesInv, PhaseInv, RecoveryInv, deleteChecked, keyVars,
                                exists, hasArtifacts, SwapPhases
<1>8. ConvertInv'
  <2> SUFFICES ASSUME start.at = "swap" PROVE ConvertInv'
    BY DEF ConvertInv
  <2>1. (~Lost => disk[active] = passphrase)'
    BY DEF Inv, FilesInv, ConvertInv, Lost, passphrase, deleteChecked, keyVars
  <2>2. swap.todo \notin {converting1, converting2, converting3, converting4, converting5,
                          converting6, promoting1, promoting2, promoting3, promoting4} \cup Throwing
    BY <1>0, Kinds, Heads DEF Throwing
  <2>3. file["main"].is = "cipher"
    BY <1>0, <1>3, <2>2 DEF Inv, FilesInv, ConvertInv
  <2> QED BY <1>3, <1>4, <2>1, <2>3 DEF ConvertInv
<1>9. SideInv'
  <2>1. swap.todo \notin {<<>>, converting1, throwing}
    BY <1>0, Heads, Nonempty
  <2> QED BY <2>1 DEF Inv, FilesInv, SideInv, deleteChecked
<1>10. FileInv'
  <2> SUFFICES ASSUME ~Lost' PROVE FileInv'
    BY DEF FileInv
  <2>1. ~Lost /\ disk' = disk
    BY DEF Lost, deleteChecked, keyVars
  <2>2. \A p \in Paths : file'[p].is = "cipher" => file'[p].key \in {disk.disabled, disk.protected}
    BY <1>4, <1>5, <2>1 DEF Paths, Inv, FilesInv, FileInv
  <2> QED BY <1>4, <1>5, <2>1, <2>2 DEF Inv, FilesInv, FileInv, exists, hasArtifacts
<1>11. FaultInv'
  BY <1>3 DEF Inv, FilesInv, FaultInv, deleteChecked, keyVars, Lost
<1>12. KeysInv'
  BY KeysUntouched DEF Inv, deleteChecked, keyVars
<1> QED BY <1>6, <1>7, <1>8, <1>9, <1>10, <1>11, <1>12 DEF Inv, FilesInv

\* Where the renames stand: what they move is there, and its place is free.
LEMMA Moves ==
  ASSUME Inv, Doing("move")
  PROVE  \/ /\ swap.todo = promoting3 /\ op.at = "main" /\ op.to = "bak"
            /\ shape(file) = <<TRUE, TRUE, FALSE>> /\ Tail(swap.todo) = promoting4
         \/ /\ swap.todo \in {promoting4, absent3} /\ op.at = "tmp" /\ op.to = "main"
            /\ shape(file) = <<FALSE, TRUE, TRUE>> /\ Tail(swap.todo) \in {promoting5, absent4}
         \/ /\ swap.todo \in {restoring2, unmoving, unswapping2} /\ op.at = "bak" /\ op.to = "main"
            /\ shape(file) = <<FALSE, TRUE, TRUE>>
            /\ Tail(swap.todo) \in {restoring3, throwing, unswapping3}
         \/ /\ swap.todo \in {unpromoting, unswapping1} /\ op.at = "main" /\ op.to = "tmp"
            /\ shape(file) = <<TRUE, FALSE, TRUE>> /\ Tail(swap.todo) \in {throwing, unswapping2}
<1>1. swap.todo # <<>> /\ Stage(file, swap.todo)
  BY DEF Inv, FilesInv, StageInv, Doing
<1>2. swap.todo \in {promoting3, promoting4, absent3, restoring2, unpromoting, unmoving,
                     unswapping1, unswapping2}
  BY InLine, Kinds DEF Inv, Doing, op
<1>3. CASE swap.todo = promoting3
  <2>1. swap.todo \notin MainMoved \cup Promoted \cup {throwing, converting1, converting2}
    BY <1>3, Targets, Heads DEF MainMoved, Promoted
  <2>2. shape(file) = <<TRUE, TRUE, FALSE>>
    BY <1>1, <2>1 DEF Stage
  <2>3. op.at = "main"
    BY <1>3, Heads DEF op
  <2>4. op.to = "bak"
    BY <1>3, Targets DEF op
  <2>5. Tail(swap.todo) = promoting4
    BY <1>3, Tails
  <2> QED BY <1>3, <2>2, <2>3, <2>4, <2>5
<1>4. CASE swap.todo \in {promoting4, absent3}
  <2>1. swap.todo \notin BothThere \cup Promoted \cup {throwing, converting1, converting2}
    BY <1>4, Targets, Heads DEF BothThere, Promoted
  <2>2. shape(file) = <<FALSE, TRUE, TRUE>>
    BY <1>1, <2>1 DEF Stage
  <2>3. op.at = "tmp"
    BY <1>4, Heads DEF op
  <2>4. op.to = "main"
    BY <1>4, Targets DEF op
  <2>5. Tail(swap.todo) \in {promoting5, absent4}
    BY <1>4, Tails
  <2> QED BY <1>4, <2>2, <2>3, <2>4, <2>5
<1>5. CASE swap.todo \in {restoring2, unmoving, unswapping2}
  <2>1. swap.todo \notin BothThere \cup Promoted \cup {throwing, converting1, converting2}
    BY <1>5, Targets, Heads DEF BothThere, Promoted
  <2>2. shape(file) = <<FALSE, TRUE, TRUE>>
    BY <1>1, <2>1 DEF Stage
  <2>3. op.at = "bak"
    BY <1>5, Heads DEF op
  <2>4. op.to = "main"
    BY <1>5, Targets DEF op
  <2>5. Tail(swap.todo) \in {restoring3, throwing, unswapping3}
    BY <1>5, Tails
  <2> QED BY <1>5, <2>2, <2>3, <2>4, <2>5
<1>6. CASE swap.todo \in {unpromoting, unswapping1}
  <2>1. swap.todo \notin BothThere \cup MainMoved \cup {throwing, converting1, converting2}
    BY <1>6, Targets, Heads DEF BothThere, MainMoved
  <2>2. shape(file) = <<TRUE, FALSE, TRUE>>
    BY <1>1, <2>1 DEF Stage
  <2>3. op.at = "main"
    BY <1>6, Heads DEF op
  <2>4. op.to = "tmp"
    BY <1>6, Targets DEF op
  <2>5. Tail(swap.todo) \in {throwing, unswapping2}
    BY <1>6, Tails
  <2> QED BY <1>6, <2>2, <2>3, <2>4, <2>5
<1> QED BY <1>2, <1>3, <1>4, <1>5, <1>6

\* A rename keeps the invariant: the database, its candidate and its backup change places.
LEMMA Renames ==
  ASSUME Inv, renameChecked, UNCHANGED <<start, hasData>>
  PROVE  Inv'
<1> DEFINE from == op.at  to == op.to
<1>0. /\ swap.todo \in AllLines /\ swap.todo # <<>> /\ start.at \in SwapPhases /\ call = <<>>
      /\ swap = [todo |-> swap.todo, thrown |-> FALSE]
  BY InLine DEF Inv, FilesInv, TypeInv, renameChecked, Doing
<1>1. file \in [Paths -> Contents] /\ Doing("move")
  BY DEF Inv, FilesInv, TypeInv, renameChecked
<1>2. from \in Paths /\ to \in Paths /\ from # to
  BY <1>1, Moves DEF Paths
<1>3. exists(from) /\ ~exists(to)
  BY <1>1, Moves DEF shape, exists
<1>4. /\ file' = [file EXCEPT ![to] = file[from], ![from] = Absent] /\ next
      /\ slips' = slips \cup {f \in {"hollowCandidate"} :
                                from = "tmp" /\ to = "main" /\ ~file["tmp"].full}
      /\ UNCHANGED <<side, mem, disk, active, call, answer, faulty>>
  BY <1>3 DEF renameChecked
<1>5. /\ file' \in [Paths -> Contents] /\ file'[to] = file[from] /\ file'[from] = Absent
      /\ \A p \in Paths : p \notin {from, to} => file'[p] = file[p]
  BY <1>1, <1>2, <1>4 DEF Contents
<1>6. swap' = [todo |-> Tail(swap.todo), thrown |-> FALSE] /\ swap'.todo = Tail(swap.todo)
      /\ swap'.thrown = FALSE
  BY <1>0, <1>4, Nexts
<1>7. swap # NoSwap /\ swap' # NoSwap
  <2>1. Tail(swap.todo) # <<>>
    BY <1>1, Moves, Nonempty
  <2> QED BY <1>0, <1>6, <2>1 DEF NoSwap
<1> HIDE DEF from, to
<1>8. Absent.is = "absent"
  BY DEF Absent
<1>9. ShapeInv' /\ StageInv'
  <2>1. CASE swap.todo = promoting3 /\ from = "main" /\ to = "bak"
             /\ shape(file) = <<TRUE, TRUE, FALSE>> /\ Tail(swap.todo) = promoting4
    <3>1. shape(file') = <<FALSE, TRUE, TRUE>>
      BY <1>5, <1>8, <2>1 DEF shape, Paths
    <3> QED BY <1>6, <2>1, <3>1 DEF ShapeInv, Shapes, StageInv, Stage, MainMoved
  <2>2. CASE from = "tmp" /\ to = "main"
             /\ shape(file) = <<FALSE, TRUE, TRUE>> /\ Tail(swap.todo) \in {promoting5, absent4}
    <3>1. shape(file') = <<TRUE, FALSE, TRUE>>
      BY <1>5, <1>8, <2>2 DEF shape, Paths
    <3> QED BY <1>6, <2>2, <3>1 DEF ShapeInv, Shapes, StageInv, Stage, Promoted
  <2>3. CASE from = "bak" /\ to = "main" /\ shape(file) = <<FALSE, TRUE, TRUE>>
             /\ Tail(swap.todo) \in {restoring3, throwing, unswapping3}
    <3>1. shape(file') = <<TRUE, TRUE, FALSE>>
      BY <1>5, <1>8, <2>3 DEF shape, Paths
    <3> QED BY <1>6, <2>3, <3>1 DEF ShapeInv, Shapes, StageInv, Stage, BothThere
  <2>4. CASE from = "main" /\ to = "tmp" /\ shape(file) = <<TRUE, FALSE, TRUE>>
             /\ Tail(swap.todo) \in {throwing, unswapping2}
    <3>1. shape(file') = <<FALSE, TRUE, TRUE>>
      BY <1>5, <1>8, <2>4 DEF shape, Paths
    <3> QED BY <1>6, <2>4, <3>1 DEF ShapeInv, Shapes, StageInv, Stage, MainMoved
  <2> QED BY <1>1, <2>1, <2>2, <2>3, <2>4, Moves DEF from, to
<1>10. TypeInv' /\ ThrownInv'
  BY <1>4, <1>5, <1>6 DEF Inv, FilesInv, TypeInv, ThrownInv
<1>11. PhaseInv'
  BY <1>0, <1>4, <1>7 DEF Inv, FilesInv, PhaseInv, SwapPhases
<1>12. RecoveryInv'
  <2>1. swap.todo \in RecoveryLines => Tail(swap.todo) \in RecoveryLines
    <3>1. swap.todo \notin {releasing2, stale2, throwing}
      BY <1>0, <1>1, Kinds DEF Doing, op
    <3> QED BY <3>1, Tails DEF RecoveryLines, Throwing
  <2> QED BY <1>0, <1>6, <2>1 DEF Inv, FilesInv, RecoveryInv
<1>13. ConvertInv'
  <2> SUFFICES ASSUME start.at = "swap" PROVE ConvertInv'
    BY DEF ConvertInv
  <2>1. (~Lost => disk[active] = passphrase)'
    BY <1>4 DEF Inv, FilesInv, ConvertInv, Lost, passphrase
  <2>2. CASE swap.todo \in {promoting3, promoting4} /\ file["tmp"].is = "cipher"
    <3>1. CASE swap.todo = promoting3
      <4>1. op.at = "main" /\ op.to = "bak"
        BY <3>1, Heads, Targets DEF op
      <4>2. file'["tmp"].is = "cipher"
        BY <1>5, <2>2, <4>1 DEF Paths, from, to
      <4> QED BY <1>6, <2>1, <3>1, <4>2, Tails DEF ConvertInv
    <3>2. CASE swap.todo = promoting4
      <4>1. op.at = "tmp" /\ op.to = "main"
        BY <3>2, Heads, Targets DEF op
      <4>2. file'["main"].is = "cipher"
        BY <1>5, <2>2, <4>1 DEF from, to
      <4> QED BY <1>6, <2>1, <3>2, <4>2, Tails DEF ConvertInv
    <3> QED BY <2>2, <3>1, <3>2
  <2>3. CASE swap.todo \in Throwing
    <3>1. swap.todo # throwing
      BY <1>0, <1>1, Kinds DEF Doing, op
    <3>2. Tail(swap.todo) \in Throwing
      BY <2>3, <3>1, Tails DEF Throwing
    <3> QED BY <1>6, <2>1, <3>2 DEF ConvertInv
  <2>4. swap.todo \notin {converting1, converting2, converting3, converting4, converting5,
                          converting6, promoting1, promoting2, promoting5, promoting6,
                          releasing1, releasing2}
    BY <1>0, <1>1, Kinds, Heads DEF Doing, op
  <2> QED BY <1>0, <1>7, <2>2, <2>3, <2>4 DEF Inv, FilesInv, ConvertInv
<1>14. SideInv'
  <2>1. swap.todo \notin {<<>>, converting1, throwing}
    BY <1>0, <1>1, Kinds DEF Doing, op
  <2> QED BY <1>4, <2>1 DEF Inv, FilesInv, SideInv
<1>15. FileInv'
  <2> SUFFICES ASSUME ~Lost' PROVE FileInv'
    BY DEF FileInv
  <2>1. ~Lost /\ disk' = disk
    BY <1>4 DEF Lost
  <2>2. \A p \in Paths : file'[p].is = "cipher" => file'[p].key \in {disk.disabled, disk.protected}
    BY <1>2, <1>5, <1>8, <2>1 DEF Inv, FilesInv, FileInv
  <2>3. file["main"] \in Contents /\ file["tmp"] \in Contents /\ file["bak"] \in Contents
    BY <1>1 DEF Paths
  <2>4. Plain.is = "plain" /\ Plain.full
    BY DEF Plain
  <2>5. CASE from = "main" /\ to = "bak" /\ shape(file) = <<TRUE, TRUE, FALSE>>
    <3>1. file["main"] = Plain /\ file["tmp"].is \notin {"plain", "absent"}
      BY <2>1, <2>5 DEF shape, exists, Inv, FilesInv, FileInv
    <3>2. file'["bak"] = Plain /\ file'["tmp"] = file["tmp"] /\ file'["main"].is = "absent"
      BY <1>5, <1>8, <2>5, <3>1 DEF Paths
    <3> QED BY <2>1, <2>2, <3>1, <3>2, <2>4 DEF FileInv, exists, hasArtifacts
  <2>6. CASE from = "tmp" /\ to = "main" /\ shape(file) = <<FALSE, TRUE, TRUE>>
    <3>1. file["tmp"].full
      BY <1>4, <2>6 DEF Lost, Losses
    <3>2. file["tmp"].is = "cipher"
      <4>1. file["tmp"].is \notin {"plain", "absent", "empty"}
        BY <2>1, <2>3, <2>6, <3>1, ContentsAre DEF shape, Inv, FilesInv, FileInv
      <4>2. file["tmp"].is \in {"absent", "plain", "cipher", "empty"}
        BY <2>3 DEF Contents, Absent, Zero, Plain, Cipher
      <4> QED BY <4>1, <4>2
    <3>3. file["bak"] = Plain
      BY <2>1, <2>6 DEF shape, exists, Inv, FilesInv, FileInv
    <3>4. file'["main"] = file["tmp"] /\ file'["tmp"].is = "absent" /\ file'["bak"] = Plain
      BY <1>5, <1>8, <2>6, <3>3 DEF Paths
    <3> QED BY <2>1, <2>2, <3>1, <3>2, <3>4, <2>4 DEF FileInv, exists, hasArtifacts
  <2>7. CASE from = "bak" /\ to = "main" /\ shape(file) = <<FALSE, TRUE, TRUE>>
    <3>1. file["bak"] = Plain /\ file["tmp"].is \notin {"plain", "absent"}
      BY <2>1, <2>7 DEF shape, exists, Inv, FilesInv, FileInv
    <3>2. file'["main"] = Plain /\ file'["tmp"] = file["tmp"] /\ file'["bak"].is = "absent"
      BY <1>5, <1>8, <2>7, <3>1 DEF Paths
    <3> QED BY <2>1, <2>2, <3>1, <3>2, <2>4 DEF FileInv, exists, hasArtifacts
  <2>8. CASE from = "main" /\ to = "tmp" /\ shape(file) = <<TRUE, FALSE, TRUE>>
    <3>1. file["main"].is = "cipher" /\ file["bak"] = Plain
      BY <2>1, <2>8 DEF shape, exists, Inv, FilesInv, FileInv
    <3>2. file'["tmp"] = file["main"] /\ file'["main"].is = "absent" /\ file'["bak"] = Plain
      BY <1>5, <1>8, <2>8, <3>1 DEF Paths
    <3> QED BY <2>1, <2>2, <3>1, <3>2, <2>4 DEF FileInv, exists, hasArtifacts
  <2> QED BY <1>1, <2>5, <2>6, <2>7, <2>8, Moves DEF from, to
<1>16. FaultInv'
  <2>1. swap.todo \in Going => Tail(swap.todo) \in Going
    <3>1. swap.todo \notin {releasing2, stale2, throwing}
      BY <1>0, <1>1, Kinds DEF Doing, op
    <3> QED BY <3>1, Tails DEF Going
  <2>2. ~Lost' => ~Lost
    BY <1>4 DEF Lost
  <2> QED BY <1>0, <1>4, <1>6, <2>1, <2>2 DEF Inv, FilesInv, FaultInv
<1>17. KeysInv'
  <2>1. slips' \in {slips, slips \cup {"hollowCandidate"}}
    BY <1>4
  <2> QED BY <1>4, <2>1, KeysUntouched DEF Inv
<1> QED BY <1>9, <1>10, <1>11, <1>12, <1>13, <1>14, <1>15, <1>16, <1>17 DEF Inv, FilesInv

\* Every file operation keeps the invariant.
LEMMA FileOperations ==
  ASSUME Inv, FileOperation
  PROVE  Inv'
BY StepFails, Throws, Strips, Drops, Renames, Verifies, Syncs, Opens, Creates, Exports
   DEF FileOperation, FileStep

-----------------------------------------------------------------------------
(* What the security calls consist of *)

\* The same for the security calls.
LEMMA Joined24 ==
  ASSUME NEW a1, NEW a2, NEW b1, NEW b2, NEW b3, NEW b4
  PROVE  <<a1, a2>> \o <<b1, b2, b3, b4>>
           = <<a1, a2, b1, b2, b3, b4>>
<1> DEFINE s == <<a1, a2>>
           t == <<b1, b2, b3, b4>>
           u == <<a1, a2, b1, b2, b3, b4>>
           S == {a1, a2, b1, b2, b3, b4}
<1>1. s \in Seq(S) /\ t \in Seq(S) /\ u \in Seq(S) /\ Len(u) = Len(s) + Len(t)
  OBVIOUS
<1>2. \A i \in 1 .. Len(s) : u[i] = s[i]
  OBVIOUS
<1>3. \A i \in 1 .. Len(t) : u[Len(s) + i] = t[i]
  OBVIOUS
<1>4. s \o t = u
  <2> HIDE DEF s, t, u, S
  <2> QED BY <1>1, <1>2, <1>3, Joined
<1> QED BY <1>4

LEMMA Joined34 ==
  ASSUME NEW a1, NEW a2, NEW a3, NEW b1, NEW b2, NEW b3, NEW b4
  PROVE  <<a1, a2, a3>> \o <<b1, b2, b3, b4>>
           = <<a1, a2, a3, b1, b2, b3, b4>>
<1> DEFINE s == <<a1, a2, a3>>
           t == <<b1, b2, b3, b4>>
           u == <<a1, a2, a3, b1, b2, b3, b4>>
           S == {a1, a2, a3, b1, b2, b3, b4}
<1>1. s \in Seq(S) /\ t \in Seq(S) /\ u \in Seq(S) /\ Len(u) = Len(s) + Len(t)
  OBVIOUS
<1>2. \A i \in 1 .. Len(s) : u[i] = s[i]
  OBVIOUS
<1>3. \A i \in 1 .. Len(t) : u[Len(s) + i] = t[i]
  OBVIOUS
<1>4. s \o t = u
  <2> HIDE DEF s, t, u, S
  <2> QED BY <1>1, <1>2, <1>3, Joined
<1> QED BY <1>4

\* The call begins with this entry and goes on with rest.
Begins(c, entry, rest) == c # <<>> /\ Head(c) = entry /\ Tail(c) = rest

\* The entries of every call, one after the other.
LEMMA KeyLines ==
  ASSUME NEW s
  PROVE  /\ Begins(gating, use("protected"), <<>>)
         /\ Begins(enabling4, write("mode", "ENABLED"), gating)
         /\ Begins(enabling3, write("disabled", None), enabling4)
         /\ Begins(enabling2(s), write("protected", s), enabling3)
         /\ Begins(enable(s), write("mode", "ENABLING"), enabling2(s))
         /\ Begins(opening, write("disabled", None), gating)
         /\ Begins(backing2, use("disabled"), <<>>)
         /\ Begins(backing1, write("mode", "DISABLED"), backing2)
         /\ Begins(disabling3, write("protected", None), backing2)
         /\ Begins(disabling2, write("mode", "DISABLED"), disabling3)
         /\ Begins(disable(s), write("disabled", s), disabling2)
         /\ Begins(<<write("disabled", s)>>, write("disabled", s), <<>>)
BY DEF Begins, gating, enabling4, enabling3, enabling2, enable, opening, backing2, backing1,
       disabling3, disabling2, disable

\* A move that is completed before the opposite one starts.
LEMMA CompletedFirst ==
  ASSUME NEW s
  PROVE  /\ Begins(gating \o disable(s), use("protected"), disable(s))
         /\ Begins(enabling4 \o disable(s), write("mode", "ENABLED"), gating \o disable(s))
         /\ Begins(enabling3 \o disable(s), write("disabled", None), enabling4 \o disable(s))
<1> DEFINE a == use("protected")
           b == write("mode", "ENABLED")
           c == write("disabled", None)
           d == write("disabled", s)
           e == write("mode", "DISABLED")
           f == write("protected", None)
           g == use("disabled")
           back == <<d, e, f, g>>
<1>1. disable(s) = back /\ gating = <<a>> /\ enabling4 = <<b, a>> /\ enabling3 = <<c, b, a>>
  BY DEF disable, gating, enabling4, enabling3
<1>2. <<a>> \o back = <<a, d, e, f, g>>
  BY Joined14
<1>3. <<b, a>> \o back = <<b, a, d, e, f, g>>
  BY Joined24
<1>4. <<c, b, a>> \o back = <<c, b, a, d, e, f, g>>
  BY Joined34
<1>5. gating \o back = <<a, d, e, f, g>> /\ enabling4 \o back = <<b, a, d, e, f, g>>
      /\ enabling3 \o back = <<c, b, a, d, e, f, g>>
  <2> HIDE DEF a, b, c, d, e, f, g, back
  <2> QED BY <1>1, <1>2, <1>3, <1>4
<1> HIDE DEF a, b, c, d, e, f, g
<1>6. Begins(<<a, d, e, f, g>>, a, back) /\ Begins(<<b, a, d, e, f, g>>, b, <<a, d, e, f, g>>)
      /\ Begins(<<c, b, a, d, e, f, g>>, c, <<b, a, d, e, f, g>>)
  BY DEF Begins
<1> QED BY <1>1, <1>5, <1>6 DEF a, b, c

-----------------------------------------------------------------------------
(* The commits, and what they need *)

\* The entries that a call commits, with what has been done before each of them.
Enabling(w) ==
  w = write("mode", "ENABLING") /\ mem.mode = "DISABLED" /\ mem.disabled # None
Copying(w) ==
  w = write("protected", mem.disabled) /\ mem.disabled # None /\ mem.mode = "ENABLING"
    /\ disk.mode = "ENABLING"
Clearing(w) ==
  w = write("disabled", None) /\ mem.disabled = mem.protected /\ mem.protected # None
    /\ mem.mode \in {"ENABLING", "ENABLED"}
Enabled(w) ==
  w = write("mode", "ENABLED") /\ mem.mode = "ENABLING" /\ mem.disabled = None
    /\ mem.protected # None
Restoring(w) ==
  w = write("disabled", mem.protected) /\ mem.protected # None /\ mem.mode = "ENABLED"
Disabling(w) ==
  w = write("mode", "DISABLED") /\ mem.disabled # None
    /\ \/ mem.mode = "ENABLED" /\ disk.disabled = mem.disabled
       \/ mem.mode = "ENABLING" /\ mem.protected = None
Removing(w) ==
  w = write("protected", None) /\ mem.mode = "DISABLED" /\ mem.disabled # None
    /\ disk.mode = "DISABLED" /\ disk.disabled = mem.disabled
Creating(w) ==
  /\ \E k \in Keys : w = write("disabled", k)
  /\ mem.disabled = None /\ mem.mode = "DISABLED"

Committing(w) ==
  \/ Enabling(w) \/ Copying(w) \/ Clearing(w) \/ Enabled(w)
  \/ Restoring(w) \/ Disabling(w) \/ Removing(w) \/ Creating(w)

\* What is left after such an entry.
CommitKinds(w, rest) ==
  \/ Enabling(w) /\ rest = enabling2(mem.disabled) /\ start.at = "running"
  \/ Copying(w) /\ rest = enabling3
  \/ /\ Clearing(w) /\ mem.mode = "ENABLING"
     /\ rest \in {enabling4, enabling4 \o disable(mem.protected)}
  \/ Clearing(w) /\ mem.mode = "ENABLED" /\ rest = gating
  \/ Enabled(w) /\ rest \in {gating, gating \o disable(mem.protected)}
  \/ Restoring(w) /\ rest = disabling2
  \/ Disabling(w) /\ mem.mode = "ENABLED" /\ rest = disabling3
  \/ Disabling(w) /\ mem.mode = "ENABLING" /\ rest = backing2
  \/ Removing(w) /\ rest = backing2
  \/ Creating(w) /\ rest = <<>> /\ start.at = "key" /\ active = "disabled"

\* Every commit of a call is one of these.
LEMMA Commits ==
  ASSUME Inv, call # <<>>, Head(call).to # "active"
  PROVE  CommitKinds(Head(call), Tail(call))
<1> DEFINE w == Head(call)  rest == Tail(call)
<1>1. Begins(call, w, rest) /\ CallInv /\ mem \in Prefs
  BY DEF Begins, Inv, KeysInv, FilesInv, TypeInv
<1>2. ASSUME NEW c, NEW entry, NEW r, call = c, Begins(c, entry, r) PROVE w = entry /\ rest = r
  BY <1>2 DEF Begins
<1>3. ASSUME NEW v, Begins(call, use(v), rest) PROVE FALSE
  BY <1>3 DEF use, Begins
<1> HIDE DEF w, rest
<1>4. call # <<>> /\ call # gating /\ call # backing2 /\ call # gating \o disable(mem.protected)
  <2>1. ASSUME NEW v, NEW r, NEW c, call = c, Begins(c, use(v), r) PROVE FALSE
    BY <1>1, <1>2, <1>3, <2>1
  <2> QED BY <2>1, KeyLines, CompletedFirst
<1>5. CASE call = backing1 /\ mem.mode = "ENABLING" /\ mem.disabled # None /\ mem.protected = None
  <2>1. w = write("mode", "DISABLED") /\ rest = backing2
    BY <1>2, <1>5, KeyLines
  <2> QED BY <1>5, <2>1 DEF CommitKinds, Disabling, w, rest
<1>6. CASE /\ call = disabling3 /\ mem.mode = "DISABLED" /\ mem.disabled # None
           /\ disk.mode = "DISABLED" /\ disk.disabled = mem.disabled
  <2>1. w = write("protected", None) /\ rest = backing2
    BY <1>2, <1>6, KeyLines
  <2> QED BY <1>6, <2>1 DEF CommitKinds, Removing, w, rest
<1>7. CASE call = disabling2 /\ mem.mode = "ENABLED" /\ mem.disabled # None
           /\ disk.disabled = mem.disabled
  <2>1. w = write("mode", "DISABLED") /\ rest = disabling3
    BY <1>2, <1>7, KeyLines
  <2> QED BY <1>7, <2>1 DEF CommitKinds, Disabling, w, rest
<1>8. CASE mem.protected # None /\ call = disable(mem.protected) /\ mem.mode = "ENABLED"
  <2>1. w = write("disabled", mem.protected) /\ rest = disabling2
    BY <1>2, <1>8, KeyLines
  <2> QED BY <1>8, <2>1 DEF CommitKinds, Restoring, w, rest
<1>9. CASE mem.protected # None /\ call \in {enabling4, enabling4 \o disable(mem.protected)}
           /\ mem.mode = "ENABLING" /\ mem.disabled = None
  <2>1. w = write("mode", "ENABLED") /\ rest \in {gating, gating \o disable(mem.protected)}
    BY <1>2, <1>9, KeyLines, CompletedFirst
  <2> QED BY <1>9, <2>1 DEF CommitKinds, Enabled, w, rest
<1>10. CASE mem.protected # None /\ call \in {enabling3, enabling3 \o disable(mem.protected)}
            /\ mem.mode = "ENABLING" /\ mem.disabled = mem.protected
  <2>1. w = write("disabled", None) /\ rest \in {enabling4, enabling4 \o disable(mem.protected)}
    BY <1>2, <1>10, KeyLines, CompletedFirst
  <2> QED BY <1>10, <2>1 DEF CommitKinds, Clearing, w, rest
<1>11. CASE mem.protected # None /\ call = opening /\ mem.mode = "ENABLED"
            /\ mem.disabled = mem.protected
  <2>1. w = write("disabled", None) /\ rest = gating
    BY <1>2, <1>11, KeyLines
  <2> QED BY <1>11, <2>1 DEF CommitKinds, Clearing, w, rest
<1>12. CASE mem.disabled # None /\ call = enable(mem.disabled) /\ mem.mode = "DISABLED"
            /\ start.at = "running"
  <2>1. w = write("mode", "ENABLING") /\ rest = enabling2(mem.disabled)
    BY <1>2, <1>12, KeyLines
  <2> QED BY <1>12, <2>1 DEF CommitKinds, Enabling, w, rest
<1>13. CASE mem.disabled # None /\ call = enabling2(mem.disabled) /\ mem.mode = "ENABLING"
            /\ disk.mode = "ENABLING"
  <2>1. w = write("protected", mem.disabled) /\ rest = enabling3
    BY <1>2, <1>13, KeyLines
  <2> QED BY <1>13, <2>1 DEF CommitKinds, Copying, w, rest
<1>14. CASE /\ start.at = "key" /\ passphrase = None /\ active = "disabled"
            /\ \E k \in Keys : call = <<write("disabled", k)>>
  <2>1. PICK k \in Keys : call = <<write("disabled", k)>>
    BY <1>14
  <2>2. w = write("disabled", k) /\ rest = <<>>
    BY <1>2, <2>1, KeyLines
  <2>3. mem.disabled = None
    BY <1>14 DEF passphrase
  <2>4. mem.mode = "DISABLED"
    BY <1>14, <2>3 DEF Inv, KeysInv, ActiveInv
  <2> QED BY <1>14, <2>2, <2>3, <2>4 DEF CommitKinds, Creating, w, rest
<1> QED BY <1>1, <1>4, <1>5, <1>6, <1>7, <1>8, <1>9, <1>10, <1>11, <1>12, <1>13, <1>14 DEF CallInv

-----------------------------------------------------------------------------
(* What a commit leaves, whether it succeeds or not *)

Committed(w) ==
  /\ mem' = [mem EXCEPT ![w.to] = w.value]
  /\ disk' = [disk EXCEPT ![w.to] = w.value]
NotCommitted(w) ==
  /\ \/ mem' = [mem EXCEPT ![w.to] = w.value] /\ disk' \in {disk, [disk EXCEPT ![w.to] = w.value]}
     \/ UNCHANGED <<mem, disk>>
  /\ mem'.disabled = None /\ disk'.disabled # None => "ghostCopy" \in slips'
Landed(w) ==
  /\ Committed(w) \/ NotCommitted(w)
  /\ slips \cup losing(w) \subseteq slips'

\* Memory holds the new value, or the failed commit has changed nothing.
LEMMA Landing ==
  ASSUME mem \in Prefs, disk \in Prefs, NEW w, Landed(w), NEW f, NEW v, w = write(f, v),
         (f = "mode" /\ v \in Modes) \/ (f \in {"disabled", "protected"} /\ v \in Copies)
  PROVE  /\ mem' \in Prefs /\ disk' \in Prefs
         /\ \A g \in {"mode", "disabled", "protected"} : g # f => mem'[g] = mem[g] /\ disk'[g] = disk[g]
         /\ \/ mem'[f] = v /\ disk'[f] \in {disk[f], v}
            \/ mem' = mem /\ disk' = disk
         /\ mem'.disabled = None /\ disk'.disabled # None =>
              "ghostCopy" \in slips' \/ (mem'[f] = v /\ disk'[f] = v)
<1>1. w.to = f /\ w.value = v
  BY DEF write
<1> QED BY <1>1 DEF Landed, Committed, NotCommitted, Prefs

\* The keys that the files hold are still there.
FileKeysKept ==
  ~Lost' => ~Lost /\ {disk.disabled, disk.protected} \cap Keys
                       \subseteq {disk'.disabled, disk'.protected}

\* Each of them keeps the invariants of the keys, in whatever way it fails.
LEMMA CommitKeeps ==
  ASSUME mem \in Prefs, disk \in Prefs, KeyInv, ModeInv, GateInv, NEW w, Committing(w), Landed(w),
         ~(answer' = "enabled" /\ call' = <<>>),
         Enabling(w) /\ ~Lost => disk.disabled # None \/ disk.protected # None
  PROVE  KeyInv' /\ ModeInv' /\ GateInv' /\ FileKeysKept /\ mem' \in Prefs /\ disk' \in Prefs
<1>0. slips \subseteq slips'
  BY DEF Landed
<1>a. (Lost => Lost') /\ (Clean' => Clean)
  BY <1>0 DEF Lost, Clean
<1> USE KeysAssumption
<1>1. CASE Enabling(w)
  <2>1. w = write("mode", "ENABLING") /\ "ENABLING" \in Modes /\ mem.mode = "DISABLED"
        /\ mem.disabled # None
    BY <1>1 DEF Enabling, Modes, Copies, Prefs
  <2>2. /\ mem' \in Prefs /\ disk' \in Prefs
        /\ mem'.disabled = mem.disabled /\ mem'.protected = mem.protected
        /\ disk'.disabled = disk.disabled /\ disk'.protected = disk.protected
        /\ \/ mem'.mode = "ENABLING" /\ disk'.mode \in {disk.mode, "ENABLING"}
           \/ mem'.mode = mem.mode /\ disk'.mode = disk.mode
    BY <2>1, Landing
  <2>a. ~Lost => disk.disabled # None \/ disk.protected # None
    BY <1>1
  <2>3. KeyInv'
    BY <1>a, <2>1, <2>2, <2>a DEF KeyInv, Held
  <2>4. ModeInv'
    BY <1>0, <2>1, <2>2, <2>a DEF ModeInv
  <2>5. GateInv'
    BY <1>a, <2>1, <2>2, <2>a DEF GateInv
  <2>6. FileKeysKept
    BY <1>a, <2>1, <2>2, <2>a DEF FileKeysKept, KeyInv, Held
  <2> QED BY <2>2, <2>3, <2>4, <2>5, <2>6
<1>2. CASE Copying(w)
  <2>1. w = write("protected", mem.disabled) /\ mem.disabled \in Copies /\ mem.disabled # None
        /\ mem.mode = "ENABLING"
        /\ disk.mode = "ENABLING"
    BY <1>2 DEF Copying, Modes, Copies, Prefs
  <2>2. /\ mem' \in Prefs /\ disk' \in Prefs
        /\ mem'.mode = mem.mode /\ mem'.disabled = mem.disabled
        /\ disk'.mode = disk.mode /\ disk'.disabled = disk.disabled
        /\ \/ mem'.protected = mem.disabled /\ disk'.protected \in {disk.protected, mem.disabled}
           \/ mem'.protected = mem.protected /\ disk'.protected = disk.protected
    BY <2>1, Landing
  <2>3. KeyInv'
    BY <1>a, <2>1, <2>2 DEF KeyInv, Held
  <2>4. ModeInv'
    BY <1>0, <2>1, <2>2 DEF ModeInv
  <2>5. GateInv'
    BY <1>a, <2>1, <2>2 DEF GateInv
  <2>6. FileKeysKept
    BY <1>a, <2>1, <2>2 DEF FileKeysKept, KeyInv, Held
  <2> QED BY <2>2, <2>3, <2>4, <2>5, <2>6
<1>3. CASE Clearing(w)
  <2>1. w = write("disabled", None) /\ None \in Copies /\ mem.disabled = mem.protected
        /\ mem.protected # None
        /\ mem.mode \in {"ENABLING", "ENABLED"}
    BY <1>3 DEF Clearing, Modes, Copies, Prefs
  <2>2. /\ mem' \in Prefs /\ disk' \in Prefs
        /\ mem'.mode = mem.mode /\ mem'.protected = mem.protected
        /\ disk'.mode = disk.mode /\ disk'.protected = disk.protected
        /\ \/ mem'.disabled = None /\ disk'.disabled \in {disk.disabled, None}
           \/ mem'.disabled = mem.disabled /\ disk'.disabled = disk.disabled
        /\ mem'.disabled = None /\ disk'.disabled # None => "ghostCopy" \in slips'
    BY <2>1, Landing
  <2>a. /\ disk'.disabled = None /\ disk.protected # mem.protected => "phantomCopy" \in slips'
        /\ disk'.disabled = None /\ disk.mode = "DISABLED" => "phantomMode" \in slips'
    BY <2>1 DEF Landed, losing, write
  <2>b. /\ ~Lost' => "phantomCopy" \notin slips' /\ "phantomMode" \notin slips'
        /\ Clean' => /\ "phantomCopy" \notin slips' /\ "phantomMode" \notin slips'
                     /\ "ghostCopy" \notin slips'
    BY DEF Lost, Losses, Clean
  <2>3. KeyInv'
    BY <1>a, <2>1, <2>2, <2>a, <2>b DEF KeyInv, Held
  <2>4. ModeInv'
    BY <1>0, <2>1, <2>2, <2>a, <2>b DEF ModeInv
  <2>5. GateInv'
    BY <1>a, <2>1, <2>2, <2>a, <2>b DEF GateInv
  <2>6. FileKeysKept
    BY <1>a, <2>1, <2>2, <2>a, <2>b DEF FileKeysKept, KeyInv, Held
  <2> QED BY <2>2, <2>3, <2>4, <2>5, <2>6
<1>4. CASE Enabled(w)
  <2>1. w = write("mode", "ENABLED") /\ "ENABLED" \in Modes /\ mem.mode = "ENABLING"
        /\ mem.disabled = None
        /\ mem.protected # None
    BY <1>4 DEF Enabled, Modes, Copies, Prefs
  <2>2. /\ mem' \in Prefs /\ disk' \in Prefs
        /\ mem'.disabled = mem.disabled /\ mem'.protected = mem.protected
        /\ disk'.disabled = disk.disabled /\ disk'.protected = disk.protected
        /\ \/ mem'.mode = "ENABLED" /\ disk'.mode \in {disk.mode, "ENABLED"}
           \/ mem'.mode = mem.mode /\ disk'.mode = disk.mode
    BY <2>1, Landing
  <2>a. disk'.mode = "ENABLED" /\ disk.protected # mem.protected => "phantomCopy" \in slips'
    BY <2>1 DEF Landed, losing, write
  <2>b. ~Lost' => "phantomCopy" \notin slips'
    BY DEF Lost, Losses
  <2>3. KeyInv'
    BY <1>a, <2>1, <2>2, <2>a, <2>b DEF KeyInv, Held
  <2>4. ModeInv'
    BY <1>0, <2>1, <2>2, <2>a, <2>b DEF ModeInv
  <2>5. GateInv'
    BY <1>a, <2>1, <2>2, <2>a, <2>b DEF GateInv
  <2>6. FileKeysKept
    BY <1>a, <2>1, <2>2, <2>a, <2>b DEF FileKeysKept, KeyInv, Held
  <2> QED BY <2>2, <2>3, <2>4, <2>5, <2>6
<1>5. CASE Restoring(w)
  <2>1. w = write("disabled", mem.protected) /\ mem.protected \in Copies
        /\ mem.protected # None /\ mem.mode = "ENABLED"
    BY <1>5 DEF Restoring, Modes, Copies, Prefs
  <2>2. /\ mem' \in Prefs /\ disk' \in Prefs
        /\ mem'.mode = mem.mode /\ mem'.protected = mem.protected
        /\ disk'.mode = disk.mode /\ disk'.protected = disk.protected
        /\ \/ mem'.disabled = mem.protected /\ disk'.disabled \in {disk.disabled, mem.protected}
           \/ mem'.disabled = mem.disabled /\ disk'.disabled = disk.disabled
    BY <2>1, Landing
  <2>3. KeyInv'
    BY <1>a, <2>1, <2>2 DEF KeyInv, Held
  <2>4. ModeInv'
    BY <1>0, <2>1, <2>2 DEF ModeInv
  <2>5. GateInv'
    BY <1>a, <2>1, <2>2 DEF GateInv
  <2>6. FileKeysKept
    BY <1>a, <2>1, <2>2 DEF FileKeysKept, KeyInv, Held
  <2> QED BY <2>2, <2>3, <2>4, <2>5, <2>6
<1>6. CASE Disabling(w)
  <2>1. w = write("mode", "DISABLED") /\ "DISABLED" \in Modes /\ mem.disabled # None
        /\ \/ mem.mode = "ENABLED" /\ disk.disabled = mem.disabled
           \/ mem.mode = "ENABLING" /\ mem.protected = None
    BY <1>6 DEF Disabling, Modes, Copies, Prefs
  <2>2. /\ mem' \in Prefs /\ disk' \in Prefs
        /\ mem'.disabled = mem.disabled /\ mem'.protected = mem.protected
        /\ disk'.disabled = disk.disabled /\ disk'.protected = disk.protected
        /\ \/ mem'.mode = "DISABLED" /\ disk'.mode \in {disk.mode, "DISABLED"}
           \/ mem'.mode = mem.mode /\ disk'.mode = disk.mode
    BY <2>1, Landing
  <2>3. KeyInv'
    BY <1>a, <2>1, <2>2 DEF KeyInv, Held
  <2>4. ModeInv'
    BY <1>0, <2>1, <2>2 DEF ModeInv
  <2>5. GateInv'
    BY <1>a, <2>1, <2>2 DEF GateInv
  <2>6. FileKeysKept
    BY <1>a, <2>1, <2>2 DEF FileKeysKept, KeyInv, Held
  <2> QED BY <2>2, <2>3, <2>4, <2>5, <2>6
<1>7. CASE Removing(w)
  <2>1. w = write("protected", None) /\ None \in Copies /\ mem.mode = "DISABLED"
        /\ mem.disabled # None
        /\ disk.mode = "DISABLED" /\ disk.disabled = mem.disabled
    BY <1>7 DEF Removing, Modes, Copies, Prefs
  <2>2. /\ mem' \in Prefs /\ disk' \in Prefs
        /\ mem'.mode = mem.mode /\ mem'.disabled = mem.disabled
        /\ disk'.mode = disk.mode /\ disk'.disabled = disk.disabled
        /\ \/ mem'.protected = None /\ disk'.protected \in {disk.protected, None}
           \/ mem'.protected = mem.protected /\ disk'.protected = disk.protected
    BY <2>1, Landing
  <2>3. KeyInv'
    BY <1>a, <2>1, <2>2 DEF KeyInv, Held
  <2>4. ModeInv'
    BY <1>0, <2>1, <2>2 DEF ModeInv
  <2>5. GateInv'
    BY <1>a, <2>1, <2>2 DEF GateInv
  <2>6. FileKeysKept
    BY <1>a, <2>1, <2>2 DEF FileKeysKept, KeyInv, Held
  <2> QED BY <2>2, <2>3, <2>4, <2>5, <2>6
<1>8. CASE Creating(w)
  <2>1. PICK k \in Keys : w = write("disabled", k)
    BY <1>8 DEF Creating
  <2>2. /\ mem' \in Prefs /\ disk' \in Prefs
        /\ mem'.mode = mem.mode /\ mem'.protected = mem.protected
        /\ disk'.mode = disk.mode /\ disk'.protected = disk.protected
        /\ \/ mem'.disabled = k /\ disk'.disabled \in {disk.disabled, k}
           \/ mem'.disabled = mem.disabled /\ disk'.disabled = disk.disabled
    BY <2>1, Landing DEF Copies
  <2>3. mem.disabled = None /\ mem.mode = "DISABLED" /\ k # None
    BY <1>8 DEF Creating
  <2>4. ~Lost => mem.protected = None /\ disk.disabled = None /\ disk.protected = None
    BY <2>3 DEF KeyInv, Held
  <2>5. KeyInv'
    BY <1>a, <2>2, <2>3, <2>4 DEF KeyInv, Held
  <2>6. ModeInv'
    BY <1>0, <2>2, <2>3 DEF ModeInv
  <2>7. GateInv'
    BY <1>a, <2>2, <2>3 DEF GateInv
  <2>8. FileKeysKept
    BY <1>a, <2>2, <2>4 DEF FileKeysKept
  <2> QED BY <2>2, <2>5, <2>6, <2>7, <2>8
<1> QED BY <1>1, <1>2, <1>3, <1>4, <1>5, <1>6, <1>7, <1>8 DEF Committing

-----------------------------------------------------------------------------
(* The steps of a security call *)

\* The files keep what they need of the keys while a call is under way.
LEMMA FilesKept ==
  ASSUME FilesInv, call # <<>>, UNCHANGED <<fileVars, start, hasData>>,
         start.at = "key" => call' = <<>>,
         mem' \in Prefs, disk' \in Prefs, active' \in Stores \cup {"none"},
         call' \in {<<>>, Tail(call)}, FileKeysKept, faulty' \in BOOLEAN, faulty => faulty',
         answer' \in {"none", "failed", "cancelled", "enabled", "disabled"},
         answer' # answer => faulty' \/ answer' # "failed"
  PROVE  FilesInv'
<1>1. TypeInv' /\ ShapeInv' /\ StageInv' /\ ThrownInv'
  BY DEF FilesInv, TypeInv, ShapeInv, StageInv, ThrownInv, fileVars
<1>2. start.at \in {"prepare", "key", "running"} /\ start.at \notin SwapPhases
  BY DEF FilesInv, PhaseInv, SwapPhases
<1>3. PhaseInv'
  BY <1>2 DEF FilesInv, PhaseInv, fileVars, exists, hasArtifacts, opens
<1>4. RecoveryInv' /\ ConvertInv' /\ SideInv'
  BY <1>2 DEF FilesInv, RecoveryInv, ConvertInv, SideInv, fileVars, SwapPhases, hasArtifacts, exists
<1>5. FileInv'
  <2> SUFFICES ASSUME ~Lost' PROVE FileInv'
    BY DEF FileInv
  <2>1. ~Lost
    BY DEF FileKeysKept
  <2>2. ASSUME NEW p \in Paths, file[p].is = "cipher"
        PROVE  file[p].key \in {disk'.disabled, disk'.protected}
    <3>1. file[p].key \in Keys
      BY <2>2, ContentsAre DEF FilesInv, TypeInv
    <3> QED BY <2>1, <2>2, <3>1 DEF FilesInv, FileInv, FileKeysKept
  <2> QED BY <2>1, <2>2 DEF FilesInv, FileInv, fileVars, exists, hasArtifacts
<1>6. FaultInv'
  BY DEF FilesInv, FaultInv, FileKeysKept, fileVars
<1> QED BY <1>1, <1>3, <1>4, <1>5, <1>6 DEF FilesInv

\* Only a new passphrase is the last entry of its call, and ENABLING is only committed where
\* a passphrase is on file.
LEMMA CommitGuards ==
  ASSUME Inv, call # <<>>, Head(call).to # "active"
  PROVE  /\ Committing(Head(call))
         /\ Tail(call) = <<>> => Creating(Head(call)) /\ start.at = "key" /\ active = "disabled"
         /\ Enabling(Head(call)) /\ ~Lost => disk.disabled # None \/ disk.protected # None
<1> DEFINE w == Head(call)  rest == Tail(call)
<1>1. CommitKinds(w, rest)
  BY Commits
<1> HIDE DEF w, rest
<1>2. Committing(w)
  BY <1>1 DEF CommitKinds, Committing
<1>3. rest = <<>> => Creating(w) /\ start.at = "key" /\ active = "disabled"
  BY <1>1, KeyLines, CompletedFirst DEF CommitKinds, Begins
<1>4. ASSUME Enabling(w), ~Lost PROVE disk.disabled # None \/ disk.protected # None
  <2>1. w.value = "ENABLING"
    BY <1>4 DEF Enabling, write
  <2>2. start.at = "running"
    <3>1. ~Copying(w) /\ ~Clearing(w) /\ ~Restoring(w) /\ ~Removing(w) /\ ~Creating(w)
      <4>1. w.to = "mode"
        BY <1>4 DEF Enabling, write
      <4> QED BY <4>1 DEF Copying, Clearing, Restoring, Removing, Creating, write
    <3>2. ~Enabled(w) /\ ~Disabling(w)
      BY <2>1 DEF Enabled, Disabling, write
    <3> QED BY <1>1, <3>1, <3>2 DEF CommitKinds
  <2>3. file["main"].is = "cipher" /\ file["main"] \in Contents
    BY <2>2 DEF Inv, FilesInv, PhaseInv, TypeInv, Paths
  <2>4. file["main"].key \in {disk.disabled, disk.protected}
    BY <1>4, <2>3 DEF Inv, FilesInv, FileInv, Paths
  <2> QED BY <2>3, <2>4, ContentsAre, KeysAssumption
<1> QED BY <1>2, <1>3, <1>4 DEF w, rest

\* A commit, successful or not, keeps the invariant.
LEMMA CommitStep ==
  ASSUME Inv, commitSucceeds \/ commitFails, UNCHANGED <<fileVars, start, hasData>>
  PROVE  Inv'
<1> DEFINE w == Head(call)  rest == Tail(call)
<1>1. call # <<>> /\ w.to # "active"
  BY DEF commitSucceeds, commitFails
<1>2. /\ mem \in Prefs /\ disk \in Prefs /\ active \in Stores \cup {"none"}
      /\ answer \in {"none", "failed", "cancelled", "enabled", "disabled"} /\ faulty \in BOOLEAN
  BY DEF Inv, FilesInv, TypeInv
<1>3. /\ Committing(w) /\ CommitKinds(w, rest)
      /\ rest = <<>> => Creating(w) /\ start.at = "key" /\ active = "disabled"
      /\ Enabling(w) /\ ~Lost => disk.disabled # None \/ disk.protected # None
  BY <1>1, Commits, CommitGuards
<1>4. start.at = "key" => rest = <<>>
  <2>1. ASSUME start.at = "key" PROVE rest = <<>>
    <3>1. PICK k \in Keys : call = <<write("disabled", k)>>
      BY <1>1, <2>1 DEF Inv, FilesInv, PhaseInv
    <3> QED BY <3>1, KeyLines DEF Begins
  <2> QED BY <2>1
<1>5. Committed(w) \/ NotCommitted(w)
  BY DEF commitSucceeds, commitFails, Committed, NotCommitted
<1>6. Landed(w)
  BY <1>5 DEF commitSucceeds, commitFails, Landed
<1>7. /\ active' = active /\ call' \in {<<>>, rest} /\ (start.at = "key" => call' = <<>>)
      /\ \/ faulty' = faulty /\ Committed(w) /\ call' = rest
            /\ answer' = IF rest = <<>> THEN reported ELSE answer
         \/ faulty' = TRUE /\ call' = <<>> /\ answer' = "failed"
  BY <1>4 DEF commitSucceeds, commitFails, Committed
<1> HIDE DEF w, rest
<1>8. ~(answer' = "enabled" /\ call' = <<>>)
  <2>1. reported = "enabled" <=> mem.mode = "ENABLED"
    BY DEF reported
  <2>2. rest = <<>> => mem.mode = "DISABLED"
    BY <1>3 DEF Creating
  <2> QED BY <1>7, <2>1, <2>2
<1>9. KeyInv' /\ ModeInv' /\ GateInv' /\ FileKeysKept /\ mem' \in Prefs /\ disk' \in Prefs
  BY <1>2, <1>3, <1>6, <1>8, CommitKeeps DEF Inv, KeysInv
<1>10. FilesInv'
  <2>1. reported \in {"enabled", "disabled"}
    BY DEF reported
  <2>2. call' \in {<<>>, Tail(call)} /\ FilesInv
    BY <1>7 DEF rest, Inv
  <2>3. answer' \in {"none", "failed", "cancelled", "enabled", "disabled"}
    BY <1>2, <1>7, <2>1
  <2>4. faulty' \in BOOLEAN /\ (faulty => faulty')
    <3>1. CASE faulty' = faulty
      BY <1>2, <3>1
    <3>2. CASE faulty' = TRUE
      BY <3>2
    <3> QED BY <1>7, <3>1, <3>2
  <2>5. CASE answer' \in {answer, reported}
    <3>1. answer' # answer => answer' # "failed"
      BY <2>1, <2>5
    <3> QED BY <1>1, <1>2, <1>7, <1>9, <2>2, <2>3, <2>4, <3>1, FilesKept
  <2>6. CASE faulty' = TRUE
    BY <1>1, <1>2, <1>7, <1>9, <2>2, <2>3, <2>4, <2>6, FilesKept
  <2> QED BY <1>7, <2>5, <2>6
<1>11. CASE call' = <<>> /\ answer' = "failed"
  <2>1. CallInv'
    BY <1>11 DEF CallInv
  <2>2. ActiveInv'
    <3>1. start.at \in {"prepare", "key", "running"}
      BY <1>1 DEF Inv, FilesInv, PhaseInv
    <3>2. start.at = "key" => active = "disabled" /\ mem.disabled = None
                               /\ (mem'.disabled = None => mem'.mode = "DISABLED")
      <4> SUFFICES ASSUME start.at = "key" PROVE /\ active = "disabled" /\ mem.disabled = None
                               /\ (mem'.disabled = None => mem'.mode = "DISABLED")
        OBVIOUS
      <4>1. Creating(w) /\ active = "disabled"
        BY <1>3, <1>4
      <4>2. PICK k \in Keys : w = write("disabled", k)
        BY <4>1 DEF Creating
      <4>3. mem'.mode = mem.mode
        BY <1>2, <1>6, <4>2, Landing DEF Copies
      <4> QED BY <4>1, <4>3 DEF Creating
    <3> QED BY <1>7, <1>11, <3>1, <3>2 DEF Inv, KeysInv, ActiveInv, prepared, Probed
  <2> QED BY <1>9, <1>10, <2>1, <2>2 DEF Inv, KeysInv
<1>12. CASE Committed(w) /\ call' = rest /\ answer' = IF rest = <<>> THEN reported ELSE answer
  <2>1. CallInv'
    <3>1. CASE Enabling(w) /\ rest = enabling2(mem.disabled)
      <4>1. mem'.mode = "ENABLING" /\ disk'.mode = "ENABLING" /\ mem'.disabled = mem.disabled
        BY <1>2, <1>12, <3>1 DEF Enabling, Committed, write, Prefs
      <4> QED BY <1>12, <3>1, <4>1 DEF CallInv, Enabling
    <3>2. CASE Copying(w) /\ rest = enabling3
      <4>1. mem'.mode = "ENABLING" /\ mem'.protected = mem.disabled /\ mem'.disabled = mem.disabled
        BY <1>2, <1>12, <3>2 DEF Copying, Committed, write, Prefs
      <4> QED BY <1>12, <3>2, <4>1 DEF CallInv, Copying
    <3>3. CASE Clearing(w) /\ mem.mode = "ENABLING"
               /\ rest \in {enabling4, enabling4 \o disable(mem.protected)}
      <4>1. mem'.mode = "ENABLING" /\ mem'.protected = mem.protected /\ mem'.disabled = None
        BY <1>2, <1>12, <3>3 DEF Clearing, Committed, write, Prefs
      <4> QED BY <1>12, <3>3, <4>1 DEF CallInv, Clearing
    <3>4. CASE Clearing(w) /\ mem.mode = "ENABLED" /\ rest = gating
      <4>1. mem'.mode = "ENABLED" /\ mem'.protected = mem.protected /\ mem'.disabled = None
        BY <1>2, <1>12, <3>4 DEF Clearing, Committed, write, Prefs
      <4> QED BY <1>12, <3>4, <4>1 DEF CallInv, Clearing
    <3>5. CASE Enabled(w) /\ rest \in {gating, gating \o disable(mem.protected)}
      <4>1. mem'.mode = "ENABLED" /\ mem'.protected = mem.protected /\ mem'.disabled = None
        BY <1>2, <1>12, <3>5 DEF Enabled, Committed, write, Prefs
      <4> QED BY <1>12, <3>5, <4>1 DEF CallInv, Enabled
    <3>6. CASE Restoring(w) /\ rest = disabling2
      <4>1. mem'.mode = "ENABLED" /\ mem'.disabled = mem.protected /\ disk'.disabled = mem.protected
        BY <1>2, <1>12, <3>6 DEF Restoring, Committed, write, Prefs
      <4> QED BY <1>12, <3>6, <4>1 DEF CallInv, Restoring
    <3>7. CASE Disabling(w) /\ ((mem.mode = "ENABLED" /\ rest = disabling3)
                               \/ (mem.mode = "ENABLING" /\ rest = backing2))
      <4>1. /\ mem'.mode = "DISABLED" /\ mem'.disabled = mem.disabled
            /\ disk'.mode = "DISABLED" /\ disk'.disabled = disk.disabled
        BY <1>2, <1>12, <3>7 DEF Disabling, Committed, write, Prefs
      <4> QED BY <1>12, <3>7, <4>1 DEF CallInv, Disabling
    <3>8. CASE Removing(w) /\ rest = backing2
      <4>1. mem'.mode = "DISABLED" /\ mem'.disabled = mem.disabled
        BY <1>2, <1>12, <3>8 DEF Removing, Committed, write, Prefs
      <4> QED BY <1>12, <3>8, <4>1 DEF CallInv, Removing
    <3>9. CASE rest = <<>>
      BY <1>12, <3>9 DEF CallInv
    <3> QED BY <1>3, <3>1, <3>2, <3>3, <3>4, <3>5, <3>6, <3>7, <3>8, <3>9 DEF CommitKinds
  <2>2. ActiveInv'
    <3>1. start.at \in {"prepare", "key", "running"}
      BY <1>1 DEF Inv, FilesInv, PhaseInv
    <3>2. CASE start.at = "key"
      <4>1. Creating(w) /\ active = "disabled" /\ rest = <<>>
        BY <1>3, <1>4, <3>2
      <4>2. PICK k \in Keys : w = write("disabled", k)
        BY <4>1 DEF Creating
      <4>3. mem'.disabled = k /\ k # None
        BY <1>2, <1>12, <4>2, KeysAssumption DEF Committed, write, Prefs
      <4> QED BY <1>7, <3>2, <4>1, <4>3 DEF ActiveInv, passphrase, prepared
    <3>3. CASE start.at # "key"
      <4>1. call' # <<>>
        BY <1>3, <1>12, <3>3
      <4> QED BY <1>7, <3>1, <3>3, <4>1 DEF Inv, KeysInv, ActiveInv, prepared, Probed
    <3> QED BY <3>2, <3>3
  <2> QED BY <1>9, <1>10, <2>1, <2>2 DEF Inv, KeysInv
<1> QED BY <1>7, <1>11, <1>12

\* The entries that make a store active, and what has been done before each of them.
LEMMA Activations ==
  ASSUME CallInv, call # <<>>, Head(call).to = "active", mem \in Prefs,
         start.at = "key" => \E k \in Keys : call = <<write("disabled", k)>>
  PROVE  /\ start.at # "key"
         /\ \/ /\ Begins(call, use("disabled"), <<>>) /\ mem.mode = "DISABLED"
            \/ /\ mem.mode = "ENABLED" /\ mem.disabled = None /\ mem.protected # None
               /\ \/ Begins(call, use("protected"), <<>>)
                  \/ Begins(call, use("protected"), disable(mem.protected))
<1>1. ASSUME NEW c, NEW f \in {"mode", "disabled", "protected"}, NEW v, NEW r, call = c,
             Begins(c, write(f, v), r)
      PROVE  FALSE
  BY <1>1 DEF Begins, write
<1>2. start.at # "key" /\ ~(\E k \in Keys : call = <<write("disabled", k)>>)
  BY <1>1, KeyLines
<1>3. call \notin {backing1, disabling3, disabling2, enabling3, enabling4, opening}
  BY <1>1, KeyLines
<1>4. \A s : call \notin {disable(s), enabling4 \o disable(s), enabling3 \o disable(s), enable(s),
                          enabling2(s)}
  BY <1>1, KeyLines, CompletedFirst
<1>5. CASE call = backing2 /\ mem.mode = "DISABLED"
  BY <1>2, <1>5, KeyLines
<1>6. CASE /\ mem.protected # None /\ mem.mode = "ENABLED" /\ mem.disabled = None
           /\ call \in {gating, gating \o disable(mem.protected)}
  BY <1>2, <1>6, KeyLines, CompletedFirst
<1> QED BY <1>2, <1>3, <1>4, <1>5, <1>6 DEF CallInv

\* So does the activation of a store.
LEMMA Activates ==
  ASSUME Inv, activate, UNCHANGED <<fileVars, start, hasData>>
  PROVE  Inv'
<1>1. /\ call # <<>> /\ Head(call).to = "active" /\ active' = Head(call).value /\ call' = Tail(call)
      /\ answer' = IF Tail(call) = <<>> THEN reported ELSE answer
      /\ UNCHANGED <<mem, disk, faulty, slips>>
  BY DEF activate
<1>2. /\ mem \in Prefs /\ disk \in Prefs /\ active \in Stores \cup {"none"}
      /\ answer \in {"none", "failed", "cancelled", "enabled", "disabled"} /\ faulty \in BOOLEAN
  BY DEF Inv, FilesInv, TypeInv
<1>3. /\ start.at \in {"prepare", "running"}
      /\ \/ /\ Begins(call, use("disabled"), <<>>) /\ mem.mode = "DISABLED"
         \/ /\ mem.mode = "ENABLED" /\ mem.disabled = None /\ mem.protected # None
            /\ \/ Begins(call, use("protected"), <<>>)
               \/ Begins(call, use("protected"), disable(mem.protected))
  BY <1>1, <1>2, Activations DEF Inv, KeysInv, FilesInv, PhaseInv
<1>4. \/ active' = "disabled" /\ call' = <<>> /\ answer' = reported /\ mem.mode = "DISABLED"
      \/ /\ active' = "protected" /\ mem.mode = "ENABLED" /\ mem.disabled = None
         /\ mem.protected # None
         /\ \/ call' = <<>> /\ answer' = reported
            \/ call' = disable(mem.protected) /\ call' # <<>> /\ answer' = answer
  <2>1. use("disabled").value = "disabled" /\ use("protected").value = "protected"
    BY DEF use
  <2>2. disable(mem.protected) # <<>>
    BY KeyLines DEF Begins
  <2> QED BY <1>1, <1>3, <2>1, <2>2 DEF Begins
<1>5. reported = IF mem.mode = "ENABLED" THEN "enabled" ELSE "disabled"
  BY DEF reported
<1>6. FilesInv'
  <2>1. FileKeysKept
    BY <1>1 DEF FileKeysKept, Lost
  <2>2. active' \in Stores
    BY <1>4 DEF Stores
  <2>3. answer' \in {answer, "enabled", "disabled"}
    BY <1>4, <1>5
  <2>4. answer' # answer => answer' # "failed"
    BY <2>3
  <2> QED BY <1>1, <1>2, <1>3, <2>1, <2>2, <2>3, <2>4, FilesKept DEF Inv
<1>7. CallInv'
  BY <1>1, <1>4 DEF CallInv
<1>8. KeyInv' /\ ModeInv'
  BY <1>1 DEF Inv, KeysInv, KeyInv, ModeInv, Lost, Held
<1>9. GateInv'
  BY <1>1, <1>4, <1>5 DEF Inv, KeysInv, GateInv, Clean
<1>10. ActiveInv'
  BY <1>1, <1>3, <1>4, <1>5 DEF ActiveInv, prepared, Probed, passphrase
<1> QED BY <1>6, <1>7, <1>8, <1>9, <1>10 DEF Inv, KeysInv

\* Every step of a security call keeps the invariant.
LEMMA KeyCalls ==
  ASSUME Inv, KeyCallStep
  PROVE  Inv'
BY CommitStep, Activates DEF KeyCallStep, KeyStep

-----------------------------------------------------------------------------
(* The steps of the start *)

\* A step of the start that leaves the keys alone.
LEMMA StartKeepsKeys ==
  ASSUME KeysInv, UNCHANGED <<mem, disk, active, call, answer>>,
         slips \subseteq slips', ActiveInv',
         call # <<>> => start'.at = start.at
  PROVE  KeysInv' /\ (~Lost' => ~Lost)
<1>1. ~Lost' => ~Lost
  BY DEF Lost
<1>2. CallInv'
  BY DEF KeysInv, CallInv, passphrase
<1>3. Held' = Held
  BY DEF Held
<1>4. KeyInv' /\ ModeInv'
  BY <1>1, <1>3 DEF KeysInv, KeyInv, ModeInv
<1>5. GateInv'
  BY DEF KeysInv, GateInv, Clean
<1> QED BY <1>1, <1>2, <1>4, <1>5 DEF KeysInv

\* A recovery without artifacts does nothing; else its plan fits the files, and throws
\* without a loss only when a question was misjudged.
LEMMA Recovers ==
  ASSUME FilesInv, recover,
         ~Lost => \A p \in Paths : file[p].is = "cipher" => passphrase # None
               /\ file[p].key = passphrase
  PROVE  /\ swap = NoSwap /\ swap'.thrown = FALSE /\ swap' = [todo |-> swap'.todo, thrown |-> FALSE]
         /\ faulty' \in BOOLEAN /\ (faulty => faulty')
         /\ ~hasArtifacts => swap' = NoSwap /\ faulty' = faulty
         /\ hasArtifacts => swap'.todo # <<>>
         /\ Stage(file, swap'.todo) /\ swap'.todo \in {<<>>} \cup RecoveryLines
         /\ ~Lost /\ ~faulty' => swap'.todo \in {<<>>} \cup Going
<1>1. swap = NoSwap /\ NoSwap = [todo |-> <<>>, thrown |-> FALSE]
  BY DEF recover, NoSwap
<1>2. CASE ~hasArtifacts
  <2>1. swap' = swap /\ faulty' = faulty
    BY <1>2 DEF recover
  <2> QED BY <1>1, <1>2, <2>1 DEF Stage, FilesInv, TypeInv
<1>3. CASE hasArtifacts
  <2>1. PICK e \in BOOLEAN, p \in BOOLEAN, t \in BOOLEAN :
          /\ swap' = [NoSwap EXCEPT !.todo = recoveryPlan(e, p, t)]
          /\ faulty' = \/ faulty
                       \/ misjudged("main", passphrase, e)
                       \/ misjudged("main", None, p)
                       \/ misjudged("tmp", passphrase, t)
    BY <1>3 DEF recover
  <2> DEFINE plan == recoveryPlan(e, p, t)
  <2>2. /\ \/ /\ shape(file) = <<TRUE, TRUE, FALSE>>
              /\ \/ (e \/ (p /\ ~t)) /\ plan = stale1
                 \/ ~e /\ p /\ t /\ plan = recovering
                 \/ ~e /\ ~p /\ plan = throwing
           \/ shape(file) = <<FALSE, TRUE, TRUE>> /\ plan \in {absent1, restoring1}
           \/ /\ shape(file) = <<TRUE, FALSE, TRUE>>
              /\ \/ e /\ plan = releasing1
                 \/ ~e /\ plan = throwing
    BY <1>3, RecoveryFits DEF FilesInv
  <2> HIDE DEF plan
  <2>3. swap' = [todo |-> plan, thrown |-> FALSE] /\ swap'.todo = plan /\ swap'.thrown = FALSE
    BY <1>1, <2>1 DEF plan
  <2>4. plan \in {stale1, recovering, throwing, absent1, restoring1, releasing1}
    BY <2>2
  <2>5. plan # <<>>
    BY <2>4, Nonempty
  <2>6. Stage(file, plan) /\ plan \in RecoveryLines
    BY <2>2 DEF Stage, BothThere, MainMoved, Promoted, RecoveryLines, Throwing
  <2>7. faulty' \in BOOLEAN /\ (faulty => faulty')
    BY <2>1 DEF FilesInv, TypeInv, misjudged
  <2>8. ASSUME ~Lost, ~faulty' PROVE plan \in Going
    <3>1. CASE plan = throwing
      <4>1. exists("main") /\ ~e /\ (p => shape(file) # <<TRUE, TRUE, FALSE>>)
        BY <2>2, <3>1, Heads DEF shape, exists
      <4>2. file["main"].is \in {"plain", "cipher"} /\ file["main"].full
        BY <2>8, <4>1 DEF FilesInv, FileInv
      <4>3. ~opens("main", passphrase)
        BY <2>1, <2>8, <4>1, <4>2 DEF misjudged
      <4>4. file["main"].is = "plain"
        BY <4>2, <4>3, <2>8 DEF opens, Paths
      <4>5. p
        BY <2>1, <2>8, <4>1, <4>2, <4>4 DEF misjudged, opens
      <4>6. ~exists("bak")
        BY <2>8, <4>1, <4>4 DEF FilesInv, FileInv
      <4> QED BY <2>2, <3>1, <4>1, <4>5, <4>6 DEF shape, exists
    <3> QED BY <2>4, <3>1 DEF Going
  <2> QED BY <1>1, <1>3, <2>3, <2>5, <2>6, <2>7, <2>8
<1> QED BY <1>2, <1>3

\* What a security call can report.
Answers == {"none", "failed", "cancelled", "enabled", "disabled"}

\* A step of the start that moves no file and has no file operation under way.
LEMMA FilesStay ==
  ASSUME FilesInv, swap = NoSwap, UNCHANGED <<fileVars, disk, hasData>>, slips \subseteq slips',
         mem' \in Prefs, active' \in Stores \cup {"none"}, answer' \in Answers, faulty' \in BOOLEAN,
         start' \in [at : Phases, secretStored : BOOLEAN, existing : BOOLEAN, encrypted : BOOLEAN],
         start'.at # "swap", PhaseInv',
         ~Lost' /\ ~faulty' =>
           start'.at # "failed" /\ (start'.at \in {"prepare", "key"} => answer' # "failed")
  PROVE  FilesInv'
<1>1. swap.todo = <<>> /\ swap.thrown = FALSE
  BY DEF NoSwap
<1>2. ~Lost' => ~Lost
  BY DEF Lost
<1>3. TypeInv'
  BY DEF FilesInv, TypeInv, fileVars, Answers
<1>4. ShapeInv' /\ StageInv' /\ ThrownInv'
  BY <1>1 DEF FilesInv, ShapeInv, StageInv, Stage, ThrownInv, fileVars
<1>5. RecoveryInv' /\ ConvertInv'
  BY <1>1 DEF RecoveryInv, ConvertInv, fileVars
<1>6. SideInv' /\ FileInv'
  BY <1>1, <1>2 DEF FilesInv, SideInv, FileInv, fileVars, exists, hasArtifacts
<1>7. FaultInv'
  BY <1>1 DEF FaultInv, fileVars
<1> QED BY <1>3, <1>4, <1>5, <1>6, <1>7 DEF FilesInv

\* The start goes on to its next phase and keeps what it has found out.
LEMMA PhaseReached ==
  ASSUME TypeInv, NEW phase \in Phases, go(phase)
  PROVE  /\ start' \in [at : Phases, secretStored : BOOLEAN, existing : BOOLEAN, encrypted : BOOLEAN]
         /\ start'.at = phase /\ start'.secretStored = start.secretStored
         /\ start'.existing = start.existing /\ start'.encrypted = start.encrypted
BY DEF TypeInv, go

\* The plans of recoverEnabling() and of an access in mode ENABLED.
LEMMA Plans ==
  ASSUME mem.mode # "DISABLED", mem \in Prefs,
         NEW p \in prepareAfterAuthentication
  PROVE  \/ p = enabling3 /\ mem.mode = "ENABLING" /\ duplicate
         \/ p = enabling4 /\ mem.mode = "ENABLING" /\ mem.disabled = None /\ mem.protected # None
         \/ p = backing1 /\ mem.mode = "ENABLING" /\ mem.disabled # None /\ mem.protected = None
         \/ p = opening /\ mem.mode = "ENABLED" /\ duplicate
         \/ p = gating /\ mem.mode = "ENABLED" /\ mem.disabled = None /\ mem.protected # None
<1>1. mem.mode \in {"ENABLING", "ENABLED"}
  BY DEF Prefs, Modes
<1>2. CASE mem.mode = "ENABLING"
  BY <1>2 DEF prepareAfterAuthentication, recoverEnabling, enabling3, enabling4, backing1
<1>3. CASE mem.mode = "ENABLED"
  BY <1>3 DEF prepareAfterAuthentication, openEnabled, opening, gating
<1> QED BY <1>1, <1>2, <1>3

\* Without a loss there is always one.
LEMMA PlanExists ==
  ASSUME mem.mode # "DISABLED", mem \in Prefs, KeyInv, ModeInv, ~Lost
  PROVE  prepareAfterAuthentication # {}
<1>1. mem.disabled # None /\ mem.protected # None => duplicate
  BY DEF KeyInv, Held, duplicate
<1>2. CASE mem.mode = "ENABLING"
  <2>1. mem.disabled # None \/ mem.protected # None
    BY <1>2 DEF KeyInv
  <2> QED BY <1>1, <1>2, <2>1 DEF prepareAfterAuthentication, recoverEnabling
<1>3. CASE mem.mode = "ENABLED"
  <2>1. mem.protected # None
    BY <1>3 DEF ModeInv, Lost, Losses
  <2> QED BY <1>1, <1>3, <2>1 DEF prepareAfterAuthentication, openEnabled
<1> QED BY <1>2, <1>3 DEF Prefs, Modes

\* prepareKeyAccess(): without a loss it is never refused.
LEMMA Prepares ==
  ASSUME Inv, Prepare
  PROVE  Inv'
<1>1. /\ start.at = "down" /\ call = <<>> /\ swap = NoSwap /\ go("prepare") /\ "prepare" \in Phases
      /\ UNCHANGED <<mem, disk, active, slips, fileVars, hasData>>
  BY DEF Prepare, prepareKeyAccess, Inv, FilesInv, PhaseInv, SwapPhases, Phases
<1>2. /\ start' \in [at : Phases, secretStored : BOOLEAN, existing : BOOLEAN, encrypted : BOOLEAN]
      /\ start'.at = "prepare" /\ ~start'.existing /\ ~start'.encrypted
  BY <1>1, PhaseReached DEF Inv, FilesInv, PhaseInv
<1>3. mem \in Prefs /\ active \in Stores \cup {"none"} /\ faulty \in BOOLEAN
  BY DEF Inv, FilesInv, TypeInv
<1>4. \/ call' = backing2 /\ mem.mode = "DISABLED" /\ answer' = "none" /\ faulty' = faulty
      \/ /\ mem.mode # "DISABLED" /\ answer' = "none" /\ faulty' = faulty
         /\ \E p \in prepareAfterAuthentication : call' = p
      \/ /\ mem.mode # "DISABLED" /\ prepareAfterAuthentication = {}
         /\ call' = <<>> /\ answer' = "failed" /\ faulty' = faulty
      \/ call' = <<>> /\ answer' = "cancelled" /\ faulty' = faulty
      \/ call' = <<>> /\ answer' = "failed" /\ faulty' = TRUE
  BY <1>1 DEF Prepare, prepareKeyAccess, begin, refused, prompted, backing2
<1>5. answer' \in {"none", "failed", "cancelled"} /\ faulty' \in BOOLEAN
  BY <1>3, <1>4
<1>6. CallInv'
  <2>1. CASE call' = <<>>
    BY <2>1 DEF CallInv
  <2>2. CASE call' = backing2 /\ mem.mode = "DISABLED"
    BY <1>1, <1>2, <2>2 DEF CallInv
  <2>3. CASE mem.mode # "DISABLED" /\ \E p \in prepareAfterAuthentication : call' = p
    BY <1>1, <1>3, <2>3, Plans DEF CallInv, duplicate
  <2> QED BY <1>4, <2>1, <2>2, <2>3
<1>7. KeyInv' /\ ModeInv' /\ GateInv'
  BY <1>1, <1>5 DEF Inv, KeysInv, KeyInv, ModeInv, GateInv, Lost, Held, Clean
<1>8. ActiveInv'
  BY <1>1, <1>2, <1>5 DEF ActiveInv, prepared, Probed
<1>9. FilesInv'
  <2>1. PhaseInv'
    BY <1>1, <1>2 DEF PhaseInv, fileVars, SwapPhases, Probed
  <2>2. ~Lost' /\ ~faulty' => answer' # "failed"
    <3>1. Lost' = Lost
      BY <1>1 DEF Lost
    <3> QED BY <1>3, <1>4, <3>1, PlanExists DEF Inv, KeysInv
  <2> QED BY <1>1, <1>2, <1>3, <1>5, <2>1, <2>2, FilesStay DEF Inv, Answers
<1> QED BY <1>6, <1>7, <1>8, <1>9 DEF Inv, KeysInv

\* A cancelled or failed preparation.
LEMMA Refuses ==
  ASSUME Inv, PrepareRefused
  PROVE  Inv'
<1>1. /\ start.at = "prepare" /\ call = <<>> /\ swap = NoSwap /\ UNCHANGED <<keyVars, fileVars, hasData>>
      /\ answer \in {"cancelled", "failed"}
  BY DEF PrepareRefused, Inv, FilesInv, PhaseInv, SwapPhases
<1>2. /\ start' \in [at : Phases, secretStored : BOOLEAN, existing : BOOLEAN, encrypted : BOOLEAN]
      /\ start'.at = IF answer = "cancelled" THEN "down" ELSE "failed"
      /\ ~start'.existing /\ ~start'.encrypted
  BY <1>1, PhaseReached DEF PrepareRefused, Inv, FilesInv, PhaseInv, Phases
<1>3. ActiveInv'
  BY <1>1, <1>2 DEF ActiveInv, prepared, Probed
<1>4. KeysInv'
  BY <1>1, <1>3, StartKeepsKeys DEF Inv, keyVars
<1>5. FilesInv'
  <2>1. PhaseInv'
    BY <1>1, <1>2 DEF PhaseInv, fileVars, keyVars, SwapPhases, Probed
  <2>2. ~Lost' /\ ~faulty' => start'.at # "failed"
    BY <1>1, <1>2 DEF Inv, FilesInv, FaultInv, Lost, keyVars
  <2> QED BY <1>1, <1>2, <2>1, <2>2, FilesStay DEF Inv, FilesInv, TypeInv, Answers, keyVars
<1> QED BY <1>4, <1>5 DEF Inv

\* isDatabase(): the recovery that finds what an earlier process left.
LEMMA ProbesDatabase ==
  ASSUME Inv, ProbeDatabase
  PROVE  Inv'
<1>1. /\ prepared /\ start.at = "prepare" /\ call = <<>> /\ recover
      /\ start' = [start EXCEPT !.at = "exists", !.secretStored = (passphrase # None)]
      /\ UNCHANGED <<file, side, mem, disk, active, call, answer, slips, hasData>>
  BY DEF ProbeDatabase, recover, prepared
<1>2. /\ start' \in [at : Phases, secretStored : BOOLEAN, existing : BOOLEAN, encrypted : BOOLEAN]
      /\ start'.at = "exists" /\ start'.secretStored = (passphrase # None)
      /\ ~start'.existing /\ ~start'.encrypted
  BY <1>1 DEF Inv, FilesInv, TypeInv, PhaseInv, Phases
<1>3. ~Lost => \A p \in Paths : file[p].is = "cipher" => passphrase # None
      /\ file[p].key = passphrase
  BY <1>1, KeyFits
<1>4. /\ swap = NoSwap /\ swap'.thrown = FALSE /\ swap' = [todo |-> swap'.todo, thrown |-> FALSE]
      /\ faulty' \in BOOLEAN
      /\ ~hasArtifacts => swap' = NoSwap
      /\ hasArtifacts => swap'.todo # <<>>
      /\ Stage(file, swap'.todo) /\ swap'.todo \in {<<>>} \cup RecoveryLines
      /\ ~Lost /\ ~faulty' => swap'.todo \in {<<>>} \cup Going
  BY <1>1, <1>3, Recovers DEF Inv
<1>5. Lost' = Lost /\ hasArtifacts' = hasArtifacts /\ passphrase' = passphrase
  BY <1>1 DEF Lost, hasArtifacts, exists, passphrase
<1>6. ActiveInv'
  BY <1>1, <1>2, <1>5 DEF Inv, KeysInv, ActiveInv, prepared, Probed
<1>7. KeysInv'
  BY <1>1, <1>6, StartKeepsKeys DEF Inv
<1>8. TypeInv' /\ ShapeInv' /\ StageInv' /\ ThrownInv'
  BY <1>1, <1>2, <1>4 DEF Inv, FilesInv, TypeInv, ShapeInv, StageInv, ThrownInv
<1>9. PhaseInv'
  <2>1. swap' = NoSwap => ~hasArtifacts
    BY <1>4 DEF NoSwap
  <2> QED BY <1>1, <1>2, <1>5, <2>1 DEF PhaseInv, SwapPhases, Probed
<1>10. RecoveryInv' /\ ConvertInv'
  BY <1>2, <1>4 DEF RecoveryInv, ConvertInv
<1>11. SideInv' /\ FileInv'
  BY <1>1, <1>4, <1>5 DEF Inv, FilesInv, SideInv, FileInv, exists, hasArtifacts, NoSwap
<1>12. FaultInv'
  BY <1>2, <1>4, <1>5 DEF FaultInv
<1> QED BY <1>7, <1>8, <1>9, <1>10, <1>11, <1>12 DEF Inv, FilesInv

\* Later recoveries find nothing to recover.
LEMMA RecoveredBefore ==
  ASSUME Inv, recover, start.at \in Probed
  PROVE  swap = NoSwap /\ ~hasArtifacts /\ UNCHANGED <<fileVars, keyVars>>
<1>1. swap = NoSwap /\ ~hasArtifacts
  BY DEF recover, Inv, FilesInv, PhaseInv
<1> QED BY <1>1 DEF recover, fileVars, keyVars

\* isDatabaseEncrypted() finds the files recovered.
LEMMA ProbesEncryption ==
  ASSUME Inv, ProbeEncryption
  PROVE  Inv'
<1>1. start.at = "exists" /\ swap = NoSwap /\ ~hasArtifacts /\ ~start.existing /\ ~start.encrypted
      /\ call = <<>>
  BY DEF ProbeEncryption, swapped, Inv, FilesInv, PhaseInv, Probed
<1>2. UNCHANGED <<fileVars, keyVars, hasData>>
  BY <1>1, RecoveredBefore DEF ProbeEncryption, Probed
<1>3. /\ start' \in [at : Phases, secretStored : BOOLEAN, existing : BOOLEAN, encrypted : BOOLEAN]
      /\ start'.at = IF exists("main") THEN "encrypted" ELSE "ensure"
      /\ (start'.existing <=> exists("main")) /\ ~start'.encrypted
      /\ start'.secretStored = start.secretStored
  <2>1. CASE exists("main")
    <3>1. start' = [start EXCEPT !.at = "encrypted", !.existing = TRUE]
      BY <2>1 DEF ProbeEncryption
    <3> QED BY <1>1, <2>1, <3>1 DEF Inv, FilesInv, TypeInv, Phases
  <2>2. CASE ~exists("main")
    <3>1. start' = [start EXCEPT !.at = "ensure"]
      BY <2>2 DEF ProbeEncryption, go
    <3> QED BY <1>1, <2>2, <3>1 DEF Inv, FilesInv, TypeInv, Phases
  <2> QED BY <2>1, <2>2
<1>4. ActiveInv'
  BY <1>1, <1>2, <1>3 DEF Inv, KeysInv, ActiveInv, prepared, Probed, keyVars, passphrase
<1>5. KeysInv'
  BY <1>1, <1>2, <1>4, StartKeepsKeys DEF Inv, keyVars
<1>6. PhaseInv'
  BY <1>1, <1>2, <1>3 DEF PhaseInv, fileVars, keyVars, SwapPhases, Probed, exists, hasArtifacts
<1>7. FilesInv'
  BY <1>1, <1>2, <1>3, <1>6, FilesStay DEF Inv, FilesInv, TypeInv, Answers, keyVars
<1> QED BY <1>5, <1>7 DEF Inv

\* getDatabaseState(): without a loss, an encrypted database opens with the passphrase.
LEMMA Classifies ==
  ASSUME Inv, ClassifyDatabase
  PROVE  Inv'
<1>1. /\ start.at = "encrypted" /\ swap = NoSwap /\ ~hasArtifacts /\ exists("main")
      /\ start.existing /\ ~start.encrypted /\ call = <<>>
      /\ UNCHANGED <<fileVars, mem, disk, active, call, answer, slips, hasData>>
  BY DEF ClassifyDatabase, swapped, Inv, FilesInv, PhaseInv, Probed
<1>2. /\ start' \in [at : Phases, secretStored : BOOLEAN, existing : BOOLEAN, encrypted : BOOLEAN]
      /\ start'.secretStored = start.secretStored /\ start'.existing
      /\ \/ start'.at = "ensure" /\ ~start'.encrypted /\ opens("main", None) /\ faulty' = faulty
         \/ /\ start'.at = "ensure" /\ start'.encrypted /\ faulty' = faulty
            /\ opens("main", passphrase) /\ passphrase # None /\ ~opens("main", None)
         \/ /\ start'.at = "failed" /\ ~start'.encrypted
            /\ faulty' = (faulty \/ opens("main", None) \/ opens("main", passphrase))
  BY <1>1 DEF ClassifyDatabase, go, Inv, FilesInv, TypeInv, Phases
<1>3. ActiveInv'
  BY <1>1, <1>2 DEF Inv, KeysInv, ActiveInv, prepared, Probed, passphrase
<1>4. KeysInv'
  BY <1>1, <1>3, StartKeepsKeys DEF Inv
<1>5. ~opens("main", None) /\ opens("main", passphrase) => file["main"].is = "cipher"
  BY DEF opens
<1>6. PhaseInv'
  BY <1>1, <1>2, <1>5 DEF PhaseInv, fileVars, SwapPhases, Probed, exists, hasArtifacts, opens
<1>7. ~Lost => opens("main", None) \/ opens("main", passphrase)
  <2> SUFFICES ASSUME ~Lost PROVE opens("main", None) \/ opens("main", passphrase)
    OBVIOUS
  <2>1. file["main"].is \in {"plain", "cipher"}
    BY <1>1 DEF Inv, FilesInv, FileInv
  <2>2. file["main"].is = "cipher" => passphrase # None /\ file["main"].key = passphrase
    BY <1>1, KeyFits DEF Paths
  <2> QED BY <2>1, <2>2 DEF opens
<1>8. faulty' \in BOOLEAN
  BY <1>2 DEF Inv, FilesInv, TypeInv, opens
<1>9. ~Lost' /\ ~faulty' => start'.at # "failed"
  BY <1>1, <1>2, <1>7 DEF Lost
<1>10. FilesInv'
  BY <1>1, <1>2, <1>6, <1>8, <1>9, FilesStay DEF Inv, FilesInv, TypeInv, Answers
<1> QED BY <1>4, <1>10 DEF Inv

\* ensureEncryptionSecret(): a fresh passphrase goes to the ordinary copy.
LEMMA Ensures ==
  ASSUME Inv, EnsureSecret
  PROVE  Inv'
<1>1. /\ start.at = "ensure" /\ call = <<>> /\ swap = NoSwap /\ UNCHANGED <<fileVars, hasData>>
      /\ start.secretStored <=> passphrase # None
  BY DEF EnsureSecret, Inv, FilesInv, PhaseInv, SwapPhases, KeysInv, ActiveInv
<1>2. CASE start.secretStored
  <2>1. go("open") /\ UNCHANGED keyVars
    BY <1>2 DEF EnsureSecret
  <2>2. /\ start' \in [at : Phases, secretStored : BOOLEAN, existing : BOOLEAN, encrypted : BOOLEAN]
        /\ start'.at = "open" /\ start'.existing = start.existing
        /\ start'.encrypted = start.encrypted
    BY <2>1, PhaseReached DEF Inv, FilesInv, Phases
  <2>3. ActiveInv'
    BY <1>1, <1>2, <2>1, <2>2 DEF Inv, KeysInv, ActiveInv, prepared, Probed, passphrase, keyVars
  <2>4. KeysInv'
    BY <1>1, <2>1, <2>3, StartKeepsKeys DEF Inv, keyVars
  <2>5. PhaseInv'
    BY <1>1, <2>1, <2>2 DEF Inv, FilesInv, PhaseInv, fileVars, keyVars, SwapPhases, Probed, exists,
                            hasArtifacts, opens
  <2>6. FilesInv'
    BY <1>1, <2>1, <2>2, <2>5, FilesStay DEF Inv, FilesInv, TypeInv, Answers, keyVars
  <2> QED BY <2>4, <2>6 DEF Inv
<1>3. CASE ~start.secretStored
  <2>1. PICK k \in Keys : ensureEncryptionSecret(k)
    BY <1>3 DEF EnsureSecret
  <2>2. passphrase = None /\ active = "disabled"
    <3>1. passphrase = None /\ active \in Stores
      BY <1>1, <1>3, <2>1 DEF ensureEncryptionSecret, Inv, FilesInv, TypeInv
    <3>2. active # "protected"
      BY <1>1, <3>1 DEF Inv, KeysInv, ActiveInv, passphrase
    <3> QED BY <3>1, <3>2 DEF Stores
  <2>3. /\ go("key") /\ call' = <<write("disabled", k)>> /\ answer' = "none" /\ call' # <<>>
        /\ UNCHANGED <<mem, disk, active, faulty, slips>>
    BY <1>3, <2>1, <2>2 DEF EnsureSecret, ensureEncryptionSecret, begin
  <2>4. /\ start' \in [at : Phases, secretStored : BOOLEAN, existing : BOOLEAN, encrypted : BOOLEAN]
        /\ start'.at = "key" /\ start'.existing = start.existing
        /\ start'.encrypted = start.encrypted
    BY <2>3, PhaseReached DEF Inv, FilesInv, Phases
  <2>5. CallInv'
    BY <2>2, <2>3, <2>4 DEF CallInv, passphrase
  <2>6. ActiveInv'
    BY <1>1, <2>3, <2>4 DEF Inv, KeysInv, ActiveInv, prepared, Probed
  <2>7. KeyInv' /\ ModeInv' /\ GateInv'
    BY <2>3 DEF Inv, KeysInv, KeyInv, ModeInv, GateInv, Lost, Held, Clean
  <2>8. PhaseInv'
    BY <1>1, <2>3, <2>4 DEF Inv, FilesInv, PhaseInv, fileVars, SwapPhases, Probed, exists,
                            hasArtifacts, opens
  <2>9. FilesInv'
    BY <1>1, <2>3, <2>4, <2>8, FilesStay DEF Inv, FilesInv, TypeInv, Answers
  <2> QED BY <2>5, <2>6, <2>7, <2>9 DEF Inv, KeysInv
<1> QED BY <1>2, <1>3

\* setEncryptionSecret().
LEMMA Ensured ==
  ASSUME Inv, SecretEnsured
  PROVE  Inv'
<1>1. /\ start.at = "key" /\ call = <<>> /\ swap = NoSwap
      /\ UNCHANGED <<fileVars, mem, disk, active, call, answer, slips, hasData>>
  BY DEF SecretEnsured, Inv, FilesInv, PhaseInv, SwapPhases
<1>2. /\ start' \in [at : Phases, secretStored : BOOLEAN, existing : BOOLEAN, encrypted : BOOLEAN]
      /\ start'.existing = start.existing /\ start'.encrypted = start.encrypted
      /\ \/ start'.at = "open" /\ answer # "failed" /\ faulty' = faulty
         \/ start'.at = "failed" /\ answer = "failed" /\ faulty' = faulty
         \/ start'.at = "failed" /\ faulty' = TRUE
  BY PhaseReached DEF SecretEnsured, Inv, FilesInv, Phases
<1>3. ActiveInv'
  BY <1>1, <1>2 DEF Inv, KeysInv, ActiveInv, prepared, Probed, passphrase
<1>4. KeysInv'
  BY <1>1, <1>3, StartKeepsKeys DEF Inv
<1>5. PhaseInv'
  BY <1>1, <1>2 DEF Inv, FilesInv, PhaseInv, fileVars, SwapPhases, Probed, exists, hasArtifacts,
                    opens
<1>6. faulty' \in BOOLEAN
  BY <1>2 DEF Inv, FilesInv, TypeInv
<1>7. ~Lost' /\ ~faulty' => start'.at # "failed"
  BY <1>1, <1>2 DEF Inv, FilesInv, FaultInv, Lost
<1>8. FilesInv'
  <2>1. start'.at \notin {"swap", "prepare", "key"}
    BY <1>2
  <2> QED BY <1>1, <1>2, <1>5, <1>6, <1>7, <2>1, FilesStay DEF Inv, FilesInv, TypeInv, Answers
<1> QED BY <1>4, <1>8 DEF Inv

\* Database.open() chooses between a conversion and the database as it is.
LEMMA OpensConnection ==
  ASSUME Inv, OpenConnection
  PROVE  Inv'
<1>1. start.at = "open" /\ swap = NoSwap /\ ~hasArtifacts /\ call = <<>>
  BY DEF OpenConnection, Inv, FilesInv, PhaseInv, SwapPhases, Probed
<1>2. UNCHANGED <<fileVars, keyVars, hasData>>
  BY <1>1, RecoveredBefore DEF OpenConnection, Probed
<1>3. /\ start' \in [at : Phases, secretStored : BOOLEAN, existing : BOOLEAN, encrypted : BOOLEAN]
      /\ start'.existing = start.existing /\ start'.encrypted = start.encrypted
      /\ start'.at = IF start.existing /\ ~start.encrypted THEN "convert" ELSE "attach"
  BY PhaseReached DEF OpenConnection, Inv, FilesInv, Phases
<1>4. ActiveInv'
  BY <1>1, <1>2, <1>3 DEF Inv, KeysInv, ActiveInv, prepared, Probed, keyVars, passphrase
<1>5. KeysInv'
  BY <1>1, <1>2, <1>4, StartKeepsKeys DEF Inv, keyVars
<1>6. PhaseInv'
  BY <1>1, <1>2, <1>3 DEF Inv, FilesInv, PhaseInv, fileVars, keyVars, SwapPhases, Probed, exists,
                          hasArtifacts, opens
<1>7. FilesInv'
  BY <1>1, <1>2, <1>3, <1>6, FilesStay DEF Inv, FilesInv, TypeInv, Answers, keyVars
<1> QED BY <1>5, <1>7 DEF Inv

\* encrypt() begins.
LEMMA BeginsConversion ==
  ASSUME Inv, Convert
  PROVE  Inv'
<1>1. /\ start.at = "convert" /\ swap = NoSwap /\ ~hasArtifacts /\ call = <<>>
      /\ start.existing /\ ~start.encrypted /\ opens("main", None) /\ passphrase # None
      /\ UNCHANGED <<file, side, mem, disk, active, call, answer, faulty, hasData>>
      /\ slips' = slips \cup undurable
  BY DEF Convert, swapped, Inv, FilesInv, PhaseInv, Probed, KeysInv, ActiveInv
<1>2. swap' = [todo |-> converting1, thrown |-> FALSE] /\ swap'.todo = converting1
      /\ swap'.thrown = FALSE /\ swap' # NoSwap
  <2>1. swap' = [NoSwap EXCEPT !.todo = converting1]
    BY PromotionLine DEF Convert, beginConversion
  <2>2. NoSwap = [todo |-> <<>>, thrown |-> FALSE] /\ converting1 # <<>>
    BY Nonempty DEF NoSwap
  <2> QED BY <2>1, <2>2
<1>3. /\ start' \in [at : Phases, secretStored : BOOLEAN, existing : BOOLEAN, encrypted : BOOLEAN]
      /\ start'.at = "swap"
  BY PhaseReached DEF Convert, Inv, FilesInv, Phases
<1>4. ActiveInv'
  BY <1>1, <1>3 DEF Inv, KeysInv, ActiveInv, prepared, Probed, passphrase
<1>5. KeysInv' /\ (~Lost' => ~Lost)
  BY <1>1, <1>4, StartKeepsKeys DEF Inv
<1>6. exists("main")
  BY <1>1 DEF opens, exists
<1>7. TypeInv' /\ ShapeInv' /\ ThrownInv'
  BY <1>1, <1>2, <1>3 DEF Inv, FilesInv, TypeInv, ShapeInv, ThrownInv
<1>8. StageInv'
  <2>1. shape(file) = <<TRUE, FALSE, FALSE>>
    BY <1>1, <1>6 DEF shape, exists, hasArtifacts
  <2> QED BY <1>1, <1>2, <2>1 DEF StageInv, Stage
<1>9. PhaseInv'
  BY <1>1, <1>2, <1>3 DEF PhaseInv, SwapPhases, Probed
<1>10. RecoveryInv'
  BY <1>3 DEF RecoveryInv
<1>11. ConvertInv'
  <2>1. opens("main", None)'
    BY <1>1 DEF opens
  <2>2. ~Lost' => disk[active] = passphrase
    BY <1>1 DEF undurable, Lost, Losses
  <2> QED BY <1>1, <1>2, <2>1, <2>2 DEF ConvertInv, passphrase
<1>12. SideInv' /\ FileInv'
  BY <1>1, <1>2, <1>5 DEF Inv, FilesInv, SideInv, FileInv, exists, hasArtifacts
<1>13. FaultInv'
  BY <1>2, <1>3 DEF FaultInv, Going
<1> QED BY <1>5, <1>7, <1>8, <1>9, <1>10, <1>11, <1>12, <1>13 DEF Inv, FilesInv

\* encrypt() is done: the database is the encrypted one.
LEMMA EndsConversion ==
  ASSUME Inv, Converted
  PROVE  Inv'
<1>1. start.at = "swap" /\ swap = NoSwap /\ ~hasArtifacts /\ call = <<>>
      /\ UNCHANGED <<keyVars, fileVars, hasData>>
  BY DEF Converted, swapped, Inv, FilesInv, PhaseInv, Probed
<1>2. /\ start' \in [at : Phases, secretStored : BOOLEAN, existing : BOOLEAN, encrypted : BOOLEAN]
      /\ start'.at = "attach"
  BY PhaseReached DEF Converted, Inv, FilesInv, Phases
<1>3. file["main"].is = "cipher"
  <2>1. swap.todo = <<>> /\ swap.thrown = FALSE
    BY <1>1 DEF NoSwap
  <2> QED BY <1>1, <2>1, Nonempty DEF Inv, FilesInv, ConvertInv, Throwing
<1>4. ActiveInv'
  BY <1>1, <1>2 DEF Inv, KeysInv, ActiveInv, prepared, Probed, keyVars, passphrase
<1>5. KeysInv'
  BY <1>1, <1>4, StartKeepsKeys DEF Inv, keyVars
<1>6. PhaseInv'
  BY <1>1, <1>2, <1>3 DEF PhaseInv, fileVars, keyVars, SwapPhases, Probed, hasArtifacts, exists
<1>7. FilesInv'
  BY <1>1, <1>2, <1>6, FilesStay DEF Inv, FilesInv, TypeInv, Answers, keyVars
<1> QED BY <1>5, <1>7 DEF Inv

\* openOrCreateDatabase(): without a loss the passphrase opens the database.
LEMMA OpensOrCreates ==
  ASSUME Inv, OpenOrCreate
  PROVE  Inv'
<1>1. /\ start.at = "attach" /\ swap = NoSwap /\ ~hasArtifacts /\ call = <<>> /\ passphrase # None
      /\ file["main"].is \in {"absent", "cipher"} /\ active # "none"
      /\ UNCHANGED <<swap, mem, disk, active, call, answer>>
  BY DEF OpenOrCreate, Inv, FilesInv, PhaseInv, SwapPhases, Probed, KeysInv, ActiveInv
<1>2. swap.todo = <<>> /\ swap.thrown = FALSE /\ swap' = swap
  BY <1>1 DEF NoSwap
<1>3. CASE /\ ~exists("main")
           /\ file' = [file EXCEPT !["main"] = Cipher(passphrase, ~hasData)]
           /\ hasData' = TRUE
           /\ slips' = slips \cup undurable
           /\ side' = [side EXCEPT !["main"] = "none"]
           /\ go("running")
           /\ UNCHANGED faulty
  <2>1. /\ start' \in [at : Phases, secretStored : BOOLEAN, existing : BOOLEAN, encrypted : BOOLEAN]
        /\ start'.at = "running"
    BY <1>3, PhaseReached DEF Inv, FilesInv, Phases
  <2>2. passphrase \in Keys
    BY <1>1 DEF Inv, FilesInv, TypeInv, passphrase, Prefs, Copies, Stores
  <2>3. file \in [Paths -> Contents] /\ hasData \in BOOLEAN
    BY DEF Inv, FilesInv, TypeInv
  <2> DEFINE new == Cipher(passphrase, ~hasData)
  <2>4. new \in Contents /\ new.is = "cipher" /\ new.key = passphrase /\ (~hasData => new.full)
    <3>1. new.is = "cipher" /\ new.key = passphrase /\ (~hasData => new.full)
      BY DEF Cipher
    <3>2. new = Cipher(passphrase, TRUE) \/ new = Cipher(passphrase, FALSE)
      <4>1. CASE hasData
        <5>1. (~hasData) = FALSE
          BY <4>1
        <5> QED BY <5>1
      <4>2. CASE ~hasData
        <5>1. (~hasData) = TRUE
          BY <4>2
        <5> QED BY <5>1
      <4> QED BY <4>1, <4>2
    <3>3. Cipher(passphrase, TRUE) \in Contents /\ Cipher(passphrase, FALSE) \in Contents
      <4>1. \A full \in BOOLEAN : Cipher(passphrase, full) \in Contents
        BY <2>2 DEF Contents
      <4> QED BY <4>1
    <3>4. new \in Contents
      <4> HIDE DEF new
      <4> QED BY <3>2, <3>3
    <3> QED BY <3>1, <3>4
  <2> HIDE DEF new
  <2>5. /\ file' \in [Paths -> Contents] /\ file'["main"] = new
        /\ file'["tmp"] = file["tmp"] /\ file'["bak"] = file["bak"]
    BY <1>3, <2>3, <2>4 DEF Paths, new
  <2>6. ActiveInv'
    BY <1>1, <2>1 DEF ActiveInv, prepared, Probed
  <2>7. KeysInv' /\ (~Lost' => ~Lost)
    BY <1>1, <1>3, <2>6, StartKeepsKeys DEF Inv
  <2>8. side' \in [Paths -> {"none", "plain", "cipher"}] /\ side'["main"] = "none"
    BY <1>3 DEF Inv, FilesInv, TypeInv, Paths
  <2>9. TypeInv'
    BY <1>1, <1>2, <1>3, <2>1, <2>5, <2>8 DEF Inv, FilesInv, TypeInv
  <2>10. ShapeInv' /\ StageInv' /\ ThrownInv'
    <3>1. shape(file') = <<TRUE, FALSE, FALSE>>
      BY <1>1, <2>4, <2>5 DEF shape, exists, hasArtifacts
    <3> QED BY <1>2, <3>1 DEF ShapeInv, Shapes, StageInv, Stage, ThrownInv
  <2>11. PhaseInv'
    BY <1>1, <2>1, <2>4, <2>5 DEF PhaseInv, Probed, exists, hasArtifacts, SwapPhases
  <2>12. RecoveryInv' /\ ConvertInv' /\ SideInv'
    BY <1>2, <2>1, <2>8 DEF RecoveryInv, ConvertInv, SideInv
  <2>13. FileInv'
    <3> SUFFICES ASSUME ~Lost' PROVE FileInv'
      BY DEF FileInv
    <3>1. ~Lost /\ disk[active] = passphrase
      BY <1>3, <2>7 DEF undurable, Lost, Losses
    <3>2. passphrase \in {disk.disabled, disk.protected}
      BY <1>1, <3>1 DEF Inv, FilesInv, TypeInv, Stores
    <3>3. ~hasData
      BY <1>1, <1>3, <3>1 DEF Inv, FilesInv, FileInv
    <3>4. file["tmp"].is = "absent" /\ file["bak"].is = "absent"
      BY <1>1 DEF hasArtifacts, exists
    <3> QED BY <1>1, <2>4, <2>5, <3>1, <3>2, <3>3, <3>4 DEF FileInv, exists, hasArtifacts, Paths
  <2>14. FaultInv'
    BY <1>2, <2>1 DEF FaultInv
  <2> QED BY <2>7, <2>9, <2>10, <2>11, <2>12, <2>13, <2>14 DEF Inv, FilesInv
<1>4. CASE /\ exists("main") /\ opens("main", passphrase)
           /\ side' = [side EXCEPT !["main"] = "none"]
           /\ go("running")
           /\ UNCHANGED <<file, hasData, slips, faulty>>
  <2>1. /\ start' \in [at : Phases, secretStored : BOOLEAN, existing : BOOLEAN, encrypted : BOOLEAN]
        /\ start'.at = "running"
    BY <1>4, PhaseReached DEF Inv, FilesInv, Phases
  <2>2. ActiveInv'
    BY <1>1, <2>1 DEF ActiveInv, prepared, Probed
  <2>3. KeysInv' /\ (~Lost' => ~Lost)
    BY <1>1, <1>4, <2>2, StartKeepsKeys DEF Inv
  <2>4. side' \in [Paths -> {"none", "plain", "cipher"}] /\ side'["main"] = "none"
    BY <1>4 DEF Inv, FilesInv, TypeInv, Paths
  <2>5. TypeInv' /\ ShapeInv' /\ StageInv' /\ ThrownInv'
    BY <1>1, <1>2, <1>4, <2>1, <2>4 DEF Inv, FilesInv, TypeInv, ShapeInv, StageInv, ThrownInv
  <2>6. PhaseInv'
    BY <1>1, <1>4, <2>1 DEF PhaseInv, Probed, exists, hasArtifacts, SwapPhases
  <2>7. RecoveryInv' /\ ConvertInv' /\ SideInv' /\ FaultInv'
    BY <1>2, <2>1, <2>4 DEF RecoveryInv, ConvertInv, SideInv, FaultInv
  <2>8. FileInv'
    BY <1>1, <1>4, <2>3 DEF Inv, FilesInv, FileInv, exists, hasArtifacts
  <2> QED BY <2>3, <2>5, <2>6, <2>7, <2>8 DEF Inv, FilesInv
<1>5. CASE /\ go("failed")
           /\ faulty' = (faulty \/ ~exists("main") \/ opens("main", passphrase))
           /\ UNCHANGED <<file, side, hasData, slips>>
  <2>1. /\ start' \in [at : Phases, secretStored : BOOLEAN, existing : BOOLEAN, encrypted : BOOLEAN]
        /\ start'.at = "failed"
    BY <1>5, PhaseReached DEF Inv, FilesInv, Phases
  <2>2. ActiveInv'
    BY <1>1, <2>1 DEF ActiveInv, prepared, Probed
  <2>3. KeysInv' /\ (~Lost' => ~Lost)
    BY <1>1, <1>5, <2>2, StartKeepsKeys DEF Inv
  <2>4. PhaseInv'
    BY <1>1, <2>1 DEF PhaseInv, Probed, SwapPhases
  <2>5. faulty' \in BOOLEAN
    BY <1>5 DEF Inv, FilesInv, TypeInv, opens, exists
  <2>6. ~Lost' => faulty'
    <3> SUFFICES ASSUME ~Lost', exists("main") PROVE opens("main", passphrase)
      BY <1>5
    <3>1. file["main"].is = "cipher"
      BY <1>1 DEF exists
    <3>2. file["main"].key = passphrase
      BY <1>1, <2>3, <3>1, KeyFits DEF Paths
    <3> QED BY <1>1, <3>1, <3>2 DEF opens
  <2>7. FilesInv'
    BY <1>1, <1>5, <2>1, <2>4, <2>5, <2>6, FilesStay DEF Inv, FilesInv, TypeInv, Answers, fileVars
  <2> QED BY <2>3, <2>7 DEF Inv
<1> QED BY <1>3, <1>4, <1>5 DEF OpenOrCreate

\* A recovery or the conversion has thrown.
LEMMA Fails ==
  ASSUME Inv, StartFails
  PROVE  Inv'
<1>1. /\ swap.thrown /\ swap' = NoSwap /\ start.at \in SwapPhases /\ call = <<>>
      /\ UNCHANGED <<keyVars, file, side, hasData>> /\ swap'.todo = <<>> /\ swap'.thrown = FALSE
  BY DEF StartFails, Inv, FilesInv, PhaseInv, NoSwap, SwapPhases
<1>2. /\ start' \in [at : Phases, secretStored : BOOLEAN, existing : BOOLEAN, encrypted : BOOLEAN]
      /\ start'.at = "failed"
  BY PhaseReached DEF StartFails, Inv, FilesInv, Phases
<1>3. ActiveInv'
  BY <1>1, <1>2 DEF ActiveInv, prepared, Probed
<1>4. KeysInv' /\ (~Lost' => ~Lost)
  BY <1>1, <1>3, StartKeepsKeys DEF Inv, keyVars
<1>5. swap' = [todo |-> swap'.todo, thrown |-> FALSE]
  BY <1>1 DEF NoSwap
<1>6. TypeInv' /\ ShapeInv' /\ StageInv' /\ ThrownInv'
  BY <1>1, <1>2, <1>5 DEF Inv, FilesInv, TypeInv, ShapeInv, StageInv, Stage, ThrownInv, keyVars
<1>7. PhaseInv' /\ RecoveryInv' /\ ConvertInv'
  BY <1>1, <1>2 DEF PhaseInv, Probed, SwapPhases, RecoveryInv, ConvertInv, keyVars
<1>8. SideInv' /\ FileInv'
  BY <1>1, <1>4 DEF Inv, FilesInv, SideInv, FileInv, exists, hasArtifacts, keyVars
<1>9. FaultInv'
  BY <1>1, <1>4 DEF Inv, FilesInv, FaultInv, keyVars
<1> QED BY <1>4, <1>6, <1>7, <1>8, <1>9 DEF Inv, FilesInv

\* A transaction of the running app.
LEMMA JournalWritten ==
  ASSUME Inv, WriteJournal
  PROVE  Inv'
<1>1. /\ start.at = "running" /\ swap = NoSwap /\ ~hasArtifacts
      /\ UNCHANGED <<file, swap, keyVars, start, hasData>>
  BY DEF WriteJournal, Inv, FilesInv, PhaseInv, SwapPhases, Probed
<1>2. side' \in [Paths -> {"none", "plain", "cipher"}] /\ swap.todo = <<>>
  BY <1>1 DEF WriteJournal, Inv, FilesInv, TypeInv, Paths, NoSwap
<1>3. ActiveInv'
  BY <1>1 DEF Inv, KeysInv, ActiveInv, prepared, passphrase, keyVars
<1>4. KeysInv' /\ (~Lost' => ~Lost)
  BY <1>1, <1>3, StartKeepsKeys DEF Inv, keyVars
<1>5. TypeInv' /\ ShapeInv' /\ StageInv' /\ ThrownInv'
  BY <1>1, <1>2 DEF Inv, FilesInv, TypeInv, ShapeInv, StageInv, ThrownInv, keyVars
<1>6. PhaseInv'
  BY <1>1 DEF Inv, FilesInv, PhaseInv, keyVars, exists, hasArtifacts, opens
<1>7. RecoveryInv' /\ ConvertInv' /\ SideInv'
  BY <1>1, <1>2 DEF RecoveryInv, ConvertInv, SideInv, hasArtifacts, exists
<1>8. FileInv' /\ FaultInv'
  BY <1>1, <1>4 DEF Inv, FilesInv, FileInv, FaultInv, exists, hasArtifacts, keyVars
<1> QED BY <1>4, <1>5, <1>6, <1>7, <1>8 DEF Inv, FilesInv

\* setKeyProtection() with its early answer.
LEMMA SetsKeyProtection ==
  ASSUME Inv, NEW enabled \in BOOLEAN, SetKeyProtection(enabled)
  PROVE  Inv'
<1>1. /\ start.at = "running" /\ swap = NoSwap /\ call = <<>>
      /\ UNCHANGED <<fileVars, start, hasData, mem, disk, active>>
  BY DEF SetKeyProtection, setKeyProtection, Inv, FilesInv, PhaseInv, SwapPhases
<1>2. /\ mem \in Prefs /\ active \in Stores \cup {"none"} /\ faulty \in BOOLEAN
      /\ start \in [at : Phases, secretStored : BOOLEAN, existing : BOOLEAN, encrypted : BOOLEAN]
  BY DEF Inv, FilesInv, TypeInv
<1>3. \/ /\ call' = <<>> /\ faulty' = faulty /\ (enabled <=> mem.mode # "DISABLED")
         /\ answer' = IF enabled THEN "enabled" ELSE "disabled"
         /\ slips' = slips \cup {f \in {"unresolved"} : enabled /\ incomplete}
      \/ /\ answer' = "none" /\ faulty' = faulty /\ slips' = slips
         /\ \/ call' = enable(mem.disabled) /\ mem.mode = "DISABLED" /\ mem.disabled # None
            \/ call' = disable(mem.protected) /\ mem.mode = "ENABLED" /\ mem.protected # None
            \/ /\ mem.mode = "ENABLING"
               /\ \E p \in recoverEnabling :
                    call' = IF mem.protected # None THEN p \o disable(mem.protected) ELSE p
      \/ call' = <<>> /\ answer' = "failed" /\ faulty' = faulty /\ slips' = slips
      \/ call' = <<>> /\ answer' = "cancelled" /\ faulty' = faulty /\ slips' = slips
      \/ call' = <<>> /\ answer' = "failed" /\ faulty' = TRUE /\ slips' = slips
  BY <1>1 DEF SetKeyProtection, setKeyProtection, begin, refused, prompted
<1>4. /\ answer' \in {"none", "failed", "cancelled", "enabled", "disabled"} /\ faulty' \in BOOLEAN
      /\ slips' \in {slips, slips \cup {"unresolved"}}
  BY <1>2, <1>3
<1>5. Lost' = Lost
  BY <1>4 DEF Lost, Losses
<1>6. CallInv'
  <2>1. CASE call' = <<>>
    BY <2>1 DEF CallInv
  <2>2. CASE call' = enable(mem.disabled) /\ mem.mode = "DISABLED" /\ mem.disabled # None
    BY <1>1, <2>2 DEF CallInv
  <2>3. CASE call' = disable(mem.protected) /\ mem.mode = "ENABLED" /\ mem.protected # None
    BY <1>1, <2>3 DEF CallInv
  <2>4. ASSUME mem.mode = "ENABLING", NEW p \in recoverEnabling,
               call' = IF mem.protected # None THEN p \o disable(mem.protected) ELSE p
        PROVE  CallInv'
    <3>1. p \in prepareAfterAuthentication
      BY <2>4 DEF prepareAfterAuthentication
    <3> QED BY <1>1, <1>2, <2>4, <3>1, Plans DEF CallInv, duplicate
  <2> QED BY <1>3, <2>1, <2>2, <2>3, <2>4
<1>7. KeyInv' /\ ModeInv'
  <2>1. "phantomCopy" \notin slips' => "phantomCopy" \notin slips
    BY <1>4
  <2> QED BY <1>1, <1>5, <2>1 DEF Inv, KeysInv, KeyInv, ModeInv, Held
<1>8. GateInv'
  <2> SUFFICES ASSUME Clean' PROVE GateInv'
    BY DEF GateInv
  <2>1. Clean
    BY <1>4 DEF Clean
  <2>2. ASSUME answer' = "enabled"
        PROVE  mem.mode = "ENABLED" /\ mem.disabled = None /\ mem.protected # None
    <3>1. mem.mode # "DISABLED" /\ slips' = slips \cup {f \in {"unresolved"} : incomplete}
      BY <1>3, <2>2
    <3>2. ~incomplete
      BY <3>1 DEF Clean
    <3>3. mem.mode = "ENABLED" /\ mem.disabled = None
      BY <1>2, <3>1, <3>2 DEF incomplete, Prefs, Modes
    <3>4. "phantomCopy" \notin slips
      BY <2>1 DEF Clean
    <3> QED BY <3>3, <3>4 DEF Inv, KeysInv, ModeInv
  <2> QED BY <1>1, <2>1, <2>2 DEF Inv, KeysInv, GateInv
<1>9. ActiveInv'
  BY <1>1 DEF Inv, KeysInv, ActiveInv, prepared, Probed
<1>10. PhaseInv'
  BY <1>1 DEF Inv, FilesInv, PhaseInv, fileVars, exists, hasArtifacts, opens
<1>11. FilesInv'
  <2>1. slips \subseteq slips' /\ answer' \in Answers
    BY <1>4 DEF Answers
  <2> QED BY <1>1, <1>2, <1>4, <1>10, <2>1, FilesStay DEF Inv
<1> QED BY <1>6, <1>7, <1>8, <1>9, <1>11 DEF Inv, KeysInv

\* A kill leaves what is on file.
LEMMA Kills ==
  ASSUME Inv, Kill
  PROVE  Inv'
<1>1. /\ mem' = disk /\ disk' = disk /\ active' = "none" /\ call' = <<>> /\ answer' = "none"
      /\ faulty' = FALSE /\ slips' = slips /\ swap' = NoSwap
      /\ swap'.todo = <<>> /\ swap'.thrown = FALSE
      /\ swap' = [todo |-> swap'.todo, thrown |-> FALSE]
      /\ UNCHANGED <<file, side, hasData>>
  BY DEF Kill, killKeys, NoSwap
<1>2. /\ start' \in [at : Phases, secretStored : BOOLEAN, existing : BOOLEAN, encrypted : BOOLEAN]
      /\ start'.at = "down" /\ ~start'.existing /\ ~start'.encrypted
  BY DEF Kill, Down, Phases
<1>3. Lost' = Lost /\ Clean' = Clean
  BY <1>1 DEF Lost, Clean
<1>4. KeyInv' /\ ModeInv' /\ GateInv'
  BY <1>1, <1>3 DEF Inv, KeysInv, KeyInv, ModeInv, GateInv, Held
<1>5. CallInv' /\ ActiveInv'
  BY <1>1, <1>2 DEF CallInv, ActiveInv, prepared, Probed
<1>6. TypeInv' /\ ShapeInv' /\ StageInv' /\ ThrownInv'
  BY <1>1, <1>2 DEF Inv, FilesInv, TypeInv, ShapeInv, StageInv, Stage, ThrownInv
<1>7. PhaseInv' /\ RecoveryInv' /\ ConvertInv'
  BY <1>1, <1>2 DEF PhaseInv, Probed, SwapPhases, RecoveryInv, ConvertInv
<1>8. SideInv' /\ FileInv'
  BY <1>1, <1>3 DEF Inv, FilesInv, SideInv, FileInv, exists, hasArtifacts
<1>9. FaultInv'
  BY <1>1, <1>2 DEF FaultInv
<1> QED BY <1>4, <1>5, <1>6, <1>7, <1>8, <1>9 DEF Inv, FilesInv, KeysInv

\* A recreated activity leaves what is in memory.
LEMMA Recreates ==
  ASSUME Inv, Recreate
  PROVE  Inv'
<1>1. /\ start.at \in {"running", "failed"} /\ swap = NoSwap /\ call = <<>>
      /\ active' = "none" /\ answer' = "none" /\ faulty' = FALSE
      /\ UNCHANGED <<mem, disk, call, slips, fileVars, hasData>>
  BY DEF Recreate, recreateKeys, Inv, FilesInv, PhaseInv, SwapPhases
<1>2. /\ start' \in [at : Phases, secretStored : BOOLEAN, existing : BOOLEAN, encrypted : BOOLEAN]
      /\ start'.at = "down" /\ ~start'.existing /\ ~start'.encrypted
  BY DEF Recreate, Down, Phases
<1>3. KeyInv' /\ ModeInv' /\ GateInv'
  BY <1>1 DEF Inv, KeysInv, KeyInv, ModeInv, GateInv, Held, Lost, Clean
<1>4. CallInv' /\ ActiveInv'
  BY <1>1, <1>2 DEF CallInv, ActiveInv, prepared, Probed
<1>5. PhaseInv'
  BY <1>1, <1>2 DEF PhaseInv, fileVars, SwapPhases, Probed
<1>6. FilesInv'
  BY <1>1, <1>2, <1>5, FilesStay DEF Inv, FilesInv, TypeInv, Answers
<1> QED BY <1>3, <1>4, <1>6 DEF Inv, KeysInv

\* The invariant holds at the first start, ...
LEMMA Starts ==
  ASSUME Init
  PROVE  Inv
<1>1. /\ mem = NoPrefs /\ disk = NoPrefs /\ active = "none" /\ call = <<>> /\ answer = "none"
      /\ faulty = FALSE /\ slips = {} /\ swap = NoSwap /\ start = Down
      /\ hasData = exists("main") /\ swap.todo = <<>> /\ swap.thrown = FALSE
      /\ swap = [todo |-> <<>>, thrown |-> FALSE] /\ start.at = "down"
  BY DEF Init, KeyInit, FileInit, NoSwap, Down
<1>2. /\ NoPrefs \in Prefs /\ NoPrefs.mode = "DISABLED" /\ NoPrefs.disabled = None
      /\ NoPrefs.protected = None
  BY DEF NoPrefs, Prefs, Modes, Copies
<1>3. /\ file \in [Paths -> Contents] /\ file["tmp"] = Absent /\ file["bak"] = Absent
      /\ file["main"] \in {Absent, Plain}
  BY DEF Init, FileInit, Paths, Contents
<1>4. /\ Absent.is = "absent" /\ Plain.is = "plain" /\ Plain.full
  BY DEF Absent, Plain
<1>5. ~exists("tmp") /\ ~exists("bak") /\ ~hasArtifacts
  BY <1>3, <1>4 DEF exists, hasArtifacts
<1>6. TypeInv
  <2>1. start \in [at : Phases, secretStored : BOOLEAN, existing : BOOLEAN, encrypted : BOOLEAN]
    BY <1>1 DEF Down, Phases
  <2>2. side \in [Paths -> {"none", "plain", "cipher"}]
    BY DEF Init, FileInit
  <2>3. hasData \in BOOLEAN
    BY <1>1 DEF exists
  <2> QED BY <1>1, <1>2, <1>3, <2>1, <2>2, <2>3 DEF TypeInv
<1>7. ShapeInv
  BY <1>3, <1>4 DEF ShapeInv, Shapes, shape
<1>8. StageInv /\ ThrownInv /\ RecoveryInv /\ ConvertInv /\ FaultInv
  BY <1>1 DEF StageInv, Stage, ThrownInv, RecoveryInv, ConvertInv, FaultInv
<1>9. PhaseInv
  BY <1>1 DEF PhaseInv, Down, SwapPhases, Probed
<1>10. SideInv
  BY <1>1, <1>5 DEF SideInv
<1>11. FileInv
  BY <1>1, <1>3, <1>4, <1>5 DEF FileInv, Paths, exists
<1>12. KeyInv /\ ModeInv /\ GateInv
  BY <1>1, <1>2 DEF KeyInv, ModeInv, GateInv, Held
<1>13. CallInv /\ ActiveInv
  BY <1>1 DEF CallInv, ActiveInv, prepared, Probed
<1> QED BY <1>6, <1>7, <1>8, <1>9, <1>10, <1>11, <1>12, <1>13 DEF Inv, FilesInv, KeysInv

\* ... when nothing happens, ...
LEMMA Unmoved ==
  ASSUME Inv, UNCHANGED vars
  PROVE  Inv'
<1> USE DEF vars, keyVars, fileVars
<1>1. ActiveInv'
  BY DEF Inv, KeysInv, ActiveInv, prepared, passphrase
<1>2. KeysInv' /\ (~Lost' => ~Lost)
  BY <1>1, StartKeepsKeys DEF Inv
<1>3. TypeInv' /\ ShapeInv' /\ StageInv' /\ ThrownInv' /\ RecoveryInv'
  BY DEF Inv, FilesInv, TypeInv, ShapeInv, StageInv, ThrownInv, RecoveryInv
<1>4. PhaseInv' /\ ConvertInv'
  BY DEF Inv, FilesInv, PhaseInv, ConvertInv, exists, hasArtifacts, opens, Lost, passphrase
<1>5. SideInv' /\ FileInv' /\ FaultInv'
  BY DEF Inv, FilesInv, SideInv, FileInv, FaultInv, exists, hasArtifacts, Lost
<1> QED BY <1>2, <1>3, <1>4, <1>5 DEF Inv, FilesInv

-----------------------------------------------------------------------------
(* The theorems *)

\* ... and after every step.
LEMMA Steps ==
  ASSUME Inv, [Next]_vars
  PROVE  Inv'
<1>1. CASE Prepare
  BY <1>1, Prepares
<1>2. CASE PrepareRefused
  BY <1>2, Refuses
<1>3. CASE ProbeDatabase
  BY <1>3, ProbesDatabase
<1>4. CASE ProbeEncryption
  BY <1>4, ProbesEncryption
<1>5. CASE ClassifyDatabase
  BY <1>5, Classifies
<1>6. CASE EnsureSecret
  BY <1>6, Ensures
<1>7. CASE SecretEnsured
  BY <1>7, Ensured
<1>8. CASE OpenConnection
  BY <1>8, OpensConnection
<1>9. CASE Convert
  BY <1>9, BeginsConversion
<1>10. CASE Converted
  BY <1>10, EndsConversion
<1>11. CASE OpenOrCreate
  BY <1>11, OpensOrCreates
<1>12. CASE StartFails
  BY <1>12, Fails
<1>13. CASE WriteJournal
  BY <1>13, JournalWritten
<1>14. CASE \E enabled \in BOOLEAN : SetKeyProtection(enabled)
  BY <1>14, SetsKeyProtection
<1>15. CASE KeyCallStep
  BY <1>15, KeyCalls
<1>16. CASE FileOperation
  BY <1>16, FileOperations
<1>17. CASE Kill
  BY <1>17, Kills
<1>18. CASE Recreate
  BY <1>18, Recreates
<1>19. CASE UNCHANGED vars
  BY <1>19, Unmoved
<1> QED BY <1>1, <1>2, <1>3, <1>4, <1>5, <1>6, <1>7, <1>8, <1>9, <1>10, <1>11, <1>12, <1>13,
           <1>14, <1>15, <1>16, <1>17, <1>18, <1>19 DEF Next

\* Whatever is killed, fails or is retried: what is left to do fits the files that are
\* there, and the preference files and the memory hold one passphrase between them, the one
\* of every encrypted file, unless one of the known losses has happened.
THEOREM InvHolds == Spec => []Inv
BY Starts, Steps, PTL DEF Spec

\* A database or its backup is complete, and its passphrase on file.
LEMMA DataIsReadable ==
  ASSUME Inv
  PROVE  DataSurvives
<1> SUFFICES ASSUME hasData, ~Lost PROVE readable
  BY DEF DataSurvives, Lost
<1>1. file \in [Paths -> Contents] /\ disk \in Prefs
  BY DEF Inv, FilesInv, TypeInv
<1>2. exists("main") \/ exists("bak")
  BY DEF Inv, FilesInv, FileInv, ShapeInv, Shapes, shape, exists, hasArtifacts
<1>3. CASE exists("bak")
  BY <1>3 DEF Inv, FilesInv, FileInv, readable, Plain, Paths
<1>4. CASE exists("main")
  <2>1. file["main"].is \in {"plain", "cipher"} /\ file["main"].full
    BY <1>4 DEF Inv, FilesInv, FileInv
  <2>2. file["main"].is = "cipher" => file["main"].key \in durableKeys
    <3>1. file["main"].is = "cipher" => file["main"].key \in Keys
      BY <1>1, ContentsAre DEF Paths
    <3> QED BY <3>1, KeysAssumption DEF Inv, FilesInv, FileInv, durableKeys, Paths
  <2> QED BY <2>1, <2>2 DEF readable, Paths
<1> QED BY <1>2, <1>3, <1>4

\* DataSurvives for any passphrases: no conversion, recovery or move of the passphrase
\* loses the only copy of the journal or the only key to it, whatever is killed or fails
\* (EncryptionFileSwap.java, KeyProtectionState.java), but for the known losses.
THEOREM DataOutlivesFailures == Spec => []DataSurvives
BY InvHolds, DataIsReadable, PTL

\* EnabledMeansGated for any passphrases: "enabled" is only reported when the protected
\* copy is on file and no other one, so the next process has to prompt for it
\* (SecureEncryptionSecretStore.java), but for the known misreports.
THEOREM EnabledIsGated == Spec => []EnabledMeansGated
<1>1. Inv => EnabledMeansGated
  <2> SUFFICES ASSUME Inv, answer = "enabled", call = <<>>, Clean
               PROVE  disk.mode # "DISABLED" /\ disk.disabled = None /\ disk.protected # None
    BY DEF EnabledMeansGated, Clean
  <2>1. mem.mode = "ENABLED" /\ mem.disabled = None /\ mem.protected # None
    BY DEF Inv, KeysInv, GateInv
  <2> QED BY <2>1 DEF Inv, KeysInv, GateInv
<1> QED BY <1>1, InvHolds, PTL

\* RunningIsReconciled for any passphrases: once the start has opened the database
\* (openNativeDatabase()), it is an encrypted one, and no file of a conversion is left.
THEOREM OpenedIsReconciled == Spec => []RunningIsReconciled
<1>1. Inv => RunningIsReconciled
  BY DEF Inv, FilesInv, PhaseInv, RunningIsReconciled, Probed, SwapPhases, hasArtifacts
<1> QED BY <1>1, InvHolds, PTL

\* StartupReconciles for any passphrases: a start that meets no failure itself ends in an
\* open database, whatever earlier processes left behind (recover() and
\* KeyProtectionState.recoverEnabling()), but for the known losses.
THEOREM UndisturbedStartEnds == Spec => []StartupReconciles
<1>1. Inv => StartupReconciles
  BY DEF Inv, FilesInv, FaultInv, StartupReconciles, Lost
<1> QED BY <1>1, InvHolds, PTL

\* deleteSidecars() at the database comes after its journal has been rolled back.
LEMMA JournalsLeft ==
  ASSUME Inv, deleteSidecars, op.at = "main"
  PROVE  side["main"] # file["main"].is
<1>1. swap.todo \in AllLines /\ swap.todo # <<>> /\ op.do = "strip"
  BY InLine DEF Inv, deleteSidecars, Doing
<1>2. swap.todo \notin {<<>>, converting1, throwing}
  BY <1>1, Kinds DEF op
<1>3. side["main"] = "none"
  BY <1>2 DEF Inv, FilesInv, SideInv
<1>4. file["main"] \in Contents
  BY DEF Inv, FilesInv, TypeInv, Paths
<1>5. file["main"].is # "none"
  BY <1>4 DEF Contents, Absent, Zero, Plain, Cipher
<1> QED BY <1>3, <1>5

\* LiveJournalIsKept for any passphrases: what deleteSidecars() removes next to the
\* database is never the journal that the database there needs to roll back.
THEOREM LiveJournalStays == Spec => LiveJournalIsKept
<1>1. Inv /\ [Next]_vars => [deleteSidecars
      /\ op.at = "main" => side["main"] # file["main"].is]_vars
  BY JournalsLeft
<1> QED BY <1>1, InvHolds, PTL DEF Spec, LiveJournalIsKept
=============================================================================
