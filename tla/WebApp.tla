-------------------------------- MODULE WebApp --------------------------------
(* The web application: the account, and the editor of whoever is signed in. *)
EXTENDS WebJournal, WebAccount

vars == <<journalVars, accountVars>>

Init == JournalInit /\ AccountInit

Next ==
  \/ JournalNext(session) /\ UNCHANGED accountVars
  \/ AccountNext /\ UNCHANGED journalVars

Spec == Init /\ [][Next]_vars
=============================================================================
