------------------------------ MODULE WebAccount ------------------------------
(***************************************************************************)
(* The web server's only account: setup, login, logout, settings and       *)
(* password.  Better Auth is external: one user per e-mail address, and    *)
(* every setup uses the same address.                                      *)
(***************************************************************************)
EXTENDS Naturals, FiniteSets

CONSTANTS Setups, Passwords, Zones, None, MaxChanges

ASSUME AccountAssumption == None \notin Passwords \cup Zones /\ MaxChanges \in Nat

VARIABLES
  user,      \* the account's password, or None: no user
  settings,  \* the time zone of its settings row, or None: no row
  setup,     \* setup[r]: pc, password and zone of a setup request
  put,       \* a settings request: pc ("idle", "create" or "update"), zone
  session,   \* the browser's cookie is a live session
  changes    \* used up bound

accountVars == <<user, settings, setup, put, session, changes>>

NotPut == [pc |-> "idle", zone |-> None]

AccountInit ==
  /\ user = None /\ settings = None
  /\ setup \in [Setups -> [pc : {"new"}, password : Passwords, zone : Zones]]
  /\ put = NotPut
  /\ session = FALSE /\ changes = 0

becomes(r, pc) == setup' = [setup EXCEPT ![r].pc = pc]

\* POST /setup: refused when there is a user.
Setup(r) ==
  /\ setup[r].pc = "new"
  /\ becomes(r, IF user = None THEN "signUp" ELSE "refused")
  /\ UNCHANGED <<user, settings, put, session, changes>>

\* Mutant: the answer of the sign-up is not looked at.
SignUpUnchecked(r) ==
  /\ setup[r].pc = "signUp"
  /\ user' = IF user = None THEN setup[r].password ELSE user
  /\ becomes(r, "settings")
  /\ UNCHANGED <<settings, put, session, changes>>

\* signUpEmail(): the address may have been taken since.
SignUp(r) ==
  /\ setup[r].pc = "signUp"
  /\ \/ /\ user = None
        /\ user' = setup[r].password
        /\ becomes(r, "settings")
     \/ becomes(r, "failed") /\ UNCHANGED user
  /\ UNCHANGED <<settings, put, session, changes>>

\* createSettings(): fails on a row that is there; the answer carries the session.
SetupSettings(r) ==
  /\ setup[r].pc = "settings"
  /\ \/ /\ settings = None
        /\ settings' = setup[r].zone
        /\ becomes(r, "ok")
        /\ session' \in {session, TRUE}
     \/ becomes(r, "failed") /\ UNCHANGED <<settings, session>>
  /\ UNCHANGED <<user, put, changes>>

\* POST /login
Login(p) ==
  /\ user = p /\ ~session
  /\ session' = TRUE
  /\ UNCHANGED <<user, settings, setup, put, changes>>

\* POST /logout, or the session expires
Logout ==
  /\ session
  /\ session' = FALSE
  /\ UNCHANGED <<user, settings, setup, put, changes>>

\* PUT /settings reads the row to choose between insert and update.
PutSettings(z) ==
  /\ session /\ put = NotPut /\ changes < MaxChanges
  /\ put' = [pc |-> IF settings = None THEN "create" ELSE "update", zone |-> z]
  /\ changes' = changes + 1
  /\ UNCHANGED <<user, settings, setup, session>>

\* The insert fails when setup has inserted the row since.
FinishPut ==
  /\ put # NotPut
  /\ settings' = IF put.pc = "create" /\ settings # None THEN settings ELSE put.zone
  /\ put' = NotPut
  /\ UNCHANGED <<user, setup, session, changes>>

\* POST /settings/password, here or in another browser: other sessions end.
ChangePassword(p) ==
  /\ user # None /\ p # user /\ changes < MaxChanges
  /\ user' = p
  /\ session' \in {session, FALSE}
  /\ changes' = changes + 1
  /\ UNCHANGED <<settings, setup, put>>

\* The server stops: requests in progress get no answer.
Stop ==
  /\ put # NotPut \/ \E r \in Setups : setup[r].pc \in {"signUp", "settings"}
  /\ setup' = [r \in Setups |-> IF setup[r].pc \in {"signUp", "settings"}
                                THEN [setup[r] EXCEPT !.pc = "failed"] ELSE setup[r]]
  /\ put' = NotPut
  /\ UNCHANGED <<user, settings, session, changes>>

AccountNext ==
  \/ \E r \in Setups : Setup(r) \/ SignUp(r) \/ SetupSettings(r)
  \/ \E p \in Passwords : Login(p) \/ ChangePassword(p)
  \/ Logout \/ (\E z \in Zones : PutSettings(z)) \/ FinishPut \/ Stop

-----------------------------------------------------------------------------
Told(r) == setup[r].pc = "ok"

\* Of several setups at once at most one is told that it worked, and until the
\* owner changes them the password and the time zone are that one's; settings
\* belong to a user, also when a request fails or the server stops halfway.
SetupAnswerIsTrue ==
  /\ Cardinality({r \in Setups : Told(r)}) <= 1
  /\ \A r \in Setups : Told(r) =>
       /\ user # None /\ settings # None
       /\ changes = 0 => user = setup[r].password /\ settings = setup[r].zone
  /\ settings # None => user # None
=============================================================================
