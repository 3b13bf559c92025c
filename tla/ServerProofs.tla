---------------------------- MODULE ServerProofs ----------------------------
(***************************************************************************)
(* What holds of the web server and its pages, for all values of the       *)
(* constants.                                                              *)
(*                                                                         *)
(* The web application, for any number of setup requests, edits, pages and *)
(* PUTs under way: a setup that is told it worked is the one whose account *)
(* exists, and an editor at rest has its text stored unless one of the     *)
(* known slips happened.                                                   *)
(*                                                                         *)
(* The weekly digest, for any users, runs, time zones and any number of    *)
(* restarts: the unique key of the delivery table is enough, no digest is  *)
(* acknowledged twice.  The invariant that carries this proof says what a  *)
(* run in each phase holds (Holding) and who can hold what                 *)
(* (ClaimIsExclusive): a run that is about to undo its claim is the only   *)
(* one that ever had it, and its mail was never acknowledged, so deleting  *)
(* the row frees nothing else.                                             *)
(***************************************************************************)
EXTENDS WebApp, WeeklyDigest, TLAPS, FiniteSetTheorems, SequenceTheorems

-----------------------------------------------------------------------------
\* The account.  A setup past its sign-up is the only one there will ever be:
\* the address is taken, whatever the settings row does later.
SetupSteps == {"new", "refused", "signUp", "settings", "ok", "failed"}

AccountType ==
  /\ user \in Passwords \cup {None}
  /\ settings \in Zones \cup {None}
  /\ setup \in [Setups -> [pc : SetupSteps, password : Passwords, zone : Zones]]
  /\ put \in [pc : {"idle", "create", "update"}, zone : Zones \cup {None}]
  /\ session \in BOOLEAN
  /\ changes \in Nat

SignedUp(r) == setup[r].pc \in {"settings", "ok"}

\* Only the owner of an account holds a session or sends settings, and the
\* passwords and zones the setup stored change with a change the owner makes.
AccountInv ==
  /\ AccountType
  /\ \A r, q \in Setups : SignedUp(r) /\ SignedUp(q) => r = q
  /\ \A r \in Setups : SignedUp(r) =>
       user # None /\ (changes = 0 => user = setup[r].password)
  /\ \A r \in Setups : Told(r) =>
       settings # None /\ (changes = 0 => settings = setup[r].zone)
  /\ session \/ settings # None => user # None
  /\ put # NotPut => user # None /\ changes > 0 /\ put.zone # None

\* One setup's step changes that setup alone.
LEMMA BecomesChangesOne ==
  ASSUME AccountType, NEW r \in Setups, NEW pc \in SetupSteps, becomes(r, pc)
  PROVE  /\ setup' \in [Setups -> [pc : SetupSteps, password : Passwords, zone : Zones]]
         /\ setup'[r].pc = pc
         /\ \A q \in Setups : setup'[q].password = setup[q].password /\ setup'[q].zone = setup[q].zone
         /\ \A q \in Setups \ {r} : setup'[q] = setup[q]
BY DEF AccountType, becomes

LEMMA AccountStep ==
  ASSUME AccountInv, [AccountNext]_accountVars
  PROVE  AccountInv'
<1> USE AccountAssumption DEF AccountInv
<1>1. ASSUME NEW r \in Setups, Setup(r)
      PROVE  AccountInv'
  <2>1. \E pc \in {"signUp", "refused"} : becomes(r, pc)
    BY <1>1 DEF Setup
  <2>2. PICK pc \in {"signUp", "refused"} : becomes(r, pc)
    BY <2>1
  <2>3. /\ setup' \in [Setups -> [pc : SetupSteps, password : Passwords, zone : Zones]]
        /\ setup'[r].pc = pc
        /\ \A q \in Setups \ {r} : setup'[q] = setup[q]
    BY <2>2, BecomesChangesOne DEF SetupSteps
  <2> QED
    BY <1>1, <2>3 DEF Setup, AccountType, SignedUp, Told
<1>2. ASSUME NEW r \in Setups, SignUp(r)
      PROVE  AccountInv'
  <2>1. CASE user = None /\ user' = setup[r].password /\ becomes(r, "settings")
    <3>1. /\ setup' \in [Setups -> [pc : SetupSteps, password : Passwords, zone : Zones]]
          /\ setup'[r].pc = "settings"
          /\ \A q \in Setups : setup'[q].password = setup[q].password /\ setup'[q].zone = setup[q].zone
          /\ \A q \in Setups \ {r} : setup'[q] = setup[q]
      BY <2>1, BecomesChangesOne DEF SetupSteps
    <3>2. setup[r].password \in Passwords
      BY DEF AccountType
    <3>3. \A q \in Setups \ {r} : ~SignedUp(q)'
      BY <2>1, <3>1 DEF SignedUp
    <3> QED
      BY <1>2, <2>1, <3>1, <3>2, <3>3 DEF SignUp, AccountType, SignedUp, Told
  <2>2. CASE becomes(r, "failed") /\ UNCHANGED user
    <3>1. /\ setup' \in [Setups -> [pc : SetupSteps, password : Passwords, zone : Zones]]
          /\ setup'[r].pc = "failed"
          /\ \A q \in Setups \ {r} : setup'[q] = setup[q]
      BY <2>2, BecomesChangesOne DEF SetupSteps
    <3> QED
      BY <1>2, <2>2, <3>1 DEF SignUp, AccountType, SignedUp, Told
  <2> QED
    BY <1>2, <2>1, <2>2 DEF SignUp
<1>3. ASSUME NEW r \in Setups, SetupSettings(r)
      PROVE  AccountInv'
  <2>0. SignedUp(r) /\ user # None
    BY <1>3 DEF SetupSettings, SignedUp
  <2>1. CASE /\ settings = None /\ settings' = setup[r].zone /\ becomes(r, "ok")
             /\ session' \in {session, TRUE}
    <3>1. /\ setup' \in [Setups -> [pc : SetupSteps, password : Passwords, zone : Zones]]
          /\ setup'[r].pc = "ok"
          /\ \A q \in Setups : setup'[q].password = setup[q].password /\ setup'[q].zone = setup[q].zone
          /\ \A q \in Setups \ {r} : setup'[q] = setup[q]
      BY <2>1, BecomesChangesOne DEF SetupSteps
    <3>2. setup[r].zone \in Zones
      BY DEF AccountType
    <3>3. \A q \in Setups \ {r} : ~SignedUp(q)' /\ ~Told(q)'
      BY <2>0, <3>1 DEF SignedUp, Told
    <3> QED
      BY <1>3, <2>0, <2>1, <3>1, <3>2, <3>3 DEF SetupSettings, AccountType, SignedUp, Told
  <2>2. CASE becomes(r, "failed") /\ UNCHANGED <<settings, session>>
    <3>1. /\ setup' \in [Setups -> [pc : SetupSteps, password : Passwords, zone : Zones]]
          /\ setup'[r].pc = "failed"
          /\ \A q \in Setups \ {r} : setup'[q] = setup[q]
      BY <2>2, BecomesChangesOne DEF SetupSteps
    <3> QED
      BY <1>3, <2>2, <3>1 DEF SetupSettings, AccountType, SignedUp, Told
  <2> QED
    BY <1>3, <2>1, <2>2 DEF SetupSettings
<1>4. ASSUME NEW p \in Passwords, Login(p) \/ ChangePassword(p)
      PROVE  AccountInv'
  <2>1. CASE Login(p)
    <3>1. user # None /\ session' = TRUE /\ UNCHANGED <<user, settings, setup, put, changes>>
      BY <2>1 DEF Login
    <3> QED
      BY <3>1 DEF AccountType, SignedUp, Told
  <2>2. CASE ChangePassword(p)
    <3>0. session' \in BOOLEAN
      BY <2>2, Zenon DEF ChangePassword, AccountType
    <3>1. /\ user' \in Passwords /\ user' # None /\ session' \in BOOLEAN /\ user # None
          /\ changes' \in Nat /\ changes' > 0 /\ UNCHANGED <<settings, setup, put>>
      BY <2>2, <3>0 DEF ChangePassword, AccountType
    <3>2. changes' # 0
      BY <3>1
    <3>3. AccountType'
      BY <3>1 DEF AccountType
    <3>4. \A r \in Setups : /\ SignedUp(r)' = SignedUp(r)
                            /\ Told(r)' = Told(r)
      BY <3>1 DEF SignedUp, Told
    <3>5. put' # NotPut => put'.zone # None
      BY <3>1
    <3> QED
      BY <3>1, <3>2, <3>3, <3>4, <3>5
  <2> QED
    BY <1>4, <2>1, <2>2
<1>5. CASE Logout
  BY <1>5 DEF Logout, AccountType, SignedUp, Told
<1>6. ASSUME NEW z \in Zones, PutSettings(z)
      PROVE  AccountInv'
  BY <1>6 DEF PutSettings, AccountType, SignedUp, Told, NotPut
<1>7. CASE FinishPut
  BY <1>7 DEF FinishPut, AccountType, SignedUp, Told, NotPut
<1>8. CASE Stop
  <2>1. /\ setup' \in [Setups -> [pc : SetupSteps, password : Passwords, zone : Zones]]
        /\ \A q \in Setups : /\ setup'[q].pc \in {setup[q].pc, "failed"}
                             /\ setup'[q].password = setup[q].password
                             /\ setup'[q].zone = setup[q].zone
    BY <1>8 DEF Stop, AccountType, SetupSteps
  <2> QED
    BY <1>8, <2>1 DEF Stop, AccountType, SignedUp, Told, NotPut
<1>9. CASE UNCHANGED accountVars
  BY <1>9 DEF accountVars, AccountType, SignedUp, Told
<1> QED
  BY <1>1, <1>2, <1>3, <1>4, <1>5, <1>6, <1>7, <1>8, <1>9 DEF AccountNext

LEMMA AccountInvariant == Spec => []AccountInv
<1>1. Init => AccountInv
  <2> SUFFICES ASSUME Init PROVE AccountInv
    OBVIOUS
  <2>1. /\ setup \in [Setups -> [pc : {"new"}, password : Passwords, zone : Zones]]
        /\ user = None /\ settings = None /\ put = NotPut /\ session = FALSE /\ changes = 0
    BY DEF Init, AccountInit
  <2>2. \A r \in Setups : setup[r].pc = "new"
    BY <2>1
  <2>3. AccountType
    BY <2>1 DEF AccountType, SetupSteps, NotPut
  <2> QED
    BY <2>1, <2>2, <2>3 DEF AccountInv, SignedUp, Told
<1>2. AccountInv /\ [Next]_vars => AccountInv'
  BY AccountStep DEF Next, vars
<1> QED
  BY <1>1, <1>2, PTL DEF Spec

\* At most one of any number of overlapping setups is told that it worked, and
\* the account and its settings are that one's until the owner changes them.
THEOREM SetupAnswersAreTrue == Spec => []SetupAnswerIsTrue
<1>1. AccountInv => SetupAnswerIsTrue
  <2> SUFFICES ASSUME AccountInv PROVE SetupAnswerIsTrue
    OBVIOUS
  <2> DEFINE told == {r \in Setups : Told(r)}
  <2>1. \A r, q \in told : r = q
    BY DEF AccountInv, SignedUp, Told
  <2>2. Cardinality(told) <= 1
    <3>1. CASE told = {}
      BY <3>1, FS_EmptySet
    <3>2. CASE told # {}
      <4>1. PICK r \in told : TRUE
        BY <3>2
      <4>2. told = {r}
        BY <2>1, <4>1
      <4>3. Cardinality({r}) = 1
        BY FS_Singleton
      <4> HIDE DEF told
      <4> QED
        BY <4>2, <4>3
    <3> QED
      BY <3>1, <3>2
  <2>3. \A r \in Setups : Told(r) => SignedUp(r)
    BY DEF Told, SignedUp
  <2> QED
    BY <2>2, <2>3 DEF AccountInv, SetupAnswerIsTrue
<1> QED
  BY <1>1, AccountInvariant, PTL

-----------------------------------------------------------------------------
\* The editor.
Requests == [text : Texts, state : {"sent", "applied", "refused"}, late : BOOLEAN, page : Nat]

JournalType ==
  /\ stored \in Texts
  /\ net \in Seq(Requests)
  /\ ed \in [content : Texts \cup {NoText}, lastSaved : Texts \cup {NoText},
             status : {"idle", "saving", "saved", "error"},
             debounce : Texts \cup {NoText}, retry : BOOLEAN, lost : Nat]
  /\ pages \in Nat
  /\ slips \subseteq Slips

\* Without a slip, what takes the editor's text to the database when no debounce
\* is armed: a retry timer, a refused PUT whose answer will arm one, a PUT of that
\* text that no other text follows, or nothing, because the text is stored and
\* every other text still under way is late.
willRetry == ed.retry \/ ed.lost > 0
refusalUnderWay == \E i \in DOMAIN net : net[i].state = "refused"
textUnderWay ==
  \E i \in DOMAIN net :
    /\ net[i].state = "sent"
    /\ \A k \in DOMAIN net : k >= i => net[k].text = ed.content
textStored ==
  /\ stored = ed.content
  /\ \A k \in DOMAIN net :
       net[k].state = "sent" /\ net[k].text # ed.content => net[k].late

JournalInv ==
  /\ JournalType
  /\ ~open => ed = Closed /\ net = <<>>
  /\ ed.debounce # NoText => ed.debounce = ed.content
  /\ slips = {} => \A i \in DOMAIN net : net[i].page = pages
  /\ slips = {} /\ open /\ ed.debounce = NoText =>
       willRetry \/ refusalUnderWay \/ textUnderWay \/ textStored

LEMMA RemoveAtFacts ==
  ASSUME NEW S, NEW q \in Seq(S), NEW i \in 1 .. Len(q)
  PROVE  /\ RemoveAt(q, i) \in Seq(S)
         /\ Len(RemoveAt(q, i)) = Len(q) - 1
         /\ \A j \in 1 .. Len(q) - 1 : RemoveAt(q, i)[j] = IF j < i THEN q[j] ELSE q[j + 1]
<1> DEFINE front == SubSeq(q, 1, i - 1)
           back == SubSeq(q, i + 1, Len(q))
<1>1. /\ front \in Seq(S) /\ Len(front) = i - 1
      /\ \A j \in 1 .. i - 1 : front[j] = q[j]
  OBVIOUS
<1>2. /\ back \in Seq(S) /\ Len(back) = Len(q) - i
      /\ \A j \in 1 .. Len(q) - i : back[j] = q[i + j]
  OBVIOUS
<1> HIDE DEF front, back
<1>3. /\ front \o back \in Seq(S) /\ Len(front \o back) = Len(q) - 1
      /\ \A j \in 1 .. Len(q) - 1 : (front \o back)[j] = IF j < i THEN front[j] ELSE back[j - (i - 1)]
  <2>1. i \in Nat /\ Len(q) \in Nat /\ Len(front) + Len(back) = Len(q) - 1
    BY <1>1, <1>2
  <2>2. /\ front \o back \in Seq(S) /\ Len(front \o back) = Len(front) + Len(back)
        /\ \A j \in 1 .. Len(front) + Len(back) :
             (front \o back)[j] = IF j <= Len(front) THEN front[j] ELSE back[j - Len(front)]
    BY <1>1, <1>2, ConcatProperties, Zenon
  <2>3. \A j \in 1 .. Len(q) - 1 : j <= i - 1 <=> j < i
    BY <2>1
  <2>4. ASSUME NEW j \in 1 .. Len(q) - 1
        PROVE  (front \o back)[j] = IF j < i THEN front[j] ELSE back[j - (i - 1)]
    <3>1. j \in 1 .. Len(front) + Len(back)
      BY <2>1
    <3>2. (front \o back)[j] = IF j <= i - 1 THEN front[j] ELSE back[j - (i - 1)]
      BY <1>1, <2>2, <3>1
    <3> QED
      BY <2>3, <3>2
  <2> QED
    BY <2>1, <2>2, <2>4
<1>4. ASSUME NEW j \in 1 .. Len(q) - 1
      PROVE  (front \o back)[j] = IF j < i THEN q[j] ELSE q[j + 1]
  <2>1. CASE j < i
    BY <1>1, <1>3, <2>1
  <2>2. CASE j >= i
    <3>1. j - (i - 1) \in 1 .. Len(q) - i
      BY <2>2
    <3>2. i + (j - (i - 1)) = j + 1
      OBVIOUS
    <3> QED
      BY <1>2, <1>3, <2>2, <3>1, <3>2
  <2>3. j < i \/ j >= i
    OBVIOUS
  <2> QED
    BY <2>1, <2>2, <2>3
<1> QED
  BY <1>3, <1>4 DEF RemoveAt, front, back

\* A PUT of the editor's text, sent last, is under way.
LEMMA SaveSendsText ==
  ASSUME JournalType, open, NEW e, e.content = ed.content, save(ed.content, e),
         e \in [content : Texts \cup {NoText}, lastSaved : Texts \cup {NoText},
                status : {"idle", "saving", "saved", "error"},
                debounce : Texts \cup {NoText}, retry : BOOLEAN, lost : Nat]
  PROVE  /\ net' \in Seq(Requests) /\ net' # <<>>
         /\ ed' = [e EXCEPT !.status = "saving"]
         /\ textUnderWay'
         /\ \A i \in DOMAIN net' : net'[i].page = pages \/ (i \in DOMAIN net /\ net'[i] = net[i])
<1>1. ed.content \in Texts
  BY DEF JournalType, open
<1>2. putRequest(ed.content) \in Requests
  BY <1>1 DEF putRequest, Requests, JournalType
<1>3. net' = Append(net, putRequest(ed.content)) /\ ed' = [e EXCEPT !.status = "saving"]
  BY DEF save
<1>4. /\ net' \in Seq(Requests) /\ Len(net') = Len(net) + 1
      /\ net'[Len(net) + 1] = putRequest(ed.content)
      /\ \A i \in 1 .. Len(net) : net'[i] = net[i]
  BY <1>2, <1>3 DEF JournalType
<1>5. Len(net) \in Nat /\ DOMAIN net = 1 .. Len(net) /\ DOMAIN net' = 1 .. Len(net) + 1
  BY <1>4 DEF JournalType
<1>6. ed'.content = ed.content
  BY <1>3
<1>7. textUnderWay'
  <2>1. Len(net) + 1 \in DOMAIN net'
    BY <1>5
  <2>2. /\ net'[Len(net) + 1].state = "sent"
        /\ \A k \in DOMAIN net' : k >= Len(net) + 1 => net'[k].text = ed'.content
    BY <1>4, <1>5, <1>6 DEF putRequest
  <2> QED
    BY <2>1, <2>2 DEF textUnderWay
<1>8. \A i \in DOMAIN net' : net'[i].page = pages \/ (i \in DOMAIN net /\ net'[i] = net[i])
  BY <1>4, <1>5 DEF putRequest
<1> QED
  BY <1>3, <1>4, <1>5, <1>7, <1>8

LEMMA JournalStep ==
  ASSUME JournalInv, NEW sess, JournalNext(sess)
  PROVE  JournalInv'
<1> USE WebTextsAssumption
<1> DEFINE Ed == [content : Texts \cup {NoText}, lastSaved : Texts \cup {NoText},
                  status : {"idle", "saving", "saved", "error"},
                  debounce : Texts \cup {NoText}, retry : BOOLEAN, lost : Nat]
<1>0. /\ JournalType /\ ed \in Ed /\ stored \in Texts /\ pages \in Nat
      /\ net \in Seq(Requests) /\ DOMAIN net = 1 .. Len(net) /\ Len(net) \in Nat
  BY DEF JournalInv, JournalType
<1>1. CASE OpenPage
  <2>1. /\ ed' = [Closed EXCEPT !.content = stored, !.lastSaved = stored]
        /\ slips' = slips \cup {s \in {"left"} : open /\ (ed.content # stored \/ net # <<>>)}
        /\ pages' = pages + 1 /\ UNCHANGED <<stored, net>>
    BY <1>1 DEF OpenPage
  <2>2. /\ ed' \in Ed /\ ed'.content = stored /\ ed'.debounce = NoText
    BY <1>0, <2>1 DEF Closed
  <2>3. slips' \subseteq Slips /\ (slips' = {} => slips = {} /\ net = <<>>)
    BY <1>0, <2>1 DEF JournalInv, JournalType, Slips
  <2>4. JournalType'
    BY <1>0, <2>1, <2>2, <2>3 DEF JournalType
  <2>5. slips' = {} => DOMAIN net' = {}
    BY <2>1, <2>3
  <2>6. slips' = {} => textStored'
    BY <2>1, <2>2, <2>5 DEF textStored
  <2>7. open'
    BY <1>0, <2>2 DEF open
  <2> QED
    BY <2>2, <2>4, <2>5, <2>6, <2>7 DEF JournalInv
<1>2. ASSUME NEW t \in Texts, Type(t)
      PROVE  JournalInv'
  <2>1. /\ open /\ UNCHANGED <<stored, net, pages, slips>>
        /\ ed' = [ed EXCEPT !.content = t, !.status = "saving", !.debounce = t, !.retry = FALSE]
    BY <1>2 DEF Type
  <2>2. ed' \in Ed /\ ed'.content = t /\ ed'.debounce = t
    BY <1>0, <2>1
  <2> QED
    BY <1>0, <2>1, <2>2 DEF JournalInv, JournalType, open
<1>3. CASE DebounceFires
  <2>1. /\ ed.debounce # NoText /\ ed.debounce = ed.content
        /\ save(ed.content, [ed EXCEPT !.debounce = NoText])
        /\ UNCHANGED <<stored, pages, slips>>
    BY <1>3 DEF DebounceFires, JournalInv
  <2>2. open
    BY <2>1 DEF open
  <2>3. [ed EXCEPT !.debounce = NoText] \in Ed
    BY <1>0
  <2>4. /\ net' \in Seq(Requests) /\ net' # <<>>
        /\ ed' = [[ed EXCEPT !.debounce = NoText] EXCEPT !.status = "saving"]
        /\ textUnderWay'
        /\ \A i \in DOMAIN net' : net'[i].page = pages \/ (i \in DOMAIN net /\ net'[i] = net[i])
    <3> DEFINE e == [ed EXCEPT !.debounce = NoText]
    <3>1. e \in Ed /\ e.content = ed.content /\ save(ed.content, e)
      BY <1>0, <2>1, <2>3
    <3> HIDE DEF e
    <3>2. /\ net' \in Seq(Requests) /\ net' # <<>> /\ ed' = [e EXCEPT !.status = "saving"]
          /\ textUnderWay'
          /\ \A i \in DOMAIN net' : net'[i].page = pages \/ (i \in DOMAIN net /\ net'[i] = net[i])
      BY <1>0, <2>2, <3>1, SaveSendsText
    <3> QED
      BY <3>2 DEF e
  <2>5. ed' \in Ed /\ ed'.content = ed.content /\ ed'.debounce = NoText
    BY <1>0, <2>4
  <2> QED
    BY <1>0, <2>1, <2>2, <2>4, <2>5 DEF JournalInv, JournalType, open
<1>4. CASE RetryFires
  <2> DEFINE e == IF ed.lost > 0 THEN [ed EXCEPT !.lost = @ - 1] ELSE [ed EXCEPT !.retry = FALSE]
  <2>1. e \in Ed /\ e.content = ed.content /\ e.debounce = ed.debounce
    <3>1. CASE ed.lost > 0
      <4>1. ed.lost - 1 \in Nat /\ e = [ed EXCEPT !.lost = ed.lost - 1]
        BY <1>0, <3>1
      <4> HIDE DEF e
      <4> QED
        BY <1>0, <4>1
    <3>2. CASE ~(ed.lost > 0)
      <4>1. e = [ed EXCEPT !.retry = FALSE]
        BY <3>2
      <4> HIDE DEF e
      <4> QED
        BY <1>0, <4>1
    <3> QED
      BY <3>1, <3>2
  <2>2. open
    <3>1. ed.retry \/ ed.lost > 0
      BY <1>4 DEF RetryFires
    <3>2. ed # Closed
      BY <3>1 DEF Closed
    <3> QED
      BY <3>2 DEF JournalInv
  <2>3. \/ ed.content # ed.lastSaved /\ save(ed.content, e) /\ UNCHANGED slips
        \/ /\ ed' = [e EXCEPT !.status = "saved"]
           /\ slips' = slips \cup {s \in {"trusted"} : stored # ed.content \/ net # <<>>}
           /\ UNCHANGED net
    BY <1>4 DEF RetryFires
  <2>4. UNCHANGED <<stored, pages>>
    BY <1>4 DEF RetryFires
  <2> HIDE DEF e
  <2>5. CASE save(ed.content, e) /\ UNCHANGED slips
    <3>1. /\ net' \in Seq(Requests) /\ net' # <<>> /\ ed' = [e EXCEPT !.status = "saving"]
          /\ textUnderWay'
          /\ \A i \in DOMAIN net' : net'[i].page = pages \/ (i \in DOMAIN net /\ net'[i] = net[i])
      BY <1>0, <2>1, <2>2, <2>5, SaveSendsText
    <3>2. ed' \in Ed /\ ed'.content = ed.content /\ ed'.debounce = ed.debounce
      BY <2>1, <3>1
    <3> QED
      BY <1>0, <2>2, <2>4, <2>5, <3>1, <3>2 DEF JournalInv, JournalType, open
  <2>6. CASE /\ ed' = [e EXCEPT !.status = "saved"]
             /\ slips' = slips \cup {s \in {"trusted"} : stored # ed.content \/ net # <<>>}
             /\ UNCHANGED net
    <3>1. ed' \in Ed /\ ed'.content = ed.content /\ ed'.debounce = ed.debounce
      BY <2>1, <2>6
    <3>2. slips' \subseteq Slips /\ (slips' = {} => slips = {} /\ stored = ed.content /\ net = <<>>)
      BY <1>0, <2>6 DEF JournalType, Slips
    <3>3. slips' = {} => textStored' /\ \A i \in DOMAIN net' : FALSE
      <4>1. slips' = {} => DOMAIN net' = {}
        BY <2>6, <3>2
      <4> QED
        BY <2>4, <3>1, <3>2, <4>1 DEF textStored
    <3> QED
      BY <1>0, <2>2, <2>4, <2>6, <3>1, <3>2, <3>3 DEF JournalInv, JournalType, open
  <2> QED
    BY <2>3, <2>5, <2>6
<1>5. ASSUME NEW i \in DOMAIN net, Serve(i, sess)
      PROVE  JournalInv'
  <2>0. net # <<>> /\ open /\ UNCHANGED <<ed, pages>> /\ net[i].state = "sent" /\ net[i].text \in Texts
    <3>1. net[i] \in Requests /\ net # <<>>
      BY <1>0
    <3> QED
      BY <1>5, <3>1 DEF Serve, JournalInv, Requests
  <2>1. CASE /\ stored' = net[i].text
             /\ slips' = slips \cup {s \in {"overtaken"} : net[i].late}
             /\ net' = [k \in DOMAIN net |->
                          IF k = i THEN [net[i] EXCEPT !.state = "applied"]
                          ELSE [net[k] EXCEPT !.late = @ \/ k < i]]
    <3>1. /\ net' \in Seq(Requests) /\ DOMAIN net' = DOMAIN net
      <4>1. \A k \in DOMAIN net : net[k] \in Requests
        BY <1>0
      <4>2. ASSUME NEW k \in DOMAIN net
            PROVE  net'[k] \in Requests
        BY <2>1, <4>1, <4>2 DEF Requests
      <4>3. net' \in [1 .. Len(net) -> Requests]
        BY <1>0, <2>1, <4>2
      <4> QED
        BY <1>0, <4>3
    <3>2. \A k \in DOMAIN net :
            /\ net'[k].text = net[k].text /\ net'[k].page = net[k].page
            /\ k # i => net'[k].state = net[k].state /\ (net[k].late \/ k < i => net'[k].late)
            /\ net'[i].state = "applied"
      <4>1. \A k \in DOMAIN net : net[k] \in Requests
        BY <1>0
      <4>2. net'[i] = [net[i] EXCEPT !.state = "applied"]
        BY <2>1
      <4>3. \A k \in DOMAIN net : k # i => net'[k] = [net[k] EXCEPT !.late = @ \/ k < i]
        BY <2>1
      <4>4. ASSUME NEW k \in DOMAIN net, k # i
            PROVE  /\ net'[k].text = net[k].text /\ net'[k].page = net[k].page
                   /\ net'[k].state = net[k].state /\ (net[k].late \/ k < i => net'[k].late)
        <5>1. net'[k] = [net[k] EXCEPT !.late = net[k].late \/ k < i]
          BY <4>3, <4>4
        <5>2. net[k] \in Requests
          BY <4>1
        <5> QED
          BY <5>1, <5>2 DEF Requests
      <4>5. /\ net'[i].text = net[i].text /\ net'[i].page = net[i].page
            /\ net'[i].state = "applied"
        BY <4>1, <4>2 DEF Requests
      <4> QED
        BY <4>4, <4>5
    <3>3. slips' \subseteq Slips /\ (slips' = {} => slips = {} /\ ~net[i].late)
      BY <1>0, <2>1 DEF JournalType, Slips
    <3>4. JournalType'
      BY <1>0, <2>0, <2>1, <3>1, <3>3 DEF JournalType
    <3>5. ASSUME textStored, ~net[i].late
          PROVE  textStored'
      BY <2>0, <2>1, <3>1, <3>2, <3>5 DEF textStored
    <3>6. ASSUME textUnderWay
          PROVE  textUnderWay' \/ textStored'
      <4>1. PICK m \in DOMAIN net :
              net[m].state = "sent" /\ \A k \in DOMAIN net : k >= m => net[k].text = ed.content
        BY <3>6 DEF textUnderWay
      <4>2. CASE m = i
        <5>1. \A k \in DOMAIN net : k < i \/ k >= i
          BY <1>0
        <5>2. \A k \in DOMAIN net' : net'[k].state = "sent" /\ net'[k].text # ed.content => net'[k].late
          BY <3>1, <3>2, <4>1, <4>2, <5>1
        <5>3. i >= i
          BY <1>0
        <5>4. stored' = ed.content
          BY <2>1, <4>1, <4>2, <5>3
        <5> QED
          BY <2>0, <5>2, <5>4 DEF textStored
      <4>3. CASE m # i
        BY <2>0, <3>1, <3>2, <4>1, <4>3 DEF textUnderWay
      <4> QED
        BY <4>2, <4>3
    <3>7. refusalUnderWay => refusalUnderWay'
      BY <2>0, <3>1, <3>2 DEF refusalUnderWay
    <3>8. willRetry' = willRetry
      BY <2>0 DEF willRetry
    <3> QED
      BY <2>0, <3>1, <3>2, <3>3, <3>4, <3>5, <3>6, <3>7, <3>8 DEF JournalInv, open
  <2>2. CASE net' = [net EXCEPT ![i].state = "refused"] /\ UNCHANGED <<stored, slips>>
    <3>1. /\ net' \in Seq(Requests) /\ DOMAIN net' = DOMAIN net
          /\ net'[i].state = "refused" /\ \A k \in DOMAIN net : net'[k].page = net[k].page
      <4>1. \A k \in DOMAIN net : net[k] \in Requests
        BY <1>0
      <4>2. [net[i] EXCEPT !.state = "refused"] \in Requests
        BY <4>1 DEF Requests
      <4>3. /\ DOMAIN net' = DOMAIN net /\ net'[i] = [net[i] EXCEPT !.state = "refused"]
            /\ \A k \in DOMAIN net : k # i => net'[k] = net[k]
        BY <1>0, <2>2
      <4>4. net' \in Seq(Requests)
        BY <1>0, <2>2, <4>2
      <4> QED
        BY <4>1, <4>3, <4>4 DEF Requests
    <3>2. refusalUnderWay'
      BY <3>1 DEF refusalUnderWay
    <3> QED
      BY <1>0, <2>0, <2>2, <3>1, <3>2 DEF JournalInv, JournalType, open
  <2> QED
    BY <1>5, <2>1, <2>2 DEF Serve
<1>6. ASSUME NEW i \in DOMAIN net, Answer(i)
      PROVE  JournalInv'
  <2>1. /\ net[i].state # "sent" /\ net' = RemoveAt(net, i)
        /\ UNCHANGED <<stored, pages, slips>>
    BY <1>6 DEF Answer
  <2>2. PICK ok \in {FALSE, net[i].state = "applied"} :
          ed' = IF net[i].page = pages THEN answered(ok, net[i].text) ELSE ed
    BY <1>6 DEF Answer
  <2>3. /\ net' \in Seq(Requests) /\ DOMAIN net' = 1 .. Len(net) - 1
        /\ \A j \in DOMAIN net' : net'[j] = IF j < i THEN net[j] ELSE net[j + 1]
    <3>1. i \in 1 .. Len(net) /\ net \in Seq(Requests)
      BY <1>0
    <3>0. /\ RemoveAt(net, i) \in Seq(Requests) /\ Len(RemoveAt(net, i)) = Len(net) - 1
          /\ \A j \in 1 .. Len(net) - 1 :
               RemoveAt(net, i)[j] = IF j < i THEN net[j] ELSE net[j + 1]
      BY <3>1, RemoveAtFacts, Zenon
    <3>2. /\ net' \in Seq(Requests) /\ Len(net') = Len(net) - 1
          /\ \A j \in 1 .. Len(net) - 1 : net'[j] = IF j < i THEN net[j] ELSE net[j + 1]
      BY <2>1, <3>0, Zenon
    <3> QED
      BY <3>2
  <2>4. \A j \in DOMAIN net' : IF j < i THEN j \in DOMAIN net ELSE j + 1 \in DOMAIN net
    BY <1>0, <2>3
  <2>5. \A j \in DOMAIN net : /\ j < i => j \in DOMAIN net' /\ net'[j] = net[j]
                              /\ j > i => j - 1 \in DOMAIN net' /\ net'[j - 1] = net[j]
    BY <1>0, <2>3
  <2>6. net[i].text \in Texts /\ net[i].page \in Nat /\ open
    <3>1. net[i] \in Requests /\ net # <<>>
      BY <1>0
    <3> QED
      BY <3>1 DEF Requests, JournalInv
  <2>7. /\ ed' \in Ed /\ ed'.content = ed.content /\ ed'.debounce = ed.debounce
        /\ willRetry => willRetry'
        /\ ~ok /\ net[i].page = pages => willRetry'
    <3>1. CASE net[i].page = pages /\ ok
      BY <1>0, <2>2, <2>6, <3>1 DEF answered, willRetry
    <3>2. CASE net[i].page = pages /\ ~ok
      <4>1. ed' = [ed EXCEPT !.status = "error", !.retry = TRUE,
                             !.lost = IF ed.retry THEN ed.lost + 1 ELSE ed.lost]
        BY <2>2, <3>2 DEF answered
      <4>2. (IF ed.retry THEN ed.lost + 1 ELSE ed.lost) \in Nat
        BY <1>0
      <4>3. ed' \in Ed /\ ed'.content = ed.content /\ ed'.debounce = ed.debounce /\ ed'.retry
        BY <1>0, <4>1, <4>2
      <4> QED
        BY <3>2, <4>3 DEF willRetry
    <3>3. CASE net[i].page # pages
      BY <1>0, <2>2, <3>3 DEF willRetry
    <3> QED
      BY <3>1, <3>2, <3>3
  <2>8. JournalType'
    BY <1>0, <2>1, <2>3, <2>7 DEF JournalType
  <2>9. ASSUME refusalUnderWay, net[i].page = pages
        PROVE  refusalUnderWay' \/ willRetry'
    <3>1. PICK m \in DOMAIN net : net[m].state = "refused"
      BY <2>9 DEF refusalUnderWay
    <3>2. CASE m = i
      <4>1. ~ok
        BY <2>2, <3>1, <3>2
      <4> QED
        BY <2>7, <2>9, <4>1
    <3>3. CASE m # i
      <4>1. m < i \/ m > i
        BY <1>0, <3>3
      <4> QED
        BY <2>5, <3>1, <4>1 DEF refusalUnderWay
    <3> QED
      BY <3>2, <3>3
  <2>10. ASSUME textUnderWay
         PROVE  textUnderWay'
    <3>1. PICK m \in DOMAIN net :
            net[m].state = "sent" /\ \A k \in DOMAIN net : k >= m => net[k].text = ed.content
      BY <2>10 DEF textUnderWay
    <3>2. CASE m < i
      <4>1. m \in DOMAIN net' /\ net'[m].state = "sent"
        BY <2>5, <3>1, <3>2
      <4>2. \A k \in DOMAIN net' : k >= m => net'[k].text = ed'.content
        BY <1>0, <2>3, <2>4, <2>7, <3>1
      <4> QED
        BY <4>1, <4>2 DEF textUnderWay
    <3>3. CASE m > i
      <4>1. m - 1 \in DOMAIN net' /\ net'[m - 1].state = "sent"
        BY <2>5, <3>1, <3>3
      <4>2. \A k \in DOMAIN net' : k >= m - 1 => net'[k].text = ed'.content
        BY <1>0, <2>3, <2>4, <2>7, <3>1, <3>3
      <4> QED
        BY <4>1, <4>2 DEF textUnderWay
    <3>4. m # i /\ (m < i \/ m > i \/ m = i)
      BY <1>0, <2>1, <3>1
    <3> QED
      BY <3>2, <3>3, <3>4
  <2>11. ASSUME textStored
         PROVE  textStored'
    BY <1>0, <2>1, <2>3, <2>4, <2>7, <2>11 DEF textStored
  <2>12. slips' = {} => \A j \in DOMAIN net' : net'[j].page = pages'
    BY <2>1, <2>3, <2>4 DEF JournalInv
  <2>13. slips = {} => net[i].page = pages
    BY DEF JournalInv
  <2> QED
    BY <2>1, <2>6, <2>7, <2>8, <2>9, <2>10, <2>11, <2>12, <2>13 DEF JournalInv, open
<1> QED
  BY <1>1, <1>2, <1>3, <1>4, <1>5, <1>6 DEF JournalNext

LEMMA JournalInvariant == Spec => []JournalInv
<1>1. Init => JournalInv
  <2> SUFFICES ASSUME Init PROVE JournalInv
    OBVIOUS
  <2>1. stored \in Texts /\ net = <<>> /\ ed = Closed /\ pages = 0 /\ slips = {}
    BY DEF Init, JournalInit
  <2>2. ~open
    BY <2>1 DEF open, Closed
  <2>3. JournalType
    BY <2>1 DEF JournalType, Closed
  <2> QED
    BY <2>1, <2>2, <2>3 DEF JournalInv, Closed
<1>2. JournalInv /\ [Next]_vars => JournalInv'
  <2> SUFFICES ASSUME JournalInv, [Next]_vars PROVE JournalInv'
    OBVIOUS
  <2>1. CASE UNCHANGED journalVars
    BY <2>1 DEF journalVars, JournalInv, JournalType, open, willRetry, refusalUnderWay,
       textUnderWay, textStored
  <2> QED
    BY <2>1, JournalStep DEF Next, vars
<1> QED
  BY <1>1, <1>2, PTL DEF Spec

\* An editor with no PUT under way and no timer armed shows the stored text, for
\* any number of PUTs served and answered in any order, unless a slip happened.
THEOREM StoredOrSlipped == Spec => []WebTextIsStored
<1>1. JournalInv => WebTextIsStored
  BY DEF JournalInv, JournalType, WebTextIsStored, willRetry, refusalUnderWay, textUnderWay,
     textStored
<1> QED
  BY <1>1, JournalInvariant, PTL

-----------------------------------------------------------------------------
(* The weekly digest. *)

\* The parts of TypeOK the argument needs.
DigestShape ==
  /\ mails \in [Digests -> Nat]
  /\ deliveries \subseteq Digests
  /\ run \in [Runs -> [phase : {"idle", "scan", "send", "undo"},
                       todo : SUBSET Digests, claim : SUBSET Digests]]

\* A run holds a claim exactly while it sends or undoes, and one at a time.
Holding ==
  \A r \in Runs :
    IF run[r].phase \in {"send", "undo"}
    THEN \E d \in Digests : run[r].claim = {d}
    ELSE run[r].claim = {}

ClockBound == now \in FirstHour .. MaxHour

DigestInv == DigestShape /\ Holding /\ ClaimIsExclusive /\ AcknowledgedOnce

-----------------------------------------------------------------------------
\* The settings a run reads name digests of the table's key.
LEMMA SubscribersType ==
  ASSUME NEW hour \in FirstHour .. MaxHour, NEW dueCheck \in BOOLEAN
  PROVE  subscribers(dueCheck, hour) \subseteq Digests
<1>1. mostRecentWeek(hour) \in Weeks
  <2>1. /\ DayLength \in Nat \ {0} /\ FirstHour \in Nat /\ MaxHour \in Nat
        /\ hour \in Nat /\ FirstHour <= hour /\ hour <= MaxHour
    BY DayAssumption
  <2>2. /\ dayOf(hour) \in Int /\ dayOf(FirstHour) \in Int /\ dayOf(MaxHour) \in Int
        /\ dayOf(FirstHour) <= dayOf(hour) /\ dayOf(hour) <= dayOf(MaxHour)
    BY <2>1, SMTT(30) DEF dayOf
  <2>. QED  BY <2>2 DEF mostRecentWeek, Weeks
<1>. QED  BY <1>1 DEF subscribers, Digests

-----------------------------------------------------------------------------
\* What the end of an iteration leaves: the run holds nothing, the others are
\* untouched.
LEMMA NextSubscriberReleases ==
  ASSUME DigestShape, Holding, NEW r \in Runs, NEW d, nextSubscriber(r, d)
  PROVE  /\ run' \in [Runs -> [phase : {"idle", "scan", "send", "undo"},
                                todo : SUBSET Digests, claim : SUBSET Digests]]
         /\ run'[r].phase \in {"idle", "scan"} /\ run'[r].claim = {}
         /\ \A q \in Runs \ {r} : run'[q] = run[q]
<1>1. CASE run[r].todo = {d}
  <2>1. run' = [run EXCEPT ![r] = Idle]
    BY <1>1 DEF nextSubscriber, DigestShape
  <2>. QED  BY <2>1 DEF DigestShape, Idle
<1>2. CASE run[r].todo # {d}
  <2>1. run' = [run EXCEPT ![r].phase = "scan", ![r].todo = @ \ {d}, ![r].claim = {}]
    BY <1>2 DEF nextSubscriber
  <2>. QED  BY <2>1 DEF DigestShape
<1>. QED  BY <1>1, <1>2

\* A run that releases its claim, with the row kept after a send and deleted
\* after a failure, leaves the rest of the invariant alone.
LEMMA ReleasePreserves ==
  ASSUME DigestInv, NEW r \in Runs, NEW d \in Digests, d \in run[r].claim,
         nextSubscriber(r, d),
         \/ mails' = [mails EXCEPT ![d] = @ + 1] /\ deliveries' = deliveries
         \/ mails' = mails /\ deliveries' = deliveries \ {d}
  PROVE  DigestInv'
<1>0. DigestShape /\ Holding /\ ClaimIsExclusive /\ AcknowledgedOnce
  BY DEF DigestInv
<1>1. /\ run' \in [Runs -> [phase : {"idle", "scan", "send", "undo"},
                             todo : SUBSET Digests, claim : SUBSET Digests]]
      /\ run'[r].phase \in {"idle", "scan"} /\ run'[r].claim = {}
      /\ \A q \in Runs \ {r} : run'[q] = run[q]
  BY <1>0, NextSubscriberReleases
<1>2. d \in deliveries /\ mails[d] = 0 /\ \A q \in Runs \ {r} : d \notin run[q].claim
  BY <1>0 DEF ClaimIsExclusive
<1>3. /\ mails' \in [Digests -> Nat] /\ mails'[d] \in {0, 1}
      /\ \A e \in Digests \ {d} : mails'[e] = mails[e]
  BY <1>0, <1>2 DEF DigestShape
<1>4. /\ deliveries' \subseteq deliveries /\ \A e \in deliveries : e # d => e \in deliveries'
      /\ mails'[d] > 0 => d \in deliveries'
  BY <1>0, <1>2 DEF DigestShape
<1>5. DigestShape'
  BY <1>0, <1>1, <1>3, <1>4 DEF DigestShape
<1>6. Holding'
  BY <1>0, <1>1 DEF Holding
<1>7. ClaimIsExclusive'
  <2>1. \A p, q \in Runs : p # q => run'[p].claim \cap run'[q].claim = {}
    BY <1>0, <1>1 DEF ClaimIsExclusive
  <2>2. ASSUME NEW q \in Runs, NEW e \in run'[q].claim
        PROVE  e \in deliveries' /\ mails'[e] = 0
    <3>1. q # r /\ e \in run[q].claim /\ e # d
      BY <1>1, <1>2
    <3>2. e \in Digests /\ e \in deliveries /\ mails[e] = 0
      BY <1>0, <3>1 DEF ClaimIsExclusive, DigestShape
    <3>. QED  BY <3>1, <3>2, <1>3, <1>4
  <2>3. \A e \in Digests : mails'[e] > 0 => e \in deliveries'
    BY <1>0, <1>3, <1>4 DEF ClaimIsExclusive
  <2>. QED  BY <2>1, <2>2, <2>3 DEF ClaimIsExclusive
<1>8. AcknowledgedOnce'
  BY <1>0, <1>3 DEF AcknowledgedOnce
<1>. QED  BY <1>5, <1>6, <1>7, <1>8 DEF DigestInv

\* Runs that give up whatever they hold leave the invariant alone, as long as no
\* row goes.
LEMMA IdlePreserves ==
  ASSUME DigestInv, NEW S \in SUBSET Runs,
         run' = [r \in Runs |-> IF r \in S THEN Idle ELSE run[r]],
         UNCHANGED mails, deliveries \subseteq deliveries', deliveries' \subseteq Digests
  PROVE  DigestInv'
<1>1. DigestShape'
  BY DEF DigestInv, DigestShape, Idle
<1>2. Holding'
  BY DEF DigestInv, Holding, Idle
<1>3. ClaimIsExclusive'
  BY DEF DigestInv, ClaimIsExclusive, Idle
<1>4. AcknowledgedOnce'
  BY DEF DigestInv, AcknowledgedOnce
<1>. QED  BY <1>1, <1>2, <1>3, <1>4 DEF DigestInv

-----------------------------------------------------------------------------
LEMMA DigestInitInv == DigestInit => DigestInv
  BY DEF DigestInit, DigestInv, DigestShape, Holding, ClaimIsExclusive, AcknowledgedOnce, Idle

LEMMA DigestStepInv == ASSUME DigestInv, ClockBound, [DigestNext]_digestVars  PROVE DigestInv'
<1>0. DigestShape /\ Holding /\ ClaimIsExclusive /\ AcknowledgedOnce
  BY DEF DigestInv
<1>1. ASSUME NEW r \in Runs, NEW dueCheck \in BOOLEAN, Start(r, dueCheck)  PROVE DigestInv'
  <2>1. run' = [run EXCEPT ![r] = [phase |-> "scan", todo |-> subscribers(dueCheck, now),
                                   claim |-> {}]]
        /\ UNCHANGED <<mails, deliveries>>
    BY <1>1 DEF Start
  <2>2. subscribers(dueCheck, now) \subseteq Digests
    BY SubscribersType DEF ClockBound
  <2>3. DigestShape' /\ run'[r].phase = "scan" /\ run'[r].claim = {}
        /\ \A q \in Runs \ {r} : run'[q] = run[q]
    BY <1>0, <2>1, <2>2 DEF DigestShape
  <2>4. Holding'
    BY <1>0, <2>3 DEF Holding
  <2>5. ClaimIsExclusive'
    BY <1>0, <2>1, <2>3 DEF ClaimIsExclusive
  <2>6. AcknowledgedOnce'
    BY <1>0, <2>1 DEF AcknowledgedOnce
  <2>. QED  BY <2>3, <2>4, <2>5, <2>6 DEF DigestInv
<1>2. ASSUME NEW r \in Runs, NEW d \in Digests, Claim(r, d)  PROVE DigestInv'
  <2>0. run[r].phase = "scan" /\ run[r].claim = {} /\ UNCHANGED mails
    BY <1>0, <1>2 DEF Claim, Holding
  <2>1. CASE /\ d \notin deliveries
             /\ deliveries' = deliveries \cup {d}
             /\ run' = [run EXCEPT ![r].phase = "send", ![r].claim = {d}]
    <3>1. DigestShape' /\ run'[r].phase = "send" /\ run'[r].claim = {d}
          /\ \A q \in Runs \ {r} : run'[q] = run[q]
      BY <1>0, <2>0, <2>1 DEF DigestShape
    <3>2. Holding'
      BY <1>0, <3>1 DEF Holding
    <3>3. mails[d] = 0 /\ \A q \in Runs : d \notin run[q].claim
      BY <1>0, <2>1 DEF ClaimIsExclusive, DigestShape
    <3>4. ClaimIsExclusive'
      <4>1. \A p, q \in Runs : p # q => run'[p].claim \cap run'[q].claim = {}
        BY <1>0, <3>1, <3>3 DEF ClaimIsExclusive
      <4>2. \A q \in Runs : \A e \in run'[q].claim : e \in deliveries' /\ mails'[e] = 0
        BY <1>0, <2>0, <2>1, <3>1, <3>3 DEF ClaimIsExclusive
      <4>3. \A e \in Digests : mails'[e] > 0 => e \in deliveries'
        BY <1>0, <2>0, <2>1 DEF ClaimIsExclusive
      <4>. QED  BY <4>1, <4>2, <4>3 DEF ClaimIsExclusive
    <3>5. AcknowledgedOnce'
      BY <1>0, <2>0 DEF AcknowledgedOnce
    <3>. QED  BY <3>1, <3>2, <3>4, <3>5 DEF DigestInv
  <2>2. CASE nextSubscriber(r, d) /\ UNCHANGED deliveries
    <3>1. /\ run' \in [Runs -> [phase : {"idle", "scan", "send", "undo"},
                                 todo : SUBSET Digests, claim : SUBSET Digests]]
          /\ run'[r].phase \in {"idle", "scan"} /\ run'[r].claim = {}
          /\ \A q \in Runs \ {r} : run'[q] = run[q]
      BY <1>0, <2>2, NextSubscriberReleases
    <3>2. DigestShape' /\ Holding'
      BY <1>0, <2>0, <2>2, <3>1 DEF DigestShape, Holding
    <3>3. ClaimIsExclusive' /\ AcknowledgedOnce'
      BY <1>0, <2>0, <2>2, <3>1 DEF ClaimIsExclusive, AcknowledgedOnce
    <3>. QED  BY <3>2, <3>3 DEF DigestInv
  <2>. QED  BY <1>2, <2>1, <2>2 DEF Claim
<1>3. ASSUME NEW r \in Runs, NEW d \in Digests, Send(r, d)  PROVE DigestInv'
  BY <1>3, ReleasePreserves DEF Send
<1>4. ASSUME NEW r \in Runs, NEW d \in Digests, SendFails(r, d)  PROVE DigestInv'
  <2>1. run' = [run EXCEPT ![r].phase = "undo"] /\ UNCHANGED <<mails, deliveries>>
        /\ run[r].phase = "send"
    BY <1>4 DEF SendFails
  <2>2. /\ DigestShape' /\ run'[r].phase = "undo"
        /\ \A q \in Runs : run'[q].claim = run[q].claim
        /\ \A q \in Runs \ {r} : run'[q] = run[q]
    BY <1>0, <2>1 DEF DigestShape
  <2>3. Holding'
    BY <1>0, <2>1, <2>2 DEF Holding
  <2>4. ClaimIsExclusive' /\ AcknowledgedOnce'
    BY <1>0, <2>1, <2>2 DEF ClaimIsExclusive, AcknowledgedOnce
  <2>. QED  BY <2>2, <2>3, <2>4 DEF DigestInv
<1>5. ASSUME NEW r \in Runs, NEW d \in Digests, Undo(r, d)  PROVE DigestInv'
  BY <1>5, ReleasePreserves DEF Undo
<1>6. ASSUME NEW r \in Runs, Abort(r)  PROVE DigestInv'
  <2>1. run' = [run EXCEPT ![r] = Idle] /\ UNCHANGED <<mails, deliveries>>
    BY <1>6 DEF Abort
  <2>2. run' = [q \in Runs |-> IF q \in {r} THEN Idle ELSE run[q]]
    BY <1>0, <2>1, Zenon DEF DigestShape
  <2>3. {r} \in SUBSET Runs
    OBVIOUS
  <2>. QED  BY <1>0, <2>1, <2>2, <2>3, IdlePreserves DEF DigestShape
<1>7. CASE Restart
  <2>1. run' = [q \in Runs |-> IF q \in Runs THEN Idle ELSE run[q]]
        /\ UNCHANGED <<mails, deliveries>>
    BY <1>7 DEF Restart
  <2>2. Runs \in SUBSET Runs
    OBVIOUS
  <2>. QED  BY <1>0, <2>1, <2>2, IdlePreserves DEF DigestShape
<1>9. ASSUME NEW r \in Runs, NEW d \in Digests, ClaimUnheard(r, d)  PROVE DigestInv'
  <2>1. run' = [run EXCEPT ![r] = Idle] /\ UNCHANGED mails /\ deliveries' = deliveries \cup {d}
    BY <1>9 DEF ClaimUnheard
  <2>2. run' = [q \in Runs |-> IF q \in {r} THEN Idle ELSE run[q]]
    BY <1>0, <2>1, Zenon DEF DigestShape
  <2>3. {r} \in SUBSET Runs /\ deliveries \subseteq deliveries' /\ deliveries' \subseteq Digests
    BY <1>0, <2>1 DEF DigestShape
  <2>. QED  BY <2>1, <2>2, <2>3, IdlePreserves
<1>8. CASE UNCHANGED <<mails, deliveries, run>>
  BY <1>8 DEF DigestInv, DigestShape, Holding, ClaimIsExclusive, AcknowledgedOnce
<1>. QED
  BY <1>1, <1>2, <1>3, <1>4, <1>5, <1>6, <1>7, <1>8, <1>9
  DEF DigestNext, Step, Tick, UpdateSettings, digestVars

\* The clock stays within its bounds, so that a week it names is in the table's
\* key.
LEMMA ClockBounds == DigestSpec => []ClockBound
<1>1. DigestInit => ClockBound
  BY DayAssumption DEF DigestInit, ClockBound
<1>2. ASSUME ClockBound, [DigestNext]_digestVars  PROVE ClockBound'
  <2>1. CASE Tick
    BY <1>2, <2>1, DayAssumption DEF Tick, ClockBound
  <2>2. CASE UNCHANGED now
    BY <1>2, <2>2 DEF ClockBound
  <2>3. \/ Tick
        \/ \E r \in Runs, dueCheck \in BOOLEAN : Start(r, dueCheck)
        \/ \E r \in Runs : Step(r)
        \/ \E u \in Users, s \in Subscriptions : UpdateSettings(u, s)
        \/ Restart
        \/ UNCHANGED digestVars
    BY <1>2 DEF DigestNext
  <2>4. ASSUME NEW r \in Runs, Step(r)  PROVE UNCHANGED now
    BY <2>4 DEF Step, Claim, ClaimUnheard, Send, SendFails, Undo, Abort
  <2>5. ASSUME NEW r \in Runs, NEW dueCheck \in BOOLEAN, Start(r, dueCheck)  PROVE UNCHANGED now
    BY <2>5 DEF Start
  <2>. QED  BY <2>1, <2>2, <2>3, <2>4, <2>5 DEF UpdateSettings, Restart, digestVars
<1>. QED  BY <1>1, <1>2, PTL DEF DigestSpec

-----------------------------------------------------------------------------
\* The inductive invariant holds in every reachable state.
THEOREM DigestInvariant == DigestSpec => []DigestInv
<1>1. DigestInv /\ ClockBound /\ [DigestNext]_digestVars => DigestInv'
  BY DigestStepInv
<1>. QED  BY <1>1, DigestInitInv, ClockBounds, PTL DEF DigestSpec

\* No digest is acknowledged twice, whatever overlaps, fails and restarts: the
\* unique key of digest_deliveries and the claim-first order suffice.
THEOREM DigestAcknowledgedOnce == DigestSpec => []AcknowledgedOnce
<1>1. DigestInv => AcknowledgedOnce
  BY DEF DigestInv
<1>. QED  BY <1>1, DigestInvariant, PTL

\* No two runs ever work on one digest, and an undo deletes only its own claim.
THEOREM ClaimsAreExclusive == DigestSpec => []ClaimIsExclusive
<1>1. DigestInv => ClaimIsExclusive
  BY DEF DigestInv
<1>. QED  BY <1>1, DigestInvariant, PTL

-----------------------------------------------------------------------------
\* Type correctness: DigestShape has the variables the argument above is about.
THEOREM DigestTypes == DigestSpec => []TypeOK
<1>1. DigestInit => TypeOK
  BY DayAssumption, BoundsAssumption DEF DigestInit, TypeOK, Run, Idle
<1>2. ASSUME TypeOK, DigestInv, DigestInv', ClockBound', [DigestNext]_digestVars  PROVE TypeOK'
  <2>1. deliveries' \subseteq Digests /\ run' \in [Runs -> Run] /\ mails' \in [Digests -> Nat]
    BY <1>2 DEF DigestInv, DigestShape, Run
  <2>2. /\ subscription' \in [Users -> Subscriptions]
        /\ saves' \in 0 .. MaxSaves /\ restarts' \in 0 .. MaxRestarts
    <3>1. ASSUME NEW u \in Users, NEW s \in Subscriptions, UpdateSettings(u, s)
          PROVE  /\ subscription' \in [Users -> Subscriptions]
                 /\ saves' \in 0 .. MaxSaves /\ restarts' \in 0 .. MaxRestarts
      BY <1>2, <3>1, BoundsAssumption DEF TypeOK, UpdateSettings
    <3>2. CASE Restart
      BY <1>2, <3>2, BoundsAssumption DEF TypeOK, Restart
    <3>3. CASE UNCHANGED <<subscription, saves, restarts>>
      BY <1>2, <3>3 DEF TypeOK
    <3>4. ASSUME NEW r \in Runs, Step(r)  PROVE UNCHANGED <<subscription, saves, restarts>>
      BY <3>4 DEF Step, Claim, ClaimUnheard, Send, SendFails, Undo, Abort
    <3>. QED  BY <1>2, <3>1, <3>2, <3>3, <3>4 DEF DigestNext, Start, Tick, digestVars
  <2>3. \A r \in Runs : run[r].claim \subseteq Digests
    BY <1>2 DEF TypeOK, Run
  <2>4. ghosts' \subseteq Digests /\ stranded' \subseteq Digests
    BY <1>2, <2>3
    DEF TypeOK, DigestNext, Step, Start, Claim, ClaimUnheard, Send, SendFails, Undo, Abort,
        Tick, UpdateSettings, Restart, digestVars
  <2>. QED  BY <1>2, <2>1, <2>2, <2>4 DEF TypeOK, ClockBound
<1>. QED  BY <1>1, <1>2, DigestInvariant, ClockBounds, PTL DEF DigestSpec

-----------------------------------------------------------------------------
\* What a row stands for survives a step of one run that changes no other run's
\* claim, takes no row but its own and forgets no acknowledged or stranded digest.
LEMMA RowKeepsMeaning ==
  ASSUME RowMeansDeliveredOrStranded, DigestShape,
         NEW r \in Runs, \A q \in Runs \ {r} : run'[q].claim = run[q].claim,
         \A d \in run[r].claim :
           d \in deliveries' => mails'[d] > 0 \/ d \in run'[r].claim \/ d \in stranded',
         \A d \in deliveries' \ deliveries : d \in run'[r].claim \/ d \in stranded',
         \A d \in Digests : mails[d] > 0 => mails'[d] > 0,
         stranded \subseteq stranded'
  PROVE  RowMeansDeliveredOrStranded'
<1> SUFFICES ASSUME NEW d \in deliveries'
             PROVE  mails'[d] > 0 \/ (\E q \in Runs : d \in run'[q].claim) \/ d \in stranded'
  BY DEF RowMeansDeliveredOrStranded
<1>1. CASE d \notin deliveries
  BY <1>1
<1>2. CASE d \in deliveries
  <2>1. d \in Digests
    BY <1>2 DEF DigestShape
  <2>2. mails[d] > 0 \/ (\E q \in Runs : d \in run[q].claim) \/ d \in stranded
    BY <1>2 DEF RowMeansDeliveredOrStranded
  <2>. QED  BY <2>1, <2>2
<1>. QED  BY <1>1, <1>2

\* A row that no run holds stands for an acknowledged mail, or for a claim whose
\* run was cut off: failing sends always undo, and nothing else leaves a row behind.
THEOREM RowsHaveMeaning == DigestSpec => []RowMeansDeliveredOrStranded
<1>1. DigestInit => RowMeansDeliveredOrStranded
  BY DEF DigestInit, RowMeansDeliveredOrStranded
<1>2. ASSUME RowMeansDeliveredOrStranded, DigestInv, [DigestNext]_digestVars
      PROVE  RowMeansDeliveredOrStranded'
  <2>0. DigestShape /\ Holding
    BY <1>2 DEF DigestInv
  <2>1. ASSUME NEW r \in Runs, NEW dueCheck \in BOOLEAN, Start(r, dueCheck)
        PROVE  RowMeansDeliveredOrStranded'
    <3>1. run[r].claim = {} /\ \A q \in Runs \ {r} : run'[q] = run[q]
      BY <2>0, <2>1 DEF Start, Holding, DigestShape
    <3>. QED  BY <1>2, <2>0, <2>1, <3>1, RowKeepsMeaning DEF Start
  <2>2. ASSUME NEW r \in Runs, NEW d \in Digests, Claim(r, d)
        PROVE  RowMeansDeliveredOrStranded'
    <3>0. run[r].claim = {} /\ UNCHANGED <<mails, stranded>>
      BY <2>0, <2>2 DEF Claim, Holding
    <3>1. CASE /\ deliveries' = deliveries \cup {d}
               /\ run' = [run EXCEPT ![r].phase = "send", ![r].claim = {d}]
      <4>1. run'[r].claim = {d} /\ \A q \in Runs \ {r} : run'[q] = run[q]
        BY <2>0, <3>1 DEF DigestShape
      <4>. QED  BY <1>2, <2>0, <3>0, <3>1, <4>1, RowKeepsMeaning
    <3>2. CASE nextSubscriber(r, d) /\ UNCHANGED deliveries
      <4>1. \A q \in Runs \ {r} : run'[q] = run[q]
        BY <2>0, <3>2, NextSubscriberReleases
      <4>. QED  BY <1>2, <2>0, <3>0, <3>2, <4>1, RowKeepsMeaning
    <3>. QED  BY <2>2, <3>1, <3>2 DEF Claim
  <2>3. ASSUME NEW r \in Runs, NEW d \in Digests, Send(r, d)
        PROVE  RowMeansDeliveredOrStranded'
    <3>1. run[r].claim = {d} /\ \A q \in Runs \ {r} : run'[q] = run[q]
      BY <2>0, <2>3, NextSubscriberReleases DEF Send, Holding
    <3>2. mails'[d] > 0 /\ \A e \in Digests : mails[e] > 0 => mails'[e] > 0
      BY <2>0, <2>3 DEF Send, DigestShape
    <3>. QED  BY <1>2, <2>0, <2>3, <3>1, <3>2, RowKeepsMeaning DEF Send
  <2>4. ASSUME NEW r \in Runs, NEW d \in Digests, SendFails(r, d)
        PROVE  RowMeansDeliveredOrStranded'
    <3>1. \A q \in Runs : run'[q].claim = run[q].claim
      BY <2>0, <2>4 DEF SendFails, DigestShape
    <3>. QED  BY <1>2, <2>0, <2>4, <3>1, RowKeepsMeaning DEF SendFails
  <2>5. ASSUME NEW r \in Runs, NEW d \in Digests, Undo(r, d)
        PROVE  RowMeansDeliveredOrStranded'
    <3>1. run[r].claim = {d} /\ \A q \in Runs \ {r} : run'[q] = run[q]
      BY <2>0, <2>5, NextSubscriberReleases DEF Undo, Holding
    <3>. QED  BY <1>2, <2>0, <2>5, <3>1, RowKeepsMeaning DEF Undo
  <2>6. ASSUME NEW r \in Runs, NEW d \in Digests, ClaimUnheard(r, d)
        PROVE  RowMeansDeliveredOrStranded'
    <3>1. run[r].claim = {} /\ \A q \in Runs \ {r} : run'[q] = run[q]
      BY <2>0, <2>6 DEF ClaimUnheard, Holding, DigestShape
    <3>. QED  BY <1>2, <2>0, <2>6, <3>1, RowKeepsMeaning DEF ClaimUnheard
  <2>7. ASSUME NEW r \in Runs, Abort(r)
        PROVE  RowMeansDeliveredOrStranded'
    <3>1. \A q \in Runs \ {r} : run'[q] = run[q]
      BY <2>0, <2>7 DEF Abort, DigestShape
    <3>. QED  BY <1>2, <2>0, <2>7, <3>1, RowKeepsMeaning DEF Abort
  <2>8. CASE Restart
    BY <1>2, <2>8 DEF Restart, RowMeansDeliveredOrStranded
  <2>9. CASE UNCHANGED <<mails, deliveries, run, stranded>>
    BY <1>2, <2>9 DEF RowMeansDeliveredOrStranded
  <2>. QED
    BY <1>2, <2>1, <2>2, <2>3, <2>4, <2>5, <2>6, <2>7, <2>8, <2>9
    DEF DigestNext, Step, Tick, UpdateSettings, digestVars
<1>. QED  BY <1>1, <1>2, DigestInvariant, PTL DEF DigestSpec

-----------------------------------------------------------------------------
\* Within a day of UTC, a local Sunday is not before the Sunday that ends the
\* most recent week of UTC.
LEMMA LocalSundayReached ==
  ASSUME NEW hour \in Int, NEW offset \in 1 - DayLength .. DayLength - 1,
         isSunday(dayOf(hour + offset))
  PROVE  dayOf(hour + offset) >= 7 * mostRecentWeek(hour) + 6
<1> DEFINE utc == hour \div DayLength
           local == (hour + offset) \div DayLength
<1>0. DayLength \in Nat /\ DayLength > 0
  BY DayAssumption
<1>1. utc \in Int /\ local \in Int /\ local >= utc - 1
  BY <1>0, SMTT(60)
<1> HIDE DEF utc, local
<1>2. local % 7 = 6 => local >= 7 * ((utc + 1) \div 7 - 1) + 6
  BY <1>1, SMTT(60)
<1>. QED  BY <1>2 DEF isSunday, dayOf, mostRecentWeek, utc, local

\* A scheduled run never mails a week whose Sunday has not begun where the
\* subscriber lives, for any day length, hours and time zones within a day of UTC.
THEOREM ScheduledWeeksReachedSunday == DigestSpec => ScheduledWeekReachedSunday
<1>1. ASSUME TypeOK, NEW r \in Runs, Start(r, TRUE)
      PROVE  \A d \in run'[r].todo : dayOf(now + subscription[d[1]].offset) >= 7 * d[2] + 6
  <2>1. run'[r].todo = subscribers(TRUE, now)
    BY <1>1 DEF Start, TypeOK, Run
  <2>2. ASSUME NEW d \in subscribers(TRUE, now)
        PROVE  dayOf(now + subscription[d[1]].offset) >= 7 * d[2] + 6
    <3>1. d[1] \in Users /\ d[2] = mostRecentWeek(now) /\ isDue(subscription[d[1]], now)
      BY <2>2 DEF subscribers
    <3>2. subscription[d[1]] \in Subscriptions
      BY <1>1, <3>1 DEF TypeOK
    <3>3. subscription[d[1]].offset \in 1 - DayLength .. DayLength - 1
      BY <3>2, SubscriptionsAssumption
    <3>4. now \in Int
      BY <1>1, DayAssumption DEF TypeOK
    <3>. QED  BY <3>1, <3>3, <3>4, LocalSundayReached DEF isDue
  <2>. QED  BY <2>1, <2>2
<1>2. TypeOK /\ [DigestNext]_digestVars =>
        [\A r \in Runs : Start(r, TRUE) =>
           \A d \in run'[r].todo : dayOf(now + subscription[d[1]].offset) >= 7 * d[2] + 6]_digestVars
  BY <1>1
<1>. QED  BY <1>2, DigestTypes, PTL DEF DigestSpec, ScheduledWeekReachedSunday
=============================================================================
