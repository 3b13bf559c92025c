----------------------------- MODULE AppSession -----------------------------
(***************************************************************************)
(* The session over a started app: AuthProvider with its busy flag, the    *)
(* setup and login forms, AuthService, the queue of DeviceUnlockService,   *)
(* and the SecurityCard of the settings screen, which changes the native   *)
(* key protection and its mirror in the settings.                          *)
(***************************************************************************)
EXTENDS AppStart, SequencesExt

CONSTANT
  MaxQueue  \* bound on device-unlock calls left behind by closed settings screens

ASSUME QueueAssumption == MaxQueue \in Nat \ {0}

VARIABLES
  status,   \* what AuthProvider shows
  ops,      \* the operations AuthProvider waits for; busyRef is ops # {}
  offered,  \* deviceUnlockAvailable
  queue,    \* DeviceUnlockService: its running call first
  card,     \* the SecurityCard
  missed    \* history: the last change of the protection missed the mirror

sessionVars == <<status, ops, offered, queue, card, missed>>
vars == <<startVars, sessionVars>>

-----------------------------------------------------------------------------
Stages == {"load", "read", "seed", "derive", "insert", "verify", "authenticate", "unlock"}
\* An operation, and whether it was asked for since the last sign-out.
Ops == [at : Stages, current : BOOLEAN]
op(stage) == [at |-> stage, current |-> TRUE]

\* Whom a device-unlock call answers: the card's load, reload, change,
\* confirmation or recheck, the lock screen, or nobody any more.
CardCalls == {"load", "reload", "change", "confirm", "recheck"}
Calls == [want : {"status", "authenticate", "set", "mirror"}, value : BOOLEAN,
          for : CardCalls \cup {"login", "nobody"}]
ask(want, for) == [want |-> want, value |-> FALSE, for |-> for]

NoCard == [mounted |-> FALSE, shows |-> "none", able |-> FALSE, busy |-> FALSE, error |-> FALSE]

sessionReset ==
  /\ status' = "none"
  /\ ops' = {op("load")}
  /\ offered' = FALSE
  /\ queue' = <<>>
  /\ card' = NoCard
  /\ missed' = FALSE

Init ==
  /\ StartInit
  /\ status = "none" /\ ops = {op("load")} /\ offered = FALSE
  /\ queue = <<>> /\ card = NoCard /\ missed = FALSE

\* Mutant: the busy flag is React state, which a second submit may not see yet.
busyNotYetRendered == FALSE

\* busyRef: set when an operation begins, cleared when it settles.
busy == ops # {}

open == gate = "ready"

\* What an operation of the session leaves alone.
sessionOnly == UNCHANGED <<tx, conn, native, boot, gate, faulty, tampered>>

unchangedStart == UNCHANGED startVars

-----------------------------------------------------------------------------
(* AuthProvider and AuthService *)

statusOf == IF ~stored.auth THEN "unconfigured" ELSE IF unlocked THEN "unlocked" ELSE "locked"

\* The first status() and getStatus(); a failing status() leaves the gate closed.
StatusLoaded ==
  /\ open /\ op("load") \in ops
  /\ ops' = ops \ {op("load")}
  /\ \/ /\ status' = statusOf
        /\ \E available \in BOOLEAN : offered' = (native /\ available)
     \/ UNCHANGED <<status, offered>>
  /\ unchangedStart
  /\ UNCHANGED <<queue, card, missed>>

step(o, stage) == ops' = (ops \ {o}) \cup {[o EXCEPT !.at = stage]}

begin(stage) == ops' = ops \cup {op(stage)}

\* An operation rejects, or is cancelled: busy ends, the screen stays.
Rejects(o) ==
  /\ o \in ops /\ o.at \notin {"load", "authenticate"}
  /\ ops' = ops \ {o}
  /\ unchangedStart
  /\ UNCHANGED <<status, offered, queue, card, missed>>

\* The service opens the session and the provider shows it.
opens(o) ==
  /\ ops' = ops \ {o}
  /\ unlocked' = TRUE
  /\ proven' = (proven \/ o.current)
  /\ status' = "unlocked"
  /\ sessionOnly
  /\ UNCHANGED <<offered, queue, card, missed>>

\* SetupForm and setup(): one operation at a time.
Setup ==
  /\ open /\ status = "unconfigured" /\ ~busy
  /\ begin("read")
  /\ unchangedStart /\ UNCHANGED <<status, offered, queue, card, missed>>

SetupRead(o) ==
  /\ o \in ops /\ o.at = "read"
  /\ ~stored.auth
  /\ step(o, "seed")
  /\ unchangedStart /\ UNCHANGED <<status, offered, queue, card, missed>>

\* settings.update({timezone}): even a rejected one may have been stored, when
\* only its read-back failed.
SetupSeed(o) ==
  /\ o \in ops /\ o.at = "seed"
  /\ \/ step(o, "derive")
     \/ ops' = ops \ {o}
  /\ stored' = [stored EXCEPT !.seeded = TRUE]
  /\ sessionOnly
  /\ UNCHANGED <<unlocked, proven, status, offered, queue, card, missed>>

SetupDerive(o) ==
  /\ o \in ops /\ o.at = "derive"
  /\ step(o, "insert")
  /\ unchangedStart /\ UNCHANGED <<status, offered, queue, card, missed>>

SetupInsert(o) ==
  /\ o \in ops /\ o.at = "insert"
  /\ ~stored.auth
  /\ stored' = [stored EXCEPT !.auth = TRUE]
  /\ opens(o)

\* LoginForm and login(): the row, the derivation, the comparison.
Login ==
  /\ open /\ status = "locked" /\ ~busy
  /\ begin("verify")
  /\ unchangedStart /\ UNCHANGED <<status, offered, queue, card, missed>>

LoginVerified(o) ==
  /\ o \in ops /\ o.at \in {"verify", "unlock"}
  /\ stored.auth
  /\ UNCHANGED stored
  /\ opens(o)

\* loginWithDevice(): the prompt behind the calls already queued.
LoginWithDevice ==
  /\ open /\ status = "locked" /\ offered /\ ~busy
  /\ begin("authenticate")
  /\ queue' = Append(queue, ask("authenticate", "login"))
  /\ unchangedStart /\ UNCHANGED <<status, offered, card, missed>>

\* Leaving the settings screen: answers to its card go nowhere.
orphaned ==
  [i \in DOMAIN queue |->
     IF queue[i].for \in CardCalls THEN [queue[i] EXCEPT !.for = "nobody"] ELSE queue[i]]

\* "Sign out"
Logout ==
  /\ open /\ status = "unlocked" /\ card.mounted /\ ~busy
  /\ unlocked' = FALSE /\ proven' = FALSE
  /\ status' = "locked"
  /\ ops' = {[o EXCEPT !.current = FALSE] : o \in ops}
  /\ card' = NoCard
  /\ queue' = orphaned
  /\ UNCHANGED stored /\ sessionOnly
  /\ UNCHANGED <<offered, missed>>

-----------------------------------------------------------------------------
(* SecurityCard *)

\* RequireAuth mounts the routes, and the settings screen its card, only unlocked.
OpenSettings ==
  /\ open /\ status = "unlocked" /\ ~card.mounted
  /\ Len(queue) < MaxQueue
  /\ card' = [NoCard EXCEPT !.mounted = TRUE]
  /\ queue' = Append(queue, ask("status", "load"))
  /\ unchangedStart /\ UNCHANGED <<status, ops, offered, missed>>

LeaveSettings ==
  /\ card.mounted
  /\ card' = NoCard
  /\ queue' = orphaned
  /\ unchangedStart /\ UNCHANGED <<status, ops, offered, missed>>

ChangeProtection(value) ==
  /\ card.mounted /\ card.shows # "none" /\ card.able /\ ~card.busy
  /\ value # (card.shows = "on")
  /\ card' = [card EXCEPT !.busy = TRUE, !.error = FALSE]
  /\ queue' = Append(queue, [want |-> "set", value |-> value, for |-> "change"])
  /\ unchangedStart /\ UNCHANGED <<status, ops, offered, missed>>

\* "Reload security status"
Reload ==
  /\ card.mounted /\ card.error /\ ~card.busy
  /\ card' = [card EXCEPT !.busy = TRUE, !.error = FALSE]
  /\ queue' = Append(queue, ask("status", "reload"))
  /\ unchangedStart /\ UNCHANGED <<status, ops, offered, missed>>

shown(able) == [card EXCEPT !.shows = IF native THEN "on" ELSE "off", !.able = able, !.busy = FALSE]

-----------------------------------------------------------------------------
(* DeviceUnlockService: one call at a time, in the order they were made. *)

\* Mutant: calls do not wait for the ones before them.
runningAny == DOMAIN queue

running == {i \in DOMAIN queue : i = 1}

without(i) == RemoveAt(queue, i)

\* A status is answered to whoever still listens.
ServeStatus(i) ==
  /\ queue[i].want = "status"
  /\ queue' = without(i)
  /\ \E able \in BOOLEAN :
       card' = IF queue[i].for \in CardCalls THEN shown(able) ELSE card
  /\ unchangedStart
  /\ UNCHANGED <<status, ops, offered, missed>>

\* The card's error path reads the status once more, except after a plain load.
StatusFails(i) ==
  /\ queue[i].want = "status"
  /\ IF queue[i].for = "confirm"
     THEN /\ queue' = Append(without(i), ask("status", "recheck"))
          /\ card' = [card EXCEPT !.error = TRUE]
     ELSE /\ queue' = without(i)
          /\ card' = CASE queue[i].for \in {"load", "reload"} -> [card EXCEPT !.error = TRUE, !.busy = FALSE]
                       [] queue[i].for = "recheck" -> [card EXCEPT !.busy = FALSE]
                       [] OTHER -> card
  /\ unchangedStart
  /\ UNCHANGED <<status, ops, offered, missed>>

\* authenticateSession(): the native side refuses it when the protection is off.
ServeAuthenticate(i) ==
  /\ queue[i].want = "authenticate"
  /\ queue' = without(i)
  /\ \E o \in ops :
       /\ o.at = "authenticate"
       /\ \/ native /\ step(o, "unlock")
          \/ ops' = ops \ {o}
  /\ unchangedStart
  /\ UNCHANGED <<status, offered, card, missed>>

\* setKeyProtection() has changed the native state; the mirror comes next.
NativeChanged(i) ==
  /\ queue[i].want = "set"
  /\ native' = queue[i].value
  /\ queue' = [queue EXCEPT ![i].want = "mirror"]
  /\ UNCHANGED <<stored, tx, conn, boot, gate, unlocked, proven, faulty, tampered>>
  /\ UNCHANGED <<status, ops, offered, card, missed>>

\* Only a change that has something to change shows a prompt to cancel.
NativeCancelled(i) ==
  /\ queue[i].want = "set" /\ native # queue[i].value
  /\ queue' = without(i)
  /\ card' = IF queue[i].for = "change" THEN [card EXCEPT !.busy = FALSE] ELSE card
  /\ unchangedStart
  /\ UNCHANGED <<status, ops, offered, missed>>

\* What a failed change does to the card: an error, and the status again.
changeFailed(i) ==
  IF queue[i].for = "change"
  THEN /\ queue' = Append(without(i), ask("status", "recheck"))
       /\ card' = [card EXCEPT !.error = TRUE]
  ELSE queue' = without(i) /\ UNCHANGED card

\* The native change is refused or fails, possibly after it took effect.
NativeFails(i) ==
  /\ queue[i].want = "set"
  /\ native' \in {native, queue[i].value}
  /\ missed' = (missed \/ native' # native)
  /\ changeFailed(i)
  /\ UNCHANGED <<stored, tx, conn, boot, gate, unlocked, proven, faulty, tampered>>
  /\ UNCHANGED <<status, ops, offered>>

\* mirror(): settings.update({biometricEnabled}) if it differs; then the card
\* asks for the authoritative status.
Mirror(i) ==
  /\ queue[i].want = "mirror"
  /\ stored' = [stored EXCEPT !.mirror = queue[i].value]
  /\ missed' = FALSE
  /\ queue' = IF queue[i].for = "change"
              THEN Append(without(i), ask("status", "confirm"))
              ELSE without(i)
  /\ sessionOnly
  /\ UNCHANGED <<unlocked, proven, status, ops, offered, card>>

MirrorFails(i) ==
  /\ queue[i].want = "mirror"
  /\ missed' = TRUE
  /\ changeFailed(i)
  /\ unchangedStart
  /\ UNCHANGED <<status, ops, offered>>

Serve ==
  \E i \in running :
    \/ ServeStatus(i) \/ StatusFails(i) \/ ServeAuthenticate(i)
    \/ NativeChanged(i) \/ NativeCancelled(i) \/ NativeFails(i)
    \/ Mirror(i) \/ MirrorFails(i)

-----------------------------------------------------------------------------
Start == StartStep /\ UNCHANGED sessionVars

Kill == killStart /\ sessionReset

Next ==
  \/ Start
  \/ StatusLoaded
  \/ Setup \/ Login \/ LoginWithDevice \/ Logout
  \/ \E o \in ops :
       Rejects(o) \/ SetupRead(o) \/ SetupSeed(o) \/ SetupDerive(o) \/ SetupInsert(o)
         \/ LoginVerified(o)
  \/ OpenSettings \/ LeaveSettings \/ Reload
  \/ \E value \in BOOLEAN : ChangeProtection(value)
  \/ Serve
  \/ Kill

Spec == Init /\ [][Next]_vars

-----------------------------------------------------------------------------
\* The journal is shown only while the service's session is open, and only after
\* a setup, a password or a device prompt asked for since the last sign-out, or
\* the prompt of this start.  A late answer to an earlier request never opens it.
RevealedWasAuthenticated ==
  open /\ status = "unlocked" => unlocked /\ proven /\ stored.auth

\* A settled card without an error shows the native state, also when screens were
\* closed over a pending change, the mirror write failed or a change was cancelled.
CardIsAuthoritative ==
  card.mounted /\ ~card.busy /\ ~card.error /\ card.shows # "none" =>
    (card.shows = "on") = native

\* The settings mirror follows the native state, but for a change whose mirror
\* write failed; the next start repairs that too.
MirrorFollowsNative ==
  open /\ ~missed /\ (\A i \in DOMAIN queue : queue[i].want # "mirror") =>
    stored.mirror = native
=============================================================================
