----------------------------- MODULE WeeklyDigest -----------------------------
(***************************************************************************)
(* The web server's weekly digest: scheduler ticks and manual requests run *)
(* runWeeklyDigest() concurrently over one delivery table, whose unique    *)
(* (user, week) key is the only thing they share.  A run reads the         *)
(* subscribers once and then works through them: claim the week, send the  *)
(* mail, undo the claim when the send failed.  The server can be killed    *)
(* between any two of these steps.                                         *)
(*                                                                         *)
(* Time is counted in hours of UTC; a day has DayLength hours, day 0 is a  *)
(* Monday, and week w is made of the days 7w .. 7w + 6.                    *)
(***************************************************************************)
EXTENDS Integers

CONSTANTS
  Users,
  Runs,        \* the runs that can be under way at the same time
  DayLength,   \* hours of a day
  Subscriptions,  \* the settings a user can have
  FirstHour, MaxHour,  \* bounds of the clock
  MaxSaves,  \* bound on settings changes
  MaxRestarts  \* bound on server restarts

ASSUME DayAssumption == DayLength \in Nat \ {0} /\ FirstHour \in Nat /\ MaxHour \in Nat /\ FirstHour <= MaxHour
ASSUME BoundsAssumption == MaxSaves \in Nat /\ MaxRestarts \in Nat

VARIABLES
  now,         \* the UTC hour
  subscription,    \* subscription[u]: the subscription of user u
  deliveries,  \* the rows of digest_deliveries
  run,         \* run[r]: a call of runWeeklyDigest()
  mails,       \* history: acknowledged mails of each user and week
  ghosts,      \* history: mails that arrived although their send failed
  stranded,    \* history: claims whose run ended before it sent or undid
  saves, restarts  \* used up bounds

digestVars == <<now, subscription, deliveries, run, mails, ghosts, stranded, saves, restarts>>

-----------------------------------------------------------------------------

\* offset: the time zone, in hours east of UTC, less than a day either way; hour:
\* the digest hour.
ASSUME SubscriptionsAssumption ==
  Subscriptions \subseteq
    [enabled : BOOLEAN, hasEmail : BOOLEAN, offset : 1 - DayLength .. DayLength - 1,
     hour : 0 .. DayLength - 1]

dayOf(hour) == hour \div DayLength
isSunday(day) == day % 7 = 6

\* mostRecentSunday(): the week that ends on the latest Sunday of UTC, today
\* included.
mostRecentWeek(hour) == (dayOf(hour) + 1) \div 7 - 1

Weeks == mostRecentWeek(FirstHour) .. mostRecentWeek(MaxHour)
Digests == Users \X Weeks

\* isDue: it is Sunday, at the digest hour, in the subscriber's own time zone.
isDue(s, hour) ==
  isSunday(dayOf(hour + s.offset)) /\ (hour + s.offset) % DayLength = s.hour

\* Mutant: the week that is still running instead of the completed one.
subscribersRunningWeek(dueCheck, hour) ==
  {u \in Users : /\ subscription[u].enabled
                 /\ dueCheck => isDue(subscription[u], hour)
                 /\ subscription[u].hasEmail} \X {mostRecentWeek(hour) + 1}

\* The subscribers a run will work on, with the week each of them gets.
subscribers(dueCheck, hour) ==
  {u \in Users : /\ subscription[u].enabled
                 /\ dueCheck => isDue(subscription[u], hour)
                 /\ subscription[u].hasEmail} \X {mostRecentWeek(hour)}

Idle == [phase |-> "idle", todo |-> {}, claim |-> {}]

\* claim holds the digest the run has claimed, if any.
Run == [phase : {"idle", "scan", "send", "undo"}, todo : SUBSET Digests,
        claim : SUBSET Digests]

TypeOK ==
  /\ now \in FirstHour .. MaxHour
  /\ subscription \in [Users -> Subscriptions]
  /\ deliveries \subseteq Digests
  /\ run \in [Runs -> Run]
  /\ mails \in [Digests -> Nat]
  /\ ghosts \subseteq Digests
  /\ stranded \subseteq Digests
  /\ saves \in 0 .. MaxSaves /\ restarts \in 0 .. MaxRestarts

DigestInit ==
  /\ now = FirstHour
  /\ subscription \in [Users -> Subscriptions]
  /\ deliveries = {}
  /\ run = [r \in Runs |-> Idle]
  /\ mails = [d \in Digests |-> 0]
  /\ ghosts = {}
  /\ stranded = {}
  /\ saves = 0 /\ restarts = 0

-----------------------------------------------------------------------------
\* A scheduler tick or a manual request: read the clock and the subscribers.
Start(r, dueCheck) ==
  /\ run[r].phase = "idle"
  /\ subscribers(dueCheck, now) # {}
  /\ run' = [run EXCEPT ![r] = [phase |-> "scan", todo |-> subscribers(dueCheck, now),
                                claim |-> {}]]
  /\ UNCHANGED <<now, subscription, deliveries, mails, ghosts, stranded, saves, restarts>>

\* The end of an iteration of the loop over the subscribers.
nextSubscriber(r, d) ==
  IF run[r].todo = {d} THEN run' = [run EXCEPT ![r] = Idle]
  ELSE run' = [run EXCEPT ![r].phase = "scan", ![r].todo = @ \ {d}, ![r].claim = {}]

\* Mutant: the claim is an upsert: it succeeds on a row that exists.
ClaimUpserts(r, d) ==
  /\ run[r].phase = "scan" /\ d \in run[r].todo
  /\ deliveries' = deliveries \cup {d}
  /\ run' = [run EXCEPT ![r].phase = "send", ![r].claim = {d}]
  /\ UNCHANGED <<now, subscription, mails, ghosts, stranded, saves, restarts>>

\* tryRecordDelivery(): insert the row, or find the week delivered already.
Claim(r, d) ==
  /\ run[r].phase = "scan" /\ d \in run[r].todo
  /\ \/ /\ d \notin deliveries
        /\ deliveries' = deliveries \cup {d}
        /\ run' = [run EXCEPT ![r].phase = "send", ![r].claim = {d}]
     \/ /\ d \in deliveries
        /\ nextSubscriber(r, d)
        /\ UNCHANGED deliveries
  /\ UNCHANGED <<now, subscription, mails, ghosts, stranded, saves, restarts>>

\* Entries are read and decrypted and the mail is accepted.
Send(r, d) ==
  /\ run[r].phase = "send" /\ d \in run[r].claim
  /\ mails' = [mails EXCEPT ![d] = @ + 1]
  /\ nextSubscriber(r, d)
  /\ UNCHANGED <<now, subscription, deliveries, ghosts, stranded, saves, restarts>>

\* Mutant: a failed send leaves its claim behind.
SendFailsKeepsClaim(r, d) ==
  /\ run[r].phase = "send" /\ d \in run[r].claim
  /\ nextSubscriber(r, d)
  /\ UNCHANGED <<now, subscription, deliveries, mails, ghosts, stranded, saves, restarts>>

\* Reading, decrypting or sending throws; the mail may have arrived all the same.
SendFails(r, d) ==
  /\ run[r].phase = "send" /\ d \in run[r].claim
  /\ run' = [run EXCEPT ![r].phase = "undo"]
  /\ ghosts' \in {ghosts, ghosts \cup {d}}
  /\ UNCHANGED <<now, subscription, deliveries, mails, stranded, saves, restarts>>

\* Mutant: the undo deletes by user alone.
UndoEveryWeek(r, d) ==
  /\ run[r].phase = "undo" /\ d \in run[r].claim
  /\ deliveries' = {e \in deliveries : e[1] # d[1]}
  /\ nextSubscriber(r, d)
  /\ UNCHANGED <<now, subscription, mails, ghosts, stranded, saves, restarts>>

\* deleteDelivery(): undo the claim so that the next run can retry.
Undo(r, d) ==
  /\ run[r].phase = "undo" /\ d \in run[r].claim
  /\ deliveries' = deliveries \ {d}
  /\ nextSubscriber(r, d)
  /\ UNCHANGED <<now, subscription, mails, ghosts, stranded, saves, restarts>>

\* The insert commits but its answer is lost on the way from a remote database:
\* the call throws, and with it the run.
ClaimUnheard(r, d) ==
  /\ run[r].phase = "scan" /\ d \in run[r].todo
  /\ d \notin deliveries
  /\ deliveries' = deliveries \cup {d}
  /\ run' = [run EXCEPT ![r] = Idle]
  /\ stranded' = stranded \cup {d}
  /\ UNCHANGED <<now, subscription, mails, ghosts, saves, restarts>>

\* A database call of the loop throws: the call of runWeeklyDigest() ends there.
Abort(r) ==
  /\ run[r].phase \in {"scan", "undo"}
  /\ run' = [run EXCEPT ![r] = Idle]
  /\ stranded' = stranded \cup run[r].claim
  /\ UNCHANGED <<now, subscription, deliveries, mails, ghosts, saves, restarts>>

-----------------------------------------------------------------------------
Tick ==
  /\ now < MaxHour
  /\ now' = now + 1
  /\ UNCHANGED <<subscription, deliveries, run, mails, ghosts, stranded, saves, restarts>>

\* The user saves other settings; runs under way keep what they have read.
UpdateSettings(u, s) ==
  /\ saves < MaxSaves
  /\ s # subscription[u]
  /\ subscription' = [subscription EXCEPT ![u] = s]
  /\ saves' = saves + 1
  /\ UNCHANGED <<now, deliveries, run, mails, ghosts, stranded, restarts>>

Restart ==
  /\ restarts < MaxRestarts
  /\ restarts' = restarts + 1
  /\ run' = [r \in Runs |-> Idle]
  /\ stranded' = stranded \cup UNION {run[r].claim : r \in Runs}
  /\ UNCHANGED <<now, subscription, deliveries, mails, ghosts, saves>>

Step(r) ==
  \/ \E d \in Digests :
       \/ Claim(r, d) \/ ClaimUnheard(r, d)
       \/ Send(r, d) \/ SendFails(r, d) \/ Undo(r, d)
  \/ Abort(r)

DigestNext ==
  \/ \E r \in Runs, dueCheck \in BOOLEAN : Start(r, dueCheck)
  \/ \E r \in Runs : Step(r)
  \/ Tick
  \/ \E u \in Users, s \in Subscriptions : UpdateSettings(u, s)
  \/ Restart

DigestSpec == DigestInit /\ [][DigestNext]_digestVars

-----------------------------------------------------------------------------
\* Whatever runs overlap, fail, retry and are killed, no digest is acknowledged
\* twice by the mail server (the promise of the unique key); a mail whose send
\* reported a failure is the one exception, see ghosts.
AcknowledgedOnce == \A d \in Digests : mails[d] <= 1

\* Two runs never work on one digest, and none works on one already sent: the
\* row outlives the send, so an undo can only delete its own run's claim.
ClaimIsExclusive ==
  /\ \A r, q \in Runs : r # q => run[r].claim \cap run[q].claim = {}
  /\ \A r \in Runs : \A d \in run[r].claim : d \in deliveries /\ mails[d] = 0
  /\ \A d \in Digests : mails[d] > 0 => d \in deliveries

\* A row that no run holds stands for a delivered digest, unless its run was
\* killed or lost its database between the claim and the end of the send.
RowMeansDeliveredOrStranded ==
  \A d \in deliveries :
    \/ mails[d] > 0
    \/ \E r \in Runs : d \in run[r].claim
    \/ d \in stranded

\* A scheduled run takes up a week only when that week's Sunday has begun where
\* the subscriber lives, although the week is computed in UTC.
ScheduledWeekReachedSunday ==
  [][\A r \in Runs :
       Start(r, TRUE) =>
         \A d \in run'[r].todo : dayOf(now + subscription[d[1]].offset) >= 7 * d[2] + 6]_digestVars

=============================================================================
