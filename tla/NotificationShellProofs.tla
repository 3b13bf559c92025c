----------------------- MODULE NotificationShellProofs -----------------------
(***************************************************************************)
(* The notification permission for any API levels, any number of user      *)
(* events and of reads under way: the system's dialog is opened once, and  *)
(* a screen at rest shows what the device says.  The plugin serves calls   *)
(* and the web view hears answers in order, and only the newest read       *)
(* counts; the invariant says where that read can be.                      *)
(*                                                                         *)
(* The taps for any number of them and any limit of the buffers: none is   *)
(* forgotten on its way to the weekly page, and in one life of the web     *)
(* view none is given twice but a late one.  The invariant says where a    *)
(* tap that has not been delivered is, and that the pump has one           *)
(* acknowledgement on its way at a time, behind the events of its tap.     *)
(***************************************************************************)
EXTENDS NotificationShell, TLAPS, FiniteSetTheorems, WellFoundedInduction, NaturalsInduction

Decisions == {"unsupported", "denied runtime", "prompt", "denied app", "denied channel", "granted"}

Devices == [api : Levels, granted : BOOLEAN, requested : BOOLEAN, app : BOOLEAN, channel : BOOLEAN]

Calls == [call : {"status", "request", "open"}, gen : Nat,
          purpose : {"refresh", "check", "outcome", "failed outcome"}]

Answers == [to : Calls, value : Decisions \cup {"done", "failed"}]

PermissionType ==
  /\ device \in Devices
  /\ visible \in BOOLEAN /\ dialog \in BOOLEAN /\ dialogs \in Nat
  /\ calls \in Seq(Calls)
  /\ answers \in Seq(Answers)
  /\ generation \in Nat
  /\ loading \in BOOLEAN /\ error \in BOOLEAN

\* A read whose answer counts, a call that opens the dialog, and an answer that
\* will make such a call.
current(c) == c.call = "status" /\ c.gen = generation
asks(a) == current(a.to) /\ a.to.purpose = "check" /\ a.value = "prompt"

\* Reads are numbered in order, and there is at most one current read: among the
\* calls or among the answers, and none once it has been heard.
NewestInv ==
  /\ \A i \in DOMAIN calls : calls[i].gen <= generation
  /\ \A i \in DOMAIN answers : answers[i].to.gen <= generation
  /\ \A i, j \in DOMAIN calls : current(calls[i]) /\ current(calls[j]) => i = j
  /\ \A i, j \in DOMAIN answers : current(answers[i].to) /\ current(answers[j].to) => i = j
  /\ \A i \in DOMAIN calls, j \in DOMAIN answers : ~(current(calls[i]) /\ current(answers[j].to))
  /\ ~loading => /\ \A i \in DOMAIN calls : ~current(calls[i])
                 /\ \A i \in DOMAIN answers : ~current(answers[i].to)

isRequest(c) == c.call = "request"

\* At most one request is on its way or about to be: it comes before the current
\* read, whose answer can then no longer say "prompt", and not after the mark.
AskInv ==
  /\ \A i, j \in DOMAIN calls :
       isRequest(calls[i]) =>
         (isRequest(calls[j]) => i = j) /\ (current(calls[j]) => i < j)
  /\ \A i \in DOMAIN calls, j \in DOMAIN answers : ~(isRequest(calls[i]) /\ asks(answers[j]))
  /\ device.requested => /\ \A i \in DOMAIN calls : ~isRequest(calls[i])
                         /\ \A j \in DOMAIN answers : ~asks(answers[j])
  /\ IF device.requested THEN dialogs <= 1 ELSE dialogs = 0

\* What brings the device's decision to the screen: coming back to the front, the
\* answer of a request, the current read, or its answer; or it is there.
\* good(v): the answer of a read of the device as it is, or of one that failed.
good(v) == v \in {"failed", permissionDecision(device)}
ShownInv ==
  \/ ~visible \/ dialog
  \/ \E i \in DOMAIN answers : isRequest(answers[i].to)
  \/ \E i \in DOMAIN calls : current(calls[i])
  \/ \E i \in DOMAIN answers : current(answers[i].to) /\ good(answers[i].value)
  \/ ~loading /\ (error \/ shown = permissionDecision(device))

IInv == PermissionType /\ NewestInv /\ AskInv /\ ShownInv

-----------------------------------------------------------------------------
LEMMA TailFacts ==
  ASSUME NEW S, NEW q \in Seq(S), q # <<>>
  PROVE  /\ Tail(q) \in Seq(S) /\ Head(q) = q[1] /\ q[1] \in S /\ 1 \in DOMAIN q
         /\ \A i \in DOMAIN Tail(q) : i \in Nat \ {0} /\ i + 1 \in DOMAIN q /\ Tail(q)[i] = q[i + 1]
         /\ \A i \in DOMAIN q : i \in Nat /\ (i = 1 \/ (i - 1 \in DOMAIN Tail(q) /\ Tail(q)[i - 1] = q[i]))
OBVIOUS

LEMMA AppendFacts ==
  ASSUME NEW S, NEW q \in Seq(S), NEW e \in S
  PROVE  /\ Append(q, e) \in Seq(S) /\ Len(q) + 1 \in DOMAIN Append(q, e)
         /\ Append(q, e)[Len(q) + 1] = e
         /\ \A i \in DOMAIN q : i \in Nat /\ i < Len(q) + 1
                                /\ i \in DOMAIN Append(q, e) /\ Append(q, e)[i] = q[i]
         /\ \A i \in DOMAIN Append(q, e) : i \in Nat /\ (i \in DOMAIN q \/ i = Len(q) + 1)
OBVIOUS

\* permissionDecision() says "prompt" only before the mark, and never "failed".
LEMMA DecisionFacts ==
  ASSUME NEW d \in Devices
  PROVE  /\ permissionDecision(d) \in Decisions
         /\ permissionDecision(d) = "prompt" => ~d.requested
BY DEF permissionDecision, Decisions

-----------------------------------------------------------------------------
\* The calls and answers of the next state are those of this one, the first dropped
\* when s or t is 1, and some that are neither reads nor calls that ask.
Shifted(s, t) ==
  /\ \A i \in DOMAIN calls' : i \in Nat
  /\ \A i \in DOMAIN calls' :
       calls'[i] = open \/ (i + s \in DOMAIN calls /\ calls'[i] = calls[i + s])
  /\ \A i \in DOMAIN answers' : i \in Nat
  /\ \A i \in DOMAIN answers' :
       \/ answers'[i].to \in {open, request}
       \/ i + t \in DOMAIN answers /\ answers'[i] = answers[i + t]

\* Such a step disturbs neither the newest read nor the question.
LEMMA ShiftKeeps ==
  ASSUME PermissionType, NewestInv, AskInv, NEW s \in {0, 1}, NEW t \in {0, 1},
         Shifted(s, t), UNCHANGED <<generation, loading>>
  PROVE  /\ NewestInv'
         /\ device'.requested = device.requested /\ dialogs' = dialogs => AskInv'
<1> USE DEF Shifted
<1>1. generation \in Nat /\ ~current(open) /\ ~current(request) /\ ~isRequest(open)
  BY DEF PermissionType, current, open, request, isRequest
<1>2. open.gen = 0 /\ request.gen = 0
  BY DEF open, request
<1>3. ASSUME NEW i \in DOMAIN calls'
      PROVE  /\ calls'[i].gen <= generation
             /\ current(calls'[i]) \/ isRequest(calls'[i]) =>
                  i + s \in DOMAIN calls /\ calls'[i] = calls[i + s]
  BY <1>1, <1>2 DEF NewestInv
<1>4. ASSUME NEW i \in DOMAIN answers'
      PROVE  /\ answers'[i].to.gen <= generation
             /\ current(answers'[i].to) => i + t \in DOMAIN answers /\ answers'[i] = answers[i + t]
             /\ asks(answers'[i]) => current(answers'[i].to)
  BY <1>1, <1>2 DEF NewestInv, asks
<1>5. NewestInv'
  <2>1. \A i, j \in DOMAIN calls' : current(calls'[i]) /\ current(calls'[j]) => i = j
    <3> SUFFICES ASSUME NEW i \in DOMAIN calls', NEW j \in DOMAIN calls',
                        current(calls'[i]), current(calls'[j])
                 PROVE  i = j
      OBVIOUS
    <3>1. i + s = j + s
      BY <1>3 DEF NewestInv
    <3> QED
      BY <3>1
  <2>2. \A i, j \in DOMAIN answers' : current(answers'[i].to) /\ current(answers'[j].to) => i = j
    <3> SUFFICES ASSUME NEW i \in DOMAIN answers', NEW j \in DOMAIN answers',
                        current(answers'[i].to), current(answers'[j].to)
                 PROVE  i = j
      OBVIOUS
    <3>1. i + t = j + t
      BY <1>4 DEF NewestInv
    <3> QED
      BY <3>1
  <2>3. \A i \in DOMAIN calls', j \in DOMAIN answers' :
          ~(current(calls'[i]) /\ current(answers'[j].to))
    BY <1>3, <1>4 DEF NewestInv
  <2>4. ~loading' => /\ \A i \in DOMAIN calls' : ~current(calls'[i])
                     /\ \A i \in DOMAIN answers' : ~current(answers'[i].to)
    BY <1>3, <1>4 DEF NewestInv
  <2> QED
    BY <1>3, <1>4, <2>1, <2>2, <2>3, <2>4 DEF NewestInv, current
<1>6. ASSUME device'.requested = device.requested, dialogs' = dialogs
      PROVE  AskInv'
  <2>1. \A i, j \in DOMAIN calls' :
          isRequest(calls'[i]) =>
            (isRequest(calls'[j]) => i = j) /\ (current(calls'[j]) => i < j)
    <3> SUFFICES ASSUME NEW i \in DOMAIN calls', NEW j \in DOMAIN calls', isRequest(calls'[i])
                 PROVE  (isRequest(calls'[j]) => i = j) /\ (current(calls'[j]) => i < j)
      OBVIOUS
    <3>1. isRequest(calls'[j]) => i + s = j + s
      BY <1>3 DEF AskInv
    <3>2. current(calls'[j]) => i + s < j + s
      BY <1>3 DEF AskInv
    <3> QED
      BY <3>1, <3>2
  <2>2. \A i \in DOMAIN calls', j \in DOMAIN answers' : ~(isRequest(calls'[i]) /\ asks(answers'[j]))
    BY <1>3, <1>4 DEF AskInv
  <2>3. device'.requested => /\ \A i \in DOMAIN calls' : ~isRequest(calls'[i])
                             /\ \A j \in DOMAIN answers' : ~asks(answers'[j])
    BY <1>3, <1>4, <1>6 DEF AskInv
  <2> QED
    BY <1>6, <2>1, <2>2, <2>3 DEF AskInv, asks, current
<1> QED
  BY <1>5, <1>6

Purposes == {"refresh", "check", "outcome", "failed outcome"}

\* A refresh makes its own read the newest: no older answer counts any more.
LEMMA RefreshKeeps ==
  ASSUME PermissionType, NewestInv, AskInv, NEW purpose \in Purposes, refresh(purpose),
         device'.requested = device.requested, dialogs' = dialogs,
         answers' = answers \/ (answers # <<>> /\ answers' = Tail(answers))
  PROVE  /\ calls' \in Seq(Calls) /\ answers' \in Seq(Answers) /\ generation' \in Nat
         /\ loading' = TRUE /\ UNCHANGED error
         /\ NewestInv' /\ AskInv' /\ ShownInv'
<1> DEFINE new == status(generation + 1, purpose)
           n == Len(calls) + 1
           counts(c) == c.call = "status" /\ c.gen = generation + 1
<1>1. /\ calls' = Append(calls, new) /\ generation' = generation + 1
      /\ loading' = TRUE /\ UNCHANGED error
  BY DEF refresh
<1>0. generation \in Nat
  BY DEF PermissionType
<1>2. new \in Calls /\ counts(new) /\ ~isRequest(new) /\ new.gen = generation + 1
  <2>1. new = [call |-> "status", gen |-> generation + 1, purpose |-> purpose]
    BY DEF status
  <2> HIDE DEF new
  <2>2. new.call = "status" /\ new.gen = generation + 1
    BY <2>1
  <2>3. new \in Calls
    <3>1. generation + 1 \in Nat /\ purpose \in {"refresh", "check", "outcome", "failed outcome"}
      <4>1. generation + 1 \in Nat
        BY <1>0
      <4>2. purpose \in {"refresh", "check", "outcome", "failed outcome"}
        BY DEF Purposes
      <4> QED
        BY <4>1, <4>2
    <3>2. ASSUME NEW g \in Nat, NEW q \in {"refresh", "check", "outcome", "failed outcome"}
          PROVE  [call |-> "status", gen |-> g, purpose |-> q] \in Calls
      BY DEF Calls
    <3> QED
      BY <2>1, <3>1, <3>2
  <2> QED
    BY <2>2, <2>3 DEF isRequest
<1> HIDE DEF new
<1>3. /\ calls' \in Seq(Calls) /\ n \in DOMAIN calls' /\ calls'[n] = new
      /\ \A i \in DOMAIN calls' : i \in Nat /\ (i = n \/ (i \in DOMAIN calls /\ i < n /\ calls'[i] = calls[i]))
  BY <1>1, <1>2, AppendFacts DEF PermissionType
<1>4. /\ answers' \in Seq(Answers)
      /\ \A j \in DOMAIN answers' : \E k \in DOMAIN answers : answers'[j] = answers[k]
  <2>1. CASE answers' = answers
    BY <2>1 DEF PermissionType
  <2>2. CASE answers # <<>> /\ answers' = Tail(answers)
    <3>1. answers \in Seq(Answers)
      BY DEF PermissionType
    <3>2. /\ Tail(answers) \in Seq(Answers)
          /\ \A j \in DOMAIN Tail(answers) : j + 1 \in DOMAIN answers /\ Tail(answers)[j] = answers[j + 1]
      BY <2>2, <3>1, TailFacts
    <3> QED
      BY <2>2, <3>2
  <2> QED
    BY <2>1, <2>2
<1> HIDE DEF n
<1>5. \A i \in DOMAIN calls' : calls'[i].gen <= generation + 1 /\ (counts(calls'[i]) <=> i = n)
  <2>1. \A k \in DOMAIN calls : calls[k] \in Calls
    BY DEF PermissionType
  <2>2. \A k \in DOMAIN calls : calls[k].gen <= generation /\ calls[k].gen \in Nat
    BY <2>1 DEF NewestInv, Calls
  <2> QED
    BY <1>0, <1>2, <1>3, <2>2
<1>6. \A j \in DOMAIN answers' : answers'[j].to.gen <= generation + 1 /\ ~counts(answers'[j].to)
  <2>1. \A k \in DOMAIN answers : answers[k] \in Answers
    BY DEF PermissionType
  <2>2. \A k \in DOMAIN answers : answers[k].to.gen <= generation /\ answers[k].to.gen \in Nat
    BY <2>1 DEF NewestInv, Answers, Calls
  <2> QED
    BY <1>0, <1>4, <2>2
<1>7. NewestInv'
  BY <1>1, <1>5, <1>6 DEF NewestInv, current
<1>8. AskInv'
  <2>1. \A i \in DOMAIN calls' : isRequest(calls'[i]) =>
          i < n /\ i \in DOMAIN calls /\ isRequest(calls[i]) /\ calls'[i] = calls[i]
    BY <1>2, <1>3
  <2>2. \A i, j \in DOMAIN calls' : isRequest(calls'[i]) =>
          (isRequest(calls'[j]) => i = j) /\ (counts(calls'[j]) => i < j)
    BY <1>5, <2>1 DEF AskInv
  <2>3. device.requested => \A i \in DOMAIN calls' : ~isRequest(calls'[i])
    BY <2>1 DEF AskInv
  <2>4. IF device.requested THEN dialogs <= 1 ELSE dialogs = 0
    BY DEF AskInv
  <2> QED
    BY <1>1, <1>6, <2>2, <2>3, <2>4 DEF AskInv, asks, current
<1>9. ShownInv'
  BY <1>1, <1>3, <1>5 DEF ShownInv, current
<1> QED
  BY <1>0, <1>1, <1>3, <1>4, <1>7, <1>8, <1>9

\* An answered read moves from the calls to the end of the answers.
LEMMA ServeStatusKeeps ==
  ASSUME IInv, ServeStatus
  PROVE  IInv'
<1> DEFINE c == calls[1]
           m == Len(answers) + 1
<1>0. PermissionType /\ NewestInv /\ AskInv /\ ShownInv /\ device \in Devices
  BY DEF IInv, PermissionType
<1>1. PICK v \in {permissionDecision(device), "failed"} :
        answers' = Append(answers, [to |-> Head(calls), value |-> v])
  BY DEF ServeStatus, tell
<1>2. /\ calls # <<>> /\ Head(calls).call = "status" /\ calls' = Tail(calls)
      /\ UNCHANGED <<device, visible, dialog, dialogs, generation, shown, loading, error>>
  BY DEF ServeStatus, served, hookVars
<1>3. /\ calls' \in Seq(Calls) /\ c \in Calls /\ Head(calls) = c /\ 1 \in DOMAIN calls
      /\ \A i \in DOMAIN calls' : i \in Nat \ {0} /\ i + 1 \in DOMAIN calls /\ calls'[i] = calls[i + 1]
      /\ \A i \in DOMAIN calls : i \in Nat /\ (i = 1 \/ (i - 1 \in DOMAIN calls' /\ calls'[i - 1] = calls[i]))
  BY <1>0, <1>2, TailFacts DEF PermissionType
<1>4. v \in Decisions \cup {"done", "failed"} /\ (v = "prompt" => ~device.requested)
  BY <1>0, <1>1, DecisionFacts
<1>5. [to |-> c, value |-> v] \in Answers
  BY <1>3, <1>4 DEF Answers
<1>6. /\ answers' \in Seq(Answers) /\ m \in DOMAIN answers' /\ answers'[m] = [to |-> c, value |-> v]
      /\ \A j \in DOMAIN answers : j \in DOMAIN answers' /\ answers'[j] = answers[j]
      /\ \A j \in DOMAIN answers' : j = m \/ (j \in DOMAIN answers /\ answers'[j] = answers[j])
  BY <1>0, <1>1, <1>3, <1>5, AppendFacts DEF PermissionType
<1> HIDE DEF c, m
<1>7. NewestInv'
  <2>1. \A i \in DOMAIN calls' : calls'[i].gen <= generation
    BY <1>0, <1>3 DEF NewestInv
  <2>2. c.gen <= generation /\ answers'[m].to = c
    BY <1>0, <1>3, <1>6 DEF NewestInv, c
  <2>3. \A j \in DOMAIN answers' : answers'[j].to.gen <= generation
    BY <1>0, <1>6, <2>2 DEF NewestInv
  <2>4. \A i, j \in DOMAIN calls' : current(calls'[i]) /\ current(calls'[j]) => i = j
    <3>1. ASSUME NEW i \in DOMAIN calls', NEW j \in DOMAIN calls', current(calls'[i]), current(calls'[j])
          PROVE  i + 1 = j + 1 /\ i \in Nat /\ j \in Nat
      BY <1>0, <1>3, <3>1 DEF NewestInv
    <3> QED
      BY <3>1
  <2>5. \A i \in DOMAIN calls' : ~(current(calls'[i]) /\ current(c))
    <3>1. ASSUME NEW i \in DOMAIN calls', current(calls'[i]), current(c)
          PROVE  i + 1 = 1 /\ i \in Nat \ {0}
      BY <1>0, <1>3, <3>1 DEF NewestInv, c
    <3> QED
      BY <3>1
  <2>6. \A j \in DOMAIN answers : ~(current(answers[j].to) /\ current(c))
    BY <1>0, <1>3 DEF NewestInv, c
  <2>7. \A i, j \in DOMAIN answers' : current(answers'[i].to) /\ current(answers'[j].to) => i = j
    BY <1>0, <1>6, <2>2, <2>6 DEF NewestInv
  <2>8. \A i \in DOMAIN calls', j \in DOMAIN answers' : ~(current(calls'[i]) /\ current(answers'[j].to))
    BY <1>0, <1>3, <1>6, <2>2, <2>5 DEF NewestInv
  <2>9. ~loading => /\ \A i \in DOMAIN calls' : ~current(calls'[i])
                    /\ \A i \in DOMAIN answers' : ~current(answers'[i].to)
    BY <1>0, <1>3, <1>6, <2>2 DEF NewestInv, c
  <2> QED
    BY <1>2, <2>1, <2>3, <2>4, <2>7, <2>8, <2>9 DEF NewestInv, current
<1>8. AskInv'
  <2>1. \A i, j \in DOMAIN calls' : isRequest(calls'[i]) =>
          (isRequest(calls'[j]) => i = j) /\ (current(calls'[j]) => i < j)
    <3>1. ASSUME NEW i \in DOMAIN calls', NEW j \in DOMAIN calls', isRequest(calls'[i])
          PROVE  /\ i \in Nat /\ j \in Nat /\ isRequest(calls'[j]) => i + 1 = j + 1
                 /\ current(calls'[j]) => i + 1 < j + 1
      BY <1>0, <1>3, <3>1 DEF AskInv
    <3>2. ASSUME NEW i \in DOMAIN calls', NEW j \in DOMAIN calls', isRequest(calls'[i])
          PROVE  (isRequest(calls'[j]) => i = j) /\ (current(calls'[j]) => i < j)
      BY <1>3, <3>1, <3>2
    <3> QED
      BY <3>2
  <2>2. \A i \in DOMAIN calls' : isRequest(calls'[i]) => ~current(c)
    <3>1. ASSUME NEW i \in DOMAIN calls', isRequest(calls'[i]), current(c)
          PROVE  i + 1 < 1 /\ i \in Nat \ {0}
      BY <1>0, <1>3, <3>1 DEF AskInv, c
    <3> QED
      BY <3>1
  <2>3. asks(answers'[m]) => current(c) /\ ~device.requested
    BY <1>4, <1>6 DEF asks
  <2>4. \A i \in DOMAIN calls', j \in DOMAIN answers' : ~(isRequest(calls'[i]) /\ asks(answers'[j]))
    BY <1>0, <1>3, <1>6, <2>2, <2>3 DEF AskInv
  <2>5. device.requested => /\ \A i \in DOMAIN calls' : ~isRequest(calls'[i])
                            /\ \A j \in DOMAIN answers' : ~asks(answers'[j])
    BY <1>0, <1>3, <1>6, <2>3 DEF AskInv
  <2> QED
    BY <1>0, <1>2, <2>1, <2>4, <2>5 DEF AskInv, asks, current
<1>9. ShownInv'
  <2>1. ASSUME NEW i \in DOMAIN calls, current(calls[i])
        PROVE  \/ \E k \in DOMAIN calls' : current(calls'[k])
               \/ \E k \in DOMAIN answers' : current(answers'[k].to) /\ good(answers'[k].value)
    BY <1>1, <1>3, <1>6, <2>1 DEF c, good
  <2> QED
    BY <1>0, <1>2, <1>6, <2>1 DEF ShownInv, current, good
<1> QED
  BY <1>0, <1>2, <1>3, <1>6, <1>7, <1>8, <1>9 DEF IInv, PermissionType

\* A step that only shifts calls and answers, and leaves the device's decision, the
\* screen and the front as they are, keeps the decision on its way; so does one that
\* hides the application, has the dialog open, or answers a request.
LEMMA ShiftKeepsShown ==
  ASSUME PermissionType, ShownInv, UNCHANGED <<generation, loading>>,
         \/ visible' = FALSE \/ dialog' = TRUE
         \/ \E i \in DOMAIN answers' : isRequest(answers'[i].to)
         \/ /\ UNCHANGED <<device, visible, shown>> /\ (~dialog => ~dialog')
            /\ dialog => dialog'
            /\ error => error'
            /\ \A i \in DOMAIN answers : isRequest(answers[i].to) \/ current(answers[i].to) =>
                 \E k \in DOMAIN answers' : answers'[k] = answers[i]
            /\ \A i \in DOMAIN calls : current(calls[i]) =>
                 \E k \in DOMAIN calls' : calls'[k] = calls[i]
  PROVE  ShownInv'
BY DEF ShownInv, current, isRequest, good

LEMMA TellsRequest ==
  ASSUME PermissionType, NEW v \in {"done", "failed"}, tell(request, v)
  PROVE  /\ answers' \in Seq(Answers)
         /\ \E i \in DOMAIN answers' : isRequest(answers'[i].to)
         /\ \A i \in DOMAIN answers' : /\ i \in Nat
              /\ (answers'[i].to = request \/ (i \in DOMAIN answers /\ answers'[i] = answers[i]))
<1>1. request \in Calls /\ isRequest(request)
  BY DEF request, Calls, isRequest
<1>2. [to |-> request, value |-> v] \in Answers
  BY <1>1 DEF Answers
<1>3. answers \in Seq(Answers) /\ answers' = Append(answers, [to |-> request, value |-> v])
  BY DEF PermissionType, tell
<1> QED
  BY <1>1, <1>2, <1>3, AppendFacts

\* A request at the head of the calls: it is the only one, nobody was asked yet, and
\* the mark is set before the dialog opens.
LEMMA ServeRequestKeeps ==
  ASSUME IInv, ServeRequest
  PROVE  IInv'
<1>0. PermissionType /\ NewestInv /\ AskInv /\ ShownInv /\ device \in Devices
  BY DEF IInv, PermissionType
<1>1. /\ calls # <<>> /\ isRequest(Head(calls)) /\ calls' = Tail(calls)
      /\ UNCHANGED <<visible, generation, shown, loading, error>>
  BY DEF ServeRequest, served, hookVars, isRequest
<1>2. /\ calls' \in Seq(Calls) /\ 1 \in DOMAIN calls /\ isRequest(calls[1])
      /\ \A i \in DOMAIN calls' : i \in Nat \ {0} /\ i + 1 \in DOMAIN calls /\ calls'[i] = calls[i + 1]
  BY <1>0, <1>1, TailFacts DEF PermissionType
<1>3. CASE tell(request, "failed") /\ UNCHANGED <<device, dialog, dialogs>>
  <2>1. /\ answers' \in Seq(Answers)
        /\ \E i \in DOMAIN answers' : isRequest(answers'[i].to)
        /\ \A i \in DOMAIN answers' : /\ i \in Nat
             /\ (answers'[i].to = request \/ (i \in DOMAIN answers /\ answers'[i] = answers[i]))
    BY <1>0, <1>3, TellsRequest
  <2>2. Shifted(1, 0)
    BY <1>2, <2>1 DEF Shifted
  <2>3. NewestInv' /\ AskInv'
    BY <1>0, <1>1, <1>3, <2>2, ShiftKeeps
  <2>4. ShownInv'
    BY <1>0, <1>1, <2>1, ShiftKeepsShown
  <2> QED
    BY <1>0, <1>1, <1>2, <1>3, <2>1, <2>3, <2>4 DEF IInv, PermissionType
<1>4. CASE /\ device' = mark
           /\ IF device.granted THEN tell(request, "done") /\ UNCHANGED <<dialog, dialogs>>
              ELSE dialog' = TRUE /\ dialogs' = dialogs + 1 /\ UNCHANGED answers
  <2>1. device' \in Devices /\ device'.requested = TRUE
    BY <1>0, <1>4 DEF mark, Devices
  <2>2. /\ answers' \in Seq(Answers)
        /\ \A i \in DOMAIN answers' : /\ i \in Nat
             /\ (answers'[i].to = request \/ (i \in DOMAIN answers /\ answers'[i] = answers[i]))
        /\ dialog' = TRUE \/ \E i \in DOMAIN answers' : isRequest(answers'[i].to)
    <3>1. CASE device.granted
      BY <1>0, <1>4, <3>1, TellsRequest
    <3>2. CASE ~device.granted
      BY <1>0, <1>4, <3>2 DEF PermissionType
    <3> QED
      BY <3>1, <3>2
  <2>3. Shifted(1, 0)
    BY <1>2, <2>2 DEF Shifted
  <2>4. NewestInv'
    BY <1>0, <1>1, <2>3, ShiftKeeps
  <2>5. ~device.requested /\ dialogs = 0
    BY <1>0, <1>2 DEF AskInv
  <2>6. dialogs' <= 1 /\ dialogs' \in Nat /\ dialog' \in BOOLEAN
    <3>1. CASE device.granted
      BY <1>0, <1>4, <2>5, <3>1 DEF PermissionType
    <3>2. CASE ~device.granted
      BY <1>4, <2>5, <3>2
    <3> QED
      BY <3>1, <3>2
  <2>7. \A i \in DOMAIN calls' : ~isRequest(calls'[i])
    <3>1. ASSUME NEW i \in DOMAIN calls', isRequest(calls'[i])
          PROVE  i + 1 = 1 /\ i \in Nat \ {0}
      BY <1>0, <1>2, <3>1 DEF AskInv
    <3> QED
      BY <3>1
  <2>8. \A j \in DOMAIN answers' : ~asks(answers'[j])
    <3>1. \A j \in DOMAIN answers : ~asks(answers[j])
      BY <1>0, <1>2 DEF AskInv
    <3> QED
      BY <2>2, <3>1 DEF asks, current, request
  <2>9. AskInv'
    BY <1>1, <2>1, <2>6, <2>7, <2>8 DEF AskInv, asks, current
  <2>10. ShownInv'
    BY <1>0, <1>1, <2>2, ShiftKeepsShown
  <2> QED
    BY <1>0, <1>1, <1>2, <2>1, <2>2, <2>4, <2>6, <2>9, <2>10 DEF IInv, PermissionType
<1> QED
  BY <1>3, <1>4 DEF ServeRequest

\* The system's settings are opened, or that fails.
LEMMA ServeOpenKeeps ==
  ASSUME IInv, ServeOpen
  PROVE  IInv'
<1>0. PermissionType /\ NewestInv /\ AskInv /\ ShownInv
  BY DEF IInv
<1>1. /\ calls # <<>> /\ Head(calls).call = "open" /\ calls' = Tail(calls)
      /\ UNCHANGED <<device, dialog, dialogs, generation, shown, loading, error>>
  BY DEF ServeOpen, served, hookVars
<1>2. /\ calls' \in Seq(Calls) /\ 1 \in DOMAIN calls /\ calls[1].call = "open"
      /\ \A i \in DOMAIN calls' : i \in Nat \ {0} /\ i + 1 \in DOMAIN calls /\ calls'[i] = calls[i + 1]
      /\ \A i \in DOMAIN calls : i \in Nat /\ (i = 1 \/ (i - 1 \in DOMAIN calls' /\ calls'[i - 1] = calls[i]))
  BY <1>0, <1>1, TailFacts DEF PermissionType
<1>3. /\ answers' \in Seq(Answers) /\ visible' \in BOOLEAN
      /\ visible' = FALSE \/ visible' = visible
      /\ \A i \in DOMAIN answers' : /\ i \in Nat
           /\ (answers'[i].to = open \/ (i \in DOMAIN answers /\ answers'[i] = answers[i]))
      /\ \A i \in DOMAIN answers : i \in DOMAIN answers' /\ answers'[i] = answers[i]
  <2>1. CASE visible' = FALSE /\ UNCHANGED answers
    <3>1. \A i \in DOMAIN answers : i \in Nat
      BY <1>0 DEF PermissionType
    <3>2. visible' \in BOOLEAN /\ (visible' = FALSE \/ visible' = visible)
      BY <2>1
    <3>3. answers' = answers /\ answers' \in Seq(Answers)
      BY <1>0, <2>1 DEF PermissionType
    <3> QED
      BY <3>1, <3>2, <3>3
  <2>2. CASE tell(open, "failed") /\ UNCHANGED visible
    <3>1. open \in Calls
      BY DEF open, Calls
    <3>2. [to |-> open, value |-> "failed"] \in Answers
      BY <3>1 DEF Answers
    <3> QED
      BY <1>0, <2>2, <3>2, AppendFacts DEF PermissionType, tell
  <2> QED
    BY <2>1, <2>2 DEF ServeOpen
<1>4. Shifted(1, 0)
  BY <1>2, <1>3 DEF Shifted
<1>5. NewestInv' /\ AskInv'
  BY <1>0, <1>1, <1>4, ShiftKeeps
<1>6. ShownInv'
  <2>1. \A i \in DOMAIN calls : current(calls[i]) => \E k \in DOMAIN calls' : calls'[k] = calls[i]
    BY <1>2 DEF current
  <2> QED
    BY <1>0, <1>1, <1>3, <2>1, ShiftKeepsShown
<1> QED
  BY <1>0, <1>1, <1>2, <1>3, <1>5, <1>6 DEF IInv, PermissionType

\* What the hook makes of an answered read.
LEMMA HearStatusKeeps ==
  ASSUME IInv, HearStatus
  PROVE  IInv'
<1> DEFINE read == answers[1]
<1>0. PermissionType /\ NewestInv /\ AskInv /\ ShownInv
  BY DEF IInv
<1>1. /\ answers # <<>> /\ Head(answers).to.call = "status" /\ answers' = Tail(answers)
      /\ UNCHANGED <<device, visible, dialog, dialogs, generation>>
  BY DEF HearStatus, heard
<1>2. /\ answers' \in Seq(Answers) /\ 1 \in DOMAIN answers /\ Head(answers) = read /\ read \in Answers
      /\ \A i \in DOMAIN answers' : i \in Nat \ {0} /\ i + 1 \in DOMAIN answers /\ answers'[i] = answers[i + 1]
      /\ \A i \in DOMAIN answers : i \in Nat /\ (i = 1 \/ (i - 1 \in DOMAIN answers' /\ answers'[i - 1] = answers[i]))
  BY <1>0, <1>1, TailFacts DEF PermissionType
<1>3. read.to.call = "status"
  BY <1>1, <1>2
<1>4. CASE read.to.gen # generation
  <2>1. /\ UNCHANGED <<shown, calls>> /\ loading' = (loading /\ TRUE)
        /\ error' = (read.to.purpose = "failed outcome" \/ error)
    BY <1>2, <1>4 DEF HearStatus
  <2>2. loading' = loading /\ (error' = TRUE \/ error' = error)
    BY <1>0, <2>1 DEF PermissionType
  <2>3. ~current(read.to)
    BY <1>4 DEF current
  <2>4. Shifted(0, 1)
    <3>1. calls' = calls /\ calls \in Seq(Calls)
      BY <1>0, <2>1 DEF PermissionType
    <3>2. \A i \in DOMAIN calls' : i \in Nat /\ i + 0 = i /\ i \in DOMAIN calls /\ calls'[i] = calls[i]
      BY <3>1
    <3> QED
      BY <1>2, <3>2 DEF Shifted
  <2>5. NewestInv' /\ AskInv'
    BY <1>0, <1>1, <2>2, <2>4, ShiftKeeps
  <2>6. \A i \in DOMAIN answers : isRequest(answers[i].to) \/ current(answers[i].to) =>
          \E k \in DOMAIN answers' : answers'[k] = answers[i]
    BY <1>2, <1>3, <2>3 DEF isRequest
  <2>7. ShownInv'
    BY <1>0, <1>1, <2>1, <2>2, <2>6, ShiftKeepsShown
  <2> QED
    BY <1>0, <1>1, <1>2, <2>1, <2>2, <2>5, <2>7 DEF IInv, PermissionType
<1>5. CASE read.to.gen = generation
  <2>1. current(read.to)
    BY <1>3, <1>5 DEF current
  <2>2. /\ shown' = IF read.value # "failed" THEN read.value ELSE shown
        /\ loading' = FALSE
        /\ error' = TRUE \/ (error' = FALSE /\ read.value # "failed")
        /\ \/ UNCHANGED calls
           \/ asks(read) /\ calls' = Append(calls, request)
    <3>1. /\ shown' = IF TRUE /\ read.value # "failed" THEN read.value ELSE shown
          /\ loading' = (loading /\ ~TRUE)
          /\ error' = (read.to.purpose = "failed outcome" \/ ~(read.value # "failed"))
          /\ calls' = IF TRUE /\ read.to.purpose = "check" /\ read.value = "prompt"
                      THEN Append(calls, request) ELSE calls
      BY <1>2, <1>5 DEF HearStatus
    <3>2. error' = TRUE \/ (error' = FALSE /\ read.value # "failed")
      BY <3>1
    <3> QED
      BY <2>1, <3>1, <3>2 DEF asks
  <2> HIDE DEF read
  <2>3. \A i \in DOMAIN calls : ~current(calls[i])
    BY <1>0, <1>2, <2>1 DEF NewestInv, read
  <2>4. \A j \in DOMAIN answers' : ~current(answers'[j].to)
    <3>1. ASSUME NEW j \in DOMAIN answers', current(answers'[j].to)
          PROVE  j + 1 = 1 /\ j \in Nat \ {0}
      BY <1>0, <1>2, <2>1, <3>1 DEF NewestInv, read
    <3> QED
      BY <3>1
  <2>5. request \in Calls /\ ~current(request) /\ request.gen = 0
    BY DEF request, Calls, current
  <2>6. /\ calls' \in Seq(Calls)
        /\ \A i \in DOMAIN calls' : i \in Nat /\ (\/ i \in DOMAIN calls /\ calls'[i] = calls[i]
                                                  \/ asks(read) /\ i = Len(calls) + 1 /\ calls'[i] = request)
    BY <1>0, <2>2, <2>5, AppendFacts DEF PermissionType
  <2>7. NewestInv'
    <3>1. generation \in Nat
      BY <1>0 DEF PermissionType
    <3>2. \A i \in DOMAIN calls' : calls'[i].gen <= generation /\ ~current(calls'[i])
      BY <1>0, <2>3, <2>5, <2>6, <3>1 DEF NewestInv
    <3>3. \A j \in DOMAIN answers' : answers'[j].to.gen <= generation
      BY <1>0, <1>2 DEF NewestInv
    <3> QED
      BY <1>1, <2>4, <3>2, <3>3 DEF NewestInv, current
  <2>8. AskInv'
    <3>1. asks(read) => ~device.requested /\ \A i \in DOMAIN calls : ~isRequest(calls[i])
      BY <1>0, <1>2 DEF AskInv, read
    <3>2. \A i, j \in DOMAIN calls' : isRequest(calls'[i]) /\ isRequest(calls'[j]) => i = j
      BY <1>0, <2>6, <3>1 DEF AskInv
    <3>3. \A i \in DOMAIN calls' : ~current(calls'[i])
      BY <2>3, <2>5, <2>6
    <3>4. device.requested => \A i \in DOMAIN calls' : ~isRequest(calls'[i])
      BY <1>0, <2>6, <3>1 DEF AskInv
    <3>5. IF device.requested THEN dialogs <= 1 ELSE dialogs = 0
      BY <1>0 DEF AskInv
    <3> QED
      BY <1>1, <2>4, <3>2, <3>3, <3>4, <3>5 DEF AskInv, asks, current
  <2>9. ShownInv'
    <3>1. CASE ~visible \/ dialog
      BY <1>1, <3>1 DEF ShownInv
    <3>2. CASE \E i \in DOMAIN answers : isRequest(answers[i].to)
      <4>1. PICK i \in DOMAIN answers : isRequest(answers[i].to)
        BY <3>2
      <4>2. i # 1
        BY <1>3, <4>1 DEF isRequest, read
      <4>3. i - 1 \in DOMAIN answers' /\ isRequest(answers'[i - 1].to)
        BY <1>2, <4>1, <4>2
      <4> QED
        BY <4>3 DEF ShownInv
    <3>3. CASE \E i \in DOMAIN answers : current(answers[i].to) /\ good(answers[i].value)
      <4>1. good(read.value)
        BY <1>0, <1>2, <2>1, <3>3 DEF NewestInv, read
      <4>2. error' \/ shown' = permissionDecision(device)
        BY <2>2, <4>1 DEF good
      <4> QED
        BY <1>1, <2>2, <4>2 DEF ShownInv
    <3>4. loading
      BY <1>0, <1>2, <2>1 DEF NewestInv, read
    <3> QED
      BY <1>0, <2>3, <3>1, <3>2, <3>3, <3>4 DEF ShownInv
  <2> QED
    BY <1>0, <1>1, <1>2, <2>2, <2>6, <2>7, <2>8, <2>9 DEF IInv, PermissionType
<1> QED
  BY <1>4, <1>5

\* A request is answered: its outcome is read.
LEMMA HearRequestKeeps ==
  ASSUME IInv, HearRequest
  PROVE  IInv'
<1> DEFINE purpose == IF Head(answers).value = "failed" THEN "failed outcome" ELSE "outcome"
<1>0. PermissionType /\ NewestInv /\ AskInv
  BY DEF IInv
<1>1. /\ refresh(purpose) /\ answers # <<>> /\ answers' = Tail(answers)
      /\ UNCHANGED <<device, visible, dialog, dialogs>>
  BY DEF HearRequest, heard
<1>2. purpose \in Purposes
  BY DEF Purposes
<1> HIDE DEF purpose
<1>3. /\ calls' \in Seq(Calls) /\ answers' \in Seq(Answers) /\ generation' \in Nat
      /\ loading' = TRUE /\ UNCHANGED error /\ NewestInv' /\ AskInv' /\ ShownInv'
  BY <1>0, <1>1, <1>2, RefreshKeeps
<1> QED
  BY <1>0, <1>1, <1>3 DEF IInv, PermissionType

\* A failed attempt to open the settings is reported.
LEMMA HearOpenKeeps ==
  ASSUME IInv, HearOpen
  PROVE  IInv'
<1>0. PermissionType /\ NewestInv /\ AskInv /\ ShownInv
  BY DEF IInv
<1>1. /\ answers # <<>> /\ Head(answers).to.call = "open" /\ answers' = Tail(answers)
      /\ UNCHANGED <<device, visible, dialog, dialogs, calls, generation, shown, loading>>
      /\ error' = TRUE
  BY DEF HearOpen, heard
<1>2. /\ answers' \in Seq(Answers) /\ 1 \in DOMAIN answers /\ answers[1].to.call = "open"
      /\ \A i \in DOMAIN answers' : i \in Nat \ {0} /\ i + 1 \in DOMAIN answers /\ answers'[i] = answers[i + 1]
      /\ \A i \in DOMAIN answers : i \in Nat /\ (i = 1 \/ (i - 1 \in DOMAIN answers' /\ answers'[i - 1] = answers[i]))
  BY <1>0, <1>1, TailFacts DEF PermissionType
<1>3. Shifted(0, 1)
  <2>1. calls' = calls /\ calls \in Seq(Calls)
    BY <1>0, <1>1 DEF PermissionType
  <2>2. \A i \in DOMAIN calls' : i \in Nat /\ i + 0 = i /\ i \in DOMAIN calls /\ calls'[i] = calls[i]
    BY <2>1
  <2> QED
    BY <1>2, <2>2 DEF Shifted
<1>4. NewestInv' /\ AskInv'
  BY <1>0, <1>1, <1>3, ShiftKeeps
<1>5. ShownInv'
  <2>1. \A i \in DOMAIN answers : isRequest(answers[i].to) \/ current(answers[i].to) =>
          \E k \in DOMAIN answers' : answers'[k] = answers[i]
    BY <1>2 DEF isRequest, current
  <2> QED
    BY <1>0, <1>1, <2>1, ShiftKeepsShown
<1> QED
  BY <1>0, <1>1, <1>2, <1>4, <1>5 DEF IInv, PermissionType

\* The user answers the dialog: the request is told, whatever was chosen.
LEMMA DialogAnsweredKeeps ==
  ASSUME IInv, DialogAnswered
  PROVE  IInv'
<1>0. PermissionType /\ NewestInv /\ AskInv /\ ShownInv /\ device \in Devices
  BY DEF IInv, PermissionType
<1>1. dialog' = FALSE /\ UNCHANGED <<visible, dialogs, calls, generation, shown, loading, error>>
  BY DEF DialogAnswered, hookVars
<1>2. device' \in Devices /\ device'.requested = device.requested
  <2>1. PICK grant \in BOOLEAN : device' = [device EXCEPT !.granted = grant]
    BY DEF DialogAnswered
  <2> QED
    BY <1>0, <2>1 DEF Devices
<1>3. PICK v \in {"done", "failed"} : tell(request, v)
  BY DEF DialogAnswered
<1>4. /\ answers' \in Seq(Answers)
      /\ \E i \in DOMAIN answers' : isRequest(answers'[i].to)
      /\ \A i \in DOMAIN answers' : /\ i \in Nat
           /\ (answers'[i].to = request \/ (i \in DOMAIN answers /\ answers'[i] = answers[i]))
  BY <1>0, <1>3, TellsRequest
<1>5. Shifted(0, 0)
  <2>1. calls' = calls /\ calls \in Seq(Calls)
    BY <1>0, <1>1 DEF PermissionType
  <2>2. \A i \in DOMAIN calls' : i \in Nat /\ i + 0 = i /\ i \in DOMAIN calls /\ calls'[i] = calls[i]
    BY <2>1
  <2> QED
    BY <1>4, <2>2 DEF Shifted
<1>6. NewestInv' /\ AskInv'
  BY <1>0, <1>1, <1>2, <1>5, ShiftKeeps
<1>7. ShownInv'
  BY <1>0, <1>1, <1>4, ShiftKeepsShown
<1> QED
  BY <1>0, <1>1, <1>2, <1>4, <1>6, <1>7 DEF IInv, PermissionType

\* The settings are asked for: a call that neither reads nor asks.
LEMMA OpenSystemSettingsKeeps ==
  ASSUME IInv, OpenSystemSettings
  PROVE  IInv'
<1>0. PermissionType /\ NewestInv /\ AskInv /\ ShownInv
  BY DEF IInv
<1>1. /\ calls' = Append(calls, open)
      /\ UNCHANGED <<device, visible, dialog, dialogs, answers, generation, shown, loading, error>>
  BY DEF OpenSystemSettings, hookVars
<1>2. open \in Calls
  BY DEF open, Calls
<1>3. /\ calls' \in Seq(Calls)
      /\ \A i \in DOMAIN calls' : i \in Nat /\ (calls'[i] = open \/ (i \in DOMAIN calls /\ calls'[i] = calls[i]))
      /\ \A i \in DOMAIN calls : i \in DOMAIN calls' /\ calls'[i] = calls[i]
  BY <1>0, <1>1, <1>2, AppendFacts DEF PermissionType
<1>4. Shifted(0, 0)
  <2>1. answers' = answers /\ answers \in Seq(Answers)
    BY <1>0, <1>1 DEF PermissionType
  <2>2. \A i \in DOMAIN answers' : i \in Nat /\ i + 0 = i /\ i \in DOMAIN answers /\ answers'[i] = answers[i]
    BY <2>1
  <2> QED
    BY <1>3, <2>2 DEF Shifted
<1>5. NewestInv' /\ AskInv'
  BY <1>0, <1>1, <1>4, ShiftKeeps
<1>6. ShownInv'
  BY <1>0, <1>1, <1>3, ShiftKeepsShown
<1> QED
  BY <1>0, <1>1, <1>3, <1>5, <1>6 DEF IInv, PermissionType

\* The application is hidden, or the settings are changed while it is.
LEMMA HiddenKeeps ==
  ASSUME IInv, Hide \/ ChangeDevice
  PROVE  IInv'
<1>0. PermissionType /\ NewestInv /\ AskInv /\ ShownInv /\ device \in Devices
  BY DEF IInv, PermissionType
<1>1. visible' = FALSE /\ UNCHANGED <<dialog, dialogs, calls, answers, generation, shown, loading, error>>
  BY <1>0 DEF Hide, ChangeDevice, hookVars, PermissionType
<1>2. device' \in Devices /\ device'.requested = device.requested
  BY <1>0 DEF Hide, ChangeDevice, Devices
<1>3. NewestInv' /\ AskInv' /\ ShownInv'
  BY <1>0, <1>1, <1>2 DEF NewestInv, AskInv, ShownInv, current, asks
<1> QED
  BY <1>0, <1>1, <1>2, <1>3 DEF IInv, PermissionType

\* The application comes back, or the user asks for notifications.
LEMMA RefreshStepKeeps ==
  ASSUME IInv, NEW purpose \in Purposes, refresh(purpose), visible' \in BOOLEAN,
         UNCHANGED <<device, dialog, dialogs, answers>>
  PROVE  IInv'
<1>0. PermissionType /\ NewestInv /\ AskInv
  BY DEF IInv
<1>1. /\ calls' \in Seq(Calls) /\ answers' \in Seq(Answers) /\ generation' \in Nat
      /\ loading' = TRUE /\ UNCHANGED error /\ NewestInv' /\ AskInv' /\ ShownInv'
  BY <1>0, RefreshKeeps
<1> QED
  BY <1>0, <1>1 DEF IInv, PermissionType

\* A new web view: one read, and nothing of the earlier one.
LEMMA RecreateKeeps ==
  ASSUME IInv, RecreateShell
  PROVE  IInv'
<1>0. PermissionType /\ AskInv
  BY DEF IInv
<1>1. /\ calls' = <<status(1, "refresh")>> /\ answers' = <<>> /\ generation' = 1
      /\ loading' = TRUE /\ error' = FALSE /\ visible' = TRUE /\ dialog' = FALSE
      /\ UNCHANGED <<device, dialogs>>
  BY DEF RecreateShell, mounted
<1>2. IF device.requested THEN dialogs <= 1 ELSE dialogs = 0
  BY <1>0 DEF AskInv
<1>3. status(1, "refresh") \in Calls
  BY DEF status, Calls
<1>4. calls' \in Seq(Calls) /\ answers' \in Seq(Answers) /\ DOMAIN answers' = {}
  BY <1>1, <1>3
<1>5. DOMAIN calls' = {1} /\ calls'[1] = status(1, "refresh")
  BY <1>1
<1>6. calls'[1].call = "status" /\ calls'[1].gen = 1
  BY <1>5 DEF status
<1>7. NewestInv' /\ ShownInv' /\ AskInv'
  BY <1>1, <1>2, <1>4, <1>5, <1>6 DEF NewestInv, ShownInv, AskInv, current, isRequest
<1> QED
  BY <1>0, <1>1, <1>4, <1>7 DEF IInv, PermissionType

-----------------------------------------------------------------------------
LEMMA InitInv ==
  ASSUME Init
  PROVE  IInv
<1>1. /\ calls = <<status(1, "refresh")>> /\ answers = <<>> /\ generation = 1 /\ loading = TRUE
      /\ error = FALSE /\ visible = TRUE /\ dialog = FALSE /\ dialogs = 0
      /\ device \in Devices /\ device.requested = FALSE
  BY DEF Init, PermissionInit, Devices
<1>2. status(1, "refresh") \in Calls
  BY DEF status, Calls
<1>3. calls \in Seq(Calls) /\ answers \in Seq(Answers) /\ DOMAIN answers = {}
  BY <1>1, <1>2
<1>4. DOMAIN calls = {1} /\ calls[1].call = "status" /\ calls[1].gen = 1
  BY <1>1 DEF status
<1>5. NewestInv /\ ShownInv /\ AskInv
  BY <1>1, <1>3, <1>4 DEF NewestInv, ShownInv, AskInv, current, isRequest
<1> QED
  BY <1>1, <1>3, <1>5 DEF IInv, PermissionType

LEMMA UnchangedKeeps ==
  ASSUME IInv, UNCHANGED <<device, visible, dialog, dialogs, calls, answers, generation, shown, loading, error>>
  PROVE  IInv'
<1>1. PermissionType'
  BY DEF IInv, PermissionType
<1>2. NewestInv' /\ AskInv'
  BY DEF IInv, NewestInv, AskInv, current, asks
<1>3. ShownInv'
  BY DEF IInv, ShownInv, current, good
<1> QED
  BY <1>1, <1>2, <1>3 DEF IInv

LEMMA StepInv ==
  ASSUME IInv, [Next]_vars
  PROVE  IInv'
<1> USE DEF Purposes
<1>1. ASSUME NEW id \in Ids, TapInFront(id)
      PROVE  IInv'
  BY <1>1, UnchangedKeeps DEF TapInFront, hookVars
<1>2. ASSUME NEW id \in Ids, TapReturns(id)
      PROVE  IInv'
  BY <1>2, RefreshStepKeeps DEF TapReturns, shownAgain
<1>3. CASE Show
  BY <1>3, RefreshStepKeeps DEF Show, shownAgain
<1>4. CASE PermissionStep
  <2>1. ASSUME RequestIfPrompt
        PROVE  IInv'
    <3>1. visible' \in BOOLEAN
      BY <2>1 DEF RequestIfPrompt, IInv, PermissionType
    <3> QED
      BY <2>1, <3>1, RefreshStepKeeps DEF RequestIfPrompt
  <2> QED
    BY <1>4, <2>1, HiddenKeeps, OpenSystemSettingsKeeps, DialogAnsweredKeeps, ServeStatusKeeps,
       ServeRequestKeeps, ServeOpenKeeps, HearStatusKeeps, HearRequestKeeps, HearOpenKeeps
       DEF PermissionStep
<1>5. CASE RecreateShell
  BY <1>5, RecreateKeeps
<1>6. CASE UNCHANGED permissionVars
  BY <1>6, UnchangedKeeps DEF permissionVars, hookVars
<1> QED
  BY <1>1, <1>2, <1>3, <1>4, <1>5, <1>6 DEF Next, vars

THEOREM InductiveInvariant == Spec => []IInv
<1>1. Init => IInv
  BY InitInv
<1>2. IInv /\ [Next]_vars => IInv'
  BY StepInv
<1> QED
  BY <1>1, <1>2, PTL DEF Spec

\* The system's dialog is opened at most once: two switches may ask at the same time,
\* any read or write may fail, and the web view may be made anew in between.
THEOREM AskedOnlyOnce == Spec => []AskedOnce
<1>1. IInv => AskedOnce
  BY DEF IInv, AskInv, AskedOnce
<1> QED
  BY <1>1, InductiveInvariant, PTL

\* With every call answered, a screen in front shows the device's decision or an
\* error, in any order of dialogs, settings, answers and taps.
THEOREM ScreenShowsDevice == Spec => []ShownPermissionIsActual
<1>1. IInv => ShownPermissionIsActual
  BY DEF IInv, ShownInv, ShownPermissionIsActual
<1> QED
  BY <1>1, InductiveInvariant, PTL

-----------------------------------------------------------------------------
(* The taps.  Everything on the way names a tap that was made, so the types   *)
(* are over the taps so far.                                                 *)

PluginCalls(T) == [call : {"listen", "consume", "acknowledge", "unlisten"}, id : T \cup {NoId}]

Messages(T) == [is : {"event", "acknowledged", "rejected", "pending", "failed"}, ids : Seq(T)]

Entries(T) == [id : T, state : {"buffered", "delivered-awaiting-ack"}]

Pumps(T) == [at : {"idle", "acknowledge", "deliver"}, todo : Seq(T), pending : BOOLEAN]

isEvent(m, id) == m.is = "event" /\ m.ids[1] = id
isAnswer(m) == m.is \in {"acknowledged", "rejected"}
isOutcome(m) == m.is \in {"pending", "failed"}
isAcknowledge(c) == c.call = "acknowledge"

TapType ==
  /\ tapped \subseteq Ids /\ delivered \subseteq tapped
  /\ pending \in Seq(tapped) /\ retained \in Seq(tapped)
  /\ intent \in tapped \cup {NoId} /\ emitting \in tapped \cup {NoId}
  /\ toNative \in Seq(PluginCalls(tapped)) /\ toJs \in Seq(Messages(tapped))
  /\ \A j \in DOMAIN toJs : ~isOutcome(toJs[j]) => Len(toJs[j].ids) = 1
  /\ entries \in Seq(Entries(tapped)) /\ Len(entries) <= MAX_ACTIONS /\ installing \in Seq(tapped)
  /\ binding \in {"none", "installing", "bound", "failed"}
  /\ pump \in Pumps(tapped)

\* Of the native buffer nothing is forgotten but what was delivered or lost.
HeldInv ==
  /\ tapped \subseteq everDelivered \cup lost \cup ToSet(pending)
  /\ delivered \subseteq everDelivered

\* What the adapter and the bridge are doing in each state of the binding.
Asking == /\ entries = <<>> /\ pump.at = "idle" /\ delivered = {}
          /\ \/ toNative = <<call("listen", NoId), call("consume", NoId)>>
             \/ toNative = <<call("consume", NoId)>> /\ listening
             \/ toNative = <<>> /\ listening

BindingInv ==
  /\ binding = "none" =>
       /\ entries = <<>> /\ installing = <<>> /\ pump.at = "idle" /\ delivered = {}
       /\ toNative = <<>> /\ toJs = <<>> /\ ~listening
  /\ binding = "installing" => Asking
  /\ binding = "bound" =>
       /\ listening /\ installing = <<>>
       /\ \A i \in DOMAIN toNative : isAcknowledge(toNative[i])
  /\ binding = "failed" =>
       /\ pump.at = "idle"
       /\ \A i \in DOMAIN toNative : toNative[i].call = "unlisten"
  /\ \A j \in DOMAIN toJs : isOutcome(toJs[j]) => binding = "installing" /\ toNative = <<>>
  /\ \A j, k \in DOMAIN toJs : isOutcome(toJs[j]) /\ isOutcome(toJs[k]) => j = k

\* One acknowledgement at a time is on its way: that of the entry the pump is at,
\* which has been delivered.
PumpInv ==
  /\ pump.at = "idle" => pump.todo = <<>>
  /\ pump.at = "acknowledge" => ToSet(pump.todo) \subseteq delivered
  /\ \A i \in DOMAIN entries : entries[i].state = "delivered-awaiting-ack" => entries[i].id \in delivered
  /\ \A i \in DOMAIN toNative : isAcknowledge(toNative[i]) =>
       pump.todo # <<>> /\ toNative[i].id = pump.todo[1] /\ pump.todo[1] \in delivered
  /\ \A j \in DOMAIN toJs : isAnswer(toJs[j]) =>
       pump.todo # <<>> /\ toJs[j].ids[1] = pump.todo[1] /\ pump.todo[1] \in delivered
  /\ \A i, j \in DOMAIN toNative : isAcknowledge(toNative[i]) /\ isAcknowledge(toNative[j]) => i = j
  /\ \A i, j \in DOMAIN toJs : isAnswer(toJs[i]) /\ isAnswer(toJs[j]) => i = j
  /\ \A i \in DOMAIN toNative, j \in DOMAIN toJs : ~(isAcknowledge(toNative[i]) /\ isAnswer(toJs[j]))

\* A tap that has not been delivered is in an event, in the consumed list, queued
\* during installation, or an entry the pump will come to.
owed(id) == id \in tapped /\ id \notin everDelivered \cup lost
underWay(id) == emitting = id \/ \E j \in DOMAIN toJs : isEvent(toJs[j], id)
scheduled(id) ==
  \/ pump.at = "acknowledge"
  \/ pump.at = "deliver" /\ (pump.pending \/ id \in ToSet(pump.todo))

FoundInv ==
  /\ \A j \in DOMAIN toJs : toJs[j].is = "pending" =>
       \A id \in tapped : owed(id) => \/ underWay(id)
                                    \/ Contains(installing, id)
                                    \/ Contains(toJs[j].ids, id)
  /\ binding = "bound" =>
       \A id \in tapped : owed(id) => /\ underWay(id) \/ known(entries, id)
                                      /\ known(entries, id) => scheduled(id)

\* What was delivered and is not late: its entry awaits its acknowledgement, or no
\* event and no buffer holds it any more; the acknowledgement comes after the events.
settled(id) == id \in delivered /\ id \notin late

OnceInv ==
  /\ \A i, j \in DOMAIN entries : entries[i].id = entries[j].id => i = j
  /\ \A i, j \in DOMAIN pending : pending[i] = pending[j] => i = j
  /\ \A i \in DOMAIN entries : settled(entries[i].id) => entries[i].state # "buffered"
  /\ \A id \in tapped : settled(id) /\ ~known(entries, id) =>
       /\ ~Contains(pending, id)
       /\ \A j \in DOMAIN toJs : ~isEvent(toJs[j], id)
  /\ \A i, j \in DOMAIN toJs : \A id \in tapped :
       settled(id) /\ toJs[j].is = "acknowledged" /\ toJs[j].ids[1] = id =>
         ~Contains(pending, id) /\ (isEvent(toJs[i], id) => i < j)
  /\ pump.at = "deliver" =>
       /\ \A i, j \in DOMAIN pump.todo : pump.todo[i] = pump.todo[j] => i = j
       /\ \A i \in DOMAIN pump.todo : known(entries, pump.todo[i])
       /\ \A i \in DOMAIN pump.todo : settled(pump.todo[i]) =>
            i = 1 /\ \/ \E j \in DOMAIN toNative : isAcknowledge(toNative[j])
                     \/ \E j \in DOMAIN toJs : isAnswer(toJs[j])

TapInv == TapType /\ HeldInv /\ BindingInv /\ PumpInv /\ FoundInv /\ OnceInv

-----------------------------------------------------------------------------
LEMMA LeastPosition ==
  ASSUME NEW P \in SUBSET Nat, P # {}
  PROVE  \E i \in P : \A j \in P : i <= j
<1>1. OpToRel(<, Nat) = {ss \in Nat \X Nat : ss[1] < ss[2]}
  BY DEF OpToRel
<1>2. IsWellFoundedOn({ss \in Nat \X Nat : ss[1] < ss[2]}, Nat)
  BY NatLessThanWellFounded, <1>1
<1>3. PICK i \in P : \A j \in P : <<j, i>> \notin {ss \in Nat \X Nat : ss[1] < ss[2]}
  BY <1>2, WFMin
<1>4. \A j \in P : ~(j < i)
  <2> SUFFICES ASSUME NEW j \in P, j < i PROVE FALSE
    OBVIOUS
  <2>1. <<j, i>> \in Nat \X Nat /\ <<j, i>>[1] < <<j, i>>[2]
    OBVIOUS
  <2> QED
    BY <1>3, <2>1
<1> QED
  BY <1>4

\* Counting the positions up to each one numbers them from 1.
LEMMA RankFacts ==
  ASSUME NEW n \in Nat, NEW P \in SUBSET (1..n)
  PROVE  /\ Cardinality(P) \in Nat /\ Cardinality(P) <= n
         /\ \A i \in P : rank(P, i) \in 1..Cardinality(P)
         /\ \A i, j \in P : i < j => rank(P, i) < rank(P, j)
         /\ \A k \in 1..Cardinality(P) : \E i \in P : rank(P, i) = k
<1> DEFINE upTo(i) == {j \in P : j <= i}
<1>0. IsFiniteSet(1..n) /\ Cardinality(1..n) = n
  BY FS_Interval
<1>1. IsFiniteSet(P) /\ Cardinality(P) \in Nat /\ Cardinality(P) <= n
  BY <1>0, FS_Subset, FS_CardinalityType
<1>2. ASSUME NEW i \in P
      PROVE  rank(P, i) \in 1..Cardinality(P)
  <2>1. upTo(i) \in SUBSET P /\ i \in upTo(i)
    OBVIOUS
  <2>2. IsFiniteSet(upTo(i)) /\ Cardinality(upTo(i)) <= Cardinality(P)
    BY <1>1, <2>1, FS_Subset
  <2>3. Cardinality(upTo(i)) \in Nat /\ Cardinality(upTo(i)) # 0
    BY <2>1, <2>2, FS_CardinalityType, FS_EmptySet
  <2> QED
    BY <1>1, <2>2, <2>3 DEF rank
<1>3. ASSUME NEW i \in P, NEW j \in P, i < j
      PROVE  rank(P, i) < rank(P, j)
  <2>0. \A k \in P : k \in Int
    OBVIOUS
  <2>1. upTo(i) \in SUBSET upTo(j) /\ upTo(j) \in SUBSET P
    <3>1. \A k \in P : k <= i => k <= j
      BY <1>3, <2>0
    <3> QED
      BY <3>1
  <2>2. j \in upTo(j) /\ j \notin upTo(i)
    BY <1>3, <2>0
  <2>3. IsFiniteSet(upTo(j))
    BY <1>1, <2>1, FS_Subset
  <2>4. /\ Cardinality(upTo(i)) <= Cardinality(upTo(j))
        /\ Cardinality(upTo(i)) # Cardinality(upTo(j))
    BY <2>1, <2>2, <2>3, FS_Subset
  <2>5. Cardinality(upTo(i)) \in Nat /\ Cardinality(upTo(j)) \in Nat
    BY <2>1, <2>3, FS_Subset, FS_CardinalityType
  <2> QED
    BY <2>4, <2>5 DEF rank
<1>4. ASSUME NEW k \in 1..Cardinality(P)
      PROVE  \E i \in P : rank(P, i) = k
  <2> DEFINE f == [i \in P |-> rank(P, i)]
  <2>1. f \in [P -> 1..Cardinality(P)]
    BY <1>2
  <2>2. \A i, j \in P : f[i] = f[j] => i = j
    <3>1. \A i, j \in P : i # j => i < j \/ j < i
      OBVIOUS
    <3>2. \A i \in P : rank(P, i) \in Int
      BY <1>1, <1>2
    <3> HIDE DEF f
    <3>3. \A i \in P : f[i] = rank(P, i)
      BY DEF f
    <3> QED
      BY <1>3, <3>1, <3>2, <3>3
  <2> HIDE DEF f
  <2>3. f \in Injection(P, 1..Cardinality(P))
    BY <2>1, <2>2 DEF Injection, IsInjective
  <2>4. IsFiniteSet(1..Cardinality(P)) /\ Cardinality(1..Cardinality(P)) = Cardinality(P)
    BY <1>1, FS_Interval
  <2>5. f \in Surjection(P, 1..Cardinality(P))
    BY <2>3, <2>4, FS_Injection
  <2> QED
    BY <2>5 DEF Surjection, f
<1> QED
  BY <1>1, <1>2, <1>3, <1>4

\* only(s, P) has each of the elements at P once, from a place of its own.
LEMMA OnlyFacts ==
  ASSUME NEW S, NEW s \in Seq(S), NEW P \in SUBSET DOMAIN s
  PROVE  /\ only(s, P) \in Seq(S) /\ Len(only(s, P)) <= Len(s)
         /\ \E f :
              /\ \A k \in DOMAIN only(s, P) : f[k] \in P /\ only(s, P)[k] = s[f[k]]
              /\ \A k, l \in DOMAIN only(s, P) : f[k] = f[l] => k = l
              /\ \A i \in P : \E k \in DOMAIN only(s, P) : f[k] = i
<1> DEFINE n == Cardinality(P)
           f == [k \in 1..n |-> CHOOSE i \in P : rank(P, i) = k]
<1>0. Len(s) \in Nat /\ DOMAIN s = 1..Len(s)
  OBVIOUS
<1>1. /\ n \in Nat /\ n <= Len(s)
      /\ \A i \in P : rank(P, i) \in 1..n
      /\ \A i, j \in P : i < j => rank(P, i) < rank(P, j)
      /\ \A k \in 1..n : \E i \in P : rank(P, i) = k
  BY <1>0, RankFacts
<1>2. \A k \in 1..n : f[k] \in P /\ rank(P, f[k]) = k
  BY <1>1
<1>3. \A k \in 1..n : f[k] \in P
  BY <1>2
<1> HIDE DEF f
<1>4. \A i \in P : \E k \in 1..n : f[k] = i
  <2> SUFFICES ASSUME NEW i \in P PROVE \E k \in 1..n : f[k] = i
    OBVIOUS
  <2>1. rank(P, i) \in 1..n
    BY <1>1
  <2>2. f[rank(P, i)] \in P /\ rank(P, f[rank(P, i)]) = rank(P, i)
    BY <1>2, <2>1
  <2>3. \A a, b \in P : rank(P, a) = rank(P, b) => a = b
    <3>1. \A a, b \in P : a # b => a < b \/ b < a
      BY <1>0
    <3> QED
      BY <1>1, <3>1
  <2> QED
    BY <2>1, <2>2, <2>3
<1>5. only(s, P) = [k \in 1..n |-> s[f[k]]]
  BY DEF only, f
<1>6. only(s, P) \in Seq(S) /\ Len(only(s, P)) = n /\ DOMAIN only(s, P) = 1..n
  BY <1>1, <1>2, <1>5
<1>7. \A k \in 1..n : only(s, P)[k] = s[f[k]]
  BY <1>5
<1>8. \A k, l \in 1..n : f[k] = f[l] => k = l
  BY <1>2
<1>9. Len(only(s, P)) <= Len(s)
  BY <1>1, <1>6
<1> DEFINE D == DOMAIN only(s, P)
<1>10. /\ \A k \in D : f[k] \in P /\ only(s, P)[k] = s[f[k]]
       /\ \A k, l \in D : f[k] = f[l] => k = l
       /\ \A i \in P : \E k \in D : f[k] = i
  BY <1>3, <1>4, <1>6, <1>7, <1>8
<1> QED
  BY <1>6, <1>9, <1>10

\* enqueue() keeps what is there, adds each new action once, buffered, and leaves
\* some out only when it is full.
LEMMA EnqueueFacts ==
  ASSUME NEW T, NEW es \in Seq(Entries(T)), NEW new \in Seq(T), Len(es) <= MAX_ACTIONS,
         \A i, j \in DOMAIN es : es[i].id = es[j].id => i = j
  PROVE  LET g == enqueue(es, new) IN
         /\ g \in Seq(Entries(T)) /\ Len(g) <= MAX_ACTIONS
         /\ \A i \in DOMAIN es : i \in DOMAIN g /\ g[i] = es[i]
         /\ \A i \in DOMAIN g : \/ i \in DOMAIN es /\ g[i] = es[i]
                                \/ /\ g[i].state = "buffered" /\ ~known(es, g[i].id)
                                   /\ \E k \in DOMAIN new : new[k] = g[i].id
         /\ \A i, j \in DOMAIN g : g[i].id = g[j].id => i = j
         /\ Len(g) < MAX_ACTIONS => \A k \in DOMAIN new : known(g, new[k])
<1> DEFINE P == {i \in DOMAIN new : ~known(es, new[i]) /\ \A j \in 1..(i - 1) : new[j] # new[i]}
           fresh == only(new, P)
           added == [k \in DOMAIN fresh |-> [id |-> fresh[k], state |-> "buffered"]]
           grown == es \o added
           g == enqueue(es, new)
<1>0. MAX_ACTIONS \in Nat /\ MAX_ACTIONS # 0 /\ Len(es) \in Nat
  BY ActionsAssumption
<1>1. P \in SUBSET DOMAIN new
  OBVIOUS
<1>3. g = IF Len(grown) > MAX_ACTIONS THEN SubSeq(grown, 1, MAX_ACTIONS) ELSE grown
  BY DEF enqueue
<1>4. \A i, j \in P : new[i] = new[j] => i = j
  <2> SUFFICES ASSUME NEW i \in P, NEW j \in P, new[i] = new[j], i < j PROVE FALSE
    BY <1>1
  <2>1. i \in 1..(j - 1)
    OBVIOUS
  <2> QED
    BY <2>1
<1>5. \A k \in DOMAIN new : known(es, new[k]) \/ \E i \in P : new[i] = new[k]
  <2> SUFFICES ASSUME NEW k \in DOMAIN new, ~known(es, new[k]) PROVE \E i \in P : new[i] = new[k]
    OBVIOUS
  <2> DEFINE Q == {i \in DOMAIN new : new[i] = new[k]}
  <2>1. Q \in SUBSET Nat /\ Q # {}
    OBVIOUS
  <2>2. PICK i \in Q : \A j \in Q : i <= j
    BY <2>1, LeastPosition
  <2>3. \A j \in 1..(i - 1) : j \in DOMAIN new /\ ~(i <= j)
    BY <2>2
  <2>4. \A j \in 1..(i - 1) : new[j] # new[i]
    BY <2>2, <2>3
  <2> QED
    BY <2>2, <2>4
<1>6. \A i \in P : i \in DOMAIN new /\ ~known(es, new[i])
  OBVIOUS
<1> HIDE DEF P
<1>2. /\ fresh \in Seq(T)
      /\ \E f : /\ \A k \in DOMAIN fresh : f[k] \in P /\ fresh[k] = new[f[k]]
                /\ \A k, l \in DOMAIN fresh : f[k] = f[l] => k = l
                /\ \A i \in P : \E k \in DOMAIN fresh : f[k] = i
  BY <1>1, OnlyFacts
<1> HIDE DEF fresh
<1>2a. Len(fresh) \in Nat /\ DOMAIN fresh = 1..Len(fresh) /\ \A k \in 1..Len(fresh) : fresh[k] \in T
  BY <1>2
<1>2b. \A k \in 1..Len(fresh) : [id |-> fresh[k], state |-> "buffered"] \in Entries(T)
  BY <1>2a DEF Entries
<1>2c. added \in [1..Len(fresh) -> Entries(T)]
  BY <1>2a, <1>2b
<1>7. /\ added \in Seq(Entries(T)) /\ DOMAIN added = DOMAIN fresh
      /\ \A k \in DOMAIN fresh : added[k].id = fresh[k] /\ added[k].state = "buffered"
  BY <1>2a, <1>2c
<1> HIDE DEF added
<1>8. \A k \in DOMAIN added : /\ added[k].state = "buffered" /\ ~known(es, added[k].id)
                              /\ \E i \in DOMAIN new : new[i] = added[k].id
  BY <1>2, <1>6, <1>7
<1>9. \A k, l \in DOMAIN added : added[k].id = added[l].id => k = l
  BY <1>2, <1>4, <1>7
<1>10. \A k \in DOMAIN new : known(es, new[k]) \/ \E i \in DOMAIN added : added[i].id = new[k]
  BY <1>2, <1>5, <1>7
<1>11. /\ grown \in Seq(Entries(T)) /\ Len(grown) = Len(es) + Len(added) /\ Len(added) \in Nat
       /\ \A i \in 1..Len(es) : i \in DOMAIN grown /\ grown[i] = es[i]
       /\ \A i \in DOMAIN grown : \/ i \in DOMAIN es /\ grown[i] = es[i]
                                  \/ i - Len(es) \in DOMAIN added /\ grown[i] = added[i - Len(es)]
       /\ \A k \in DOMAIN added : k + Len(es) \in DOMAIN grown /\ grown[k + Len(es)] = added[k]
  BY <1>7
<1> HIDE DEF grown
<1>12. \A i, j \in DOMAIN grown : grown[i].id = grown[j].id => i = j
  <2> SUFFICES ASSUME NEW i \in DOMAIN grown, NEW j \in DOMAIN grown, grown[i].id = grown[j].id
               PROVE  i = j
    OBVIOUS
  <2>0. i \in Int /\ j \in Int
    BY <1>11
  <2>1. CASE i \in DOMAIN es /\ grown[i] = es[i] /\ j \in DOMAIN es /\ grown[j] = es[j]
    BY <2>1
  <2>2. CASE i \in DOMAIN es /\ grown[i] = es[i]
             /\ j - Len(es) \in DOMAIN added /\ grown[j] = added[j - Len(es)]
    BY <2>2, <1>8 DEF known
  <2>3. CASE j \in DOMAIN es /\ grown[j] = es[j]
             /\ i - Len(es) \in DOMAIN added /\ grown[i] = added[i - Len(es)]
    BY <2>3, <1>8 DEF known
  <2>4. CASE /\ i - Len(es) \in DOMAIN added /\ grown[i] = added[i - Len(es)]
             /\ j - Len(es) \in DOMAIN added /\ grown[j] = added[j - Len(es)]
    BY <2>0, <2>4, <1>0, <1>9
  <2> QED
    BY <1>11, <2>1, <2>2, <2>3, <2>4
<1>13. /\ g \in Seq(Entries(T)) /\ Len(g) <= MAX_ACTIONS
       /\ \A i \in DOMAIN g : i \in DOMAIN grown /\ g[i] = grown[i]
       /\ \A i \in DOMAIN es : i \in DOMAIN g
       /\ Len(g) < MAX_ACTIONS => g = grown
  BY <1>0, <1>3, <1>11
<1> HIDE DEF g
<1>14. \A i \in DOMAIN es : i \in DOMAIN g /\ g[i] = es[i]
  BY <1>11, <1>13
<1>15. \A i \in DOMAIN g : \/ i \in DOMAIN es /\ g[i] = es[i]
                           \/ /\ g[i].state = "buffered" /\ ~known(es, g[i].id)
                              /\ \E k \in DOMAIN new : new[k] = g[i].id
  BY <1>8, <1>11, <1>13
<1>16. Len(g) < MAX_ACTIONS => \A k \in DOMAIN new : known(g, new[k])
  <2> SUFFICES ASSUME Len(g) < MAX_ACTIONS, NEW k \in DOMAIN new PROVE known(g, new[k])
    OBVIOUS
  <2>1. CASE known(es, new[k])
    BY <2>1, <1>14 DEF known
  <2>2. ASSUME NEW i \in DOMAIN added, added[i].id = new[k] PROVE known(g, new[k])
    BY <2>2, <1>11, <1>13 DEF known
  <2> QED
    BY <1>10, <2>1, <2>2
<1>17. \A i, j \in DOMAIN g : g[i].id = g[j].id => i = j
  BY <1>12, <1>13
<1> QED
  BY <1>13, <1>14, <1>15, <1>16, <1>17 DEF g

-----------------------------------------------------------------------------
LEMMA ContainsIsIn ==
  ASSUME NEW S, NEW s \in Seq(S), NEW e
  PROVE  (Contains(s, e) <=> e \in ToSet(s)) /\ (Contains(s, e) <=> \E i \in DOMAIN s : s[i] = e)
BY DEF Contains, ToSet

LEMMA SeqGrows ==
  ASSUME NEW S, NEW T, S \subseteq T
  PROVE  Seq(S) \subseteq Seq(T)
OBVIOUS

\* A tap more does not disturb the types.
LEMMA TypesGrow ==
  ASSUME NEW S, NEW T, S \subseteq T
  PROVE  /\ Seq(S) \subseteq Seq(T)
         /\ Seq(PluginCalls(S)) \subseteq Seq(PluginCalls(T))
         /\ Seq(Messages(S)) \subseteq Seq(Messages(T))
         /\ Seq(Entries(S)) \subseteq Seq(Entries(T))
         /\ Pumps(S) \subseteq Pumps(T)
<1>1. Seq(S) \subseteq Seq(T)
  BY SeqGrows
<1>2. PluginCalls(S) \subseteq PluginCalls(T)
  BY DEF PluginCalls
<1>3. Messages(S) \subseteq Messages(T)
  BY <1>1 DEF Messages
<1>4. Entries(S) \subseteq Entries(T)
  BY DEF Entries
<1>5. Pumps(S) \subseteq Pumps(T)
  BY <1>1 DEF Pumps
<1> QED
  BY <1>1, <1>2, <1>3, <1>4, <1>5, SeqGrows

\* accept() forgets at most the oldest, and then it is not the new one.
LEMMA AcceptFacts ==
  ASSUME NEW T, NEW buffer \in Seq(T), NEW id \in T,
         \A i, j \in DOMAIN buffer : buffer[i] = buffer[j] => i = j
  PROVE  LET b == accept(buffer, id) IN
         /\ b \in Seq(T)
         /\ \A i, j \in DOMAIN b : b[i] = b[j] => i = j
         /\ \A x : Contains(b, x) => Contains(buffer, x) \/ x = id
         /\ ToSet(buffer) \cup {id} \subseteq ToSet(b) \cup (ToSet(buffer) \ ToSet(b))
<1> DEFINE grown == IF Contains(buffer, id) THEN buffer ELSE Append(buffer, id)
           b == accept(buffer, id)
<1>0. MAX_ACTIONS \in Nat /\ MAX_ACTIONS # 0 /\ Len(buffer) \in Nat
  BY ActionsAssumption
<1>1. b = IF Len(grown) > MAX_ACTIONS THEN Tail(grown) ELSE grown
  BY DEF accept
<1>2. /\ grown \in Seq(T)
      /\ \A i, j \in DOMAIN grown : grown[i] = grown[j] => i = j
      /\ \A x : (\E i \in DOMAIN grown : grown[i] = x) => Contains(buffer, x) \/ x = id
      /\ Contains(buffer, id) \/ grown = Append(buffer, id)
  <2>1. CASE Contains(buffer, id)
    BY <2>1 DEF Contains
  <2>2. CASE ~Contains(buffer, id)
    BY <2>2 DEF Contains
  <2> QED
    BY <2>1, <2>2
<1> HIDE DEF grown, b
<1>3. /\ b \in Seq(T)
      /\ \A i \in DOMAIN b : \E j \in DOMAIN grown : grown[j] = b[i]
      /\ \A i, j \in DOMAIN b : b[i] = b[j] => i = j
  <2>1. CASE b = grown
    BY <1>2, <2>1
  <2>2. CASE b = Tail(grown) /\ Len(grown) > MAX_ACTIONS
    <3>1. grown # <<>>
      BY <1>0, <1>2, <2>2
    <3> QED
      BY <1>2, <2>2, <3>1, TailFacts
  <2> QED
    BY <1>1, <2>1, <2>2
<1>4. id \in ToSet(buffer) \/ id \in ToSet(b)
  <2> SUFFICES ASSUME ~Contains(buffer, id) PROVE id \in ToSet(b)
    BY ContainsIsIn
  <2>1. grown = Append(buffer, id)
    BY <1>2
  <2>2. Len(grown) = Len(buffer) + 1 /\ grown[Len(buffer) + 1] = id
    BY <2>1
  <2>3. CASE b = grown
    BY <1>0, <1>2, <2>2, <2>3 DEF ToSet
  <2>4. CASE b = Tail(grown) /\ Len(grown) > MAX_ACTIONS
    <3>1. Len(buffer) \in DOMAIN b /\ b[Len(buffer)] = id
      BY <1>0, <1>2, <2>2, <2>4
    <3> QED
      BY <3>1 DEF ToSet
  <2> QED
    BY <1>1, <2>3, <2>4
<1> QED
  BY <1>2, <1>3, <1>4, ContainsIsIn DEF b

LEMMA ElementTypes ==
  ASSUME TapType
  PROVE  /\ \A i \in DOMAIN entries : entries[i].id \in tapped
         /\ \A j \in DOMAIN toJs : toJs[j].ids \in Seq(tapped)
         /\ \A i \in DOMAIN pump.todo : pump.todo[i] \in tapped
         /\ pump.todo \in Seq(tapped)
<1>1. entries \in Seq(Entries(tapped)) /\ toJs \in Seq(Messages(tapped)) /\ pump \in Pumps(tapped)
  BY DEF TapType
<1>2. \A i \in DOMAIN entries : entries[i] \in Entries(tapped)
  BY <1>1
<1>3. \A j \in DOMAIN toJs : toJs[j] \in Messages(tapped)
  BY <1>1
<1>4. pump.todo \in Seq(tapped)
  BY <1>1 DEF Pumps
<1> QED
  BY <1>2, <1>3, <1>4 DEF Entries, Messages

-----------------------------------------------------------------------------
(* The native side keeps the invariant. *)

LEMMA TapKeeps ==
  ASSUME TapInv, NEW id \in Ids, Tap(id)
  PROVE  TapInv'
<1>0. TapType /\ HeldInv /\ BindingInv /\ PumpInv /\ FoundInv /\ OnceInv
  BY DEF TapInv
<1>1. /\ id \notin tapped /\ emitting = NoId
      /\ pending' = accept(pending, id)
      /\ emitting' = IF Contains(pending, id) THEN NoId ELSE id
      /\ lost' = lost \cup (ToSet(pending) \ ToSet(pending'))
      /\ intent' = id /\ tapped' = tapped \cup {id}
      /\ UNCHANGED <<retained, listening, toNative, toJs, entries, installing, binding, pump>>
      /\ UNCHANGED <<delivered, everDelivered, late>>
  BY DEF Tap, capture, bridgeVars, adapterVars
<1>2. /\ pending \in Seq(tapped') /\ tapped \subseteq tapped' /\ tapped' \subseteq Ids /\ id \in tapped'
      /\ \A i, j \in DOMAIN pending : pending[i] = pending[j] => i = j
  BY <1>0, <1>1, TypesGrow DEF TapType, OnceInv
<1>3. /\ pending' \in Seq(tapped')
      /\ \A i, j \in DOMAIN pending' : pending'[i] = pending'[j] => i = j
      /\ \A x : Contains(pending', x) => Contains(pending, x) \/ x = id
      /\ ToSet(pending) \cup {id} \subseteq ToSet(pending') \cup (ToSet(pending) \ ToSet(pending'))
  BY <1>1, <1>2, AcceptFacts
<1>4. ~Contains(pending, id)
  BY <1>0, <1>1, ContainsIsIn DEF TapType
<1>5. TapType'
  <2>1. /\ retained' \in Seq(tapped') /\ toNative' \in Seq(PluginCalls(tapped'))
        /\ toJs' \in Seq(Messages(tapped')) /\ entries' \in Seq(Entries(tapped'))
        /\ installing' \in Seq(tapped') /\ pump' \in Pumps(tapped')
    <3>1. /\ Seq(tapped) \subseteq Seq(tapped')
          /\ Seq(PluginCalls(tapped)) \subseteq Seq(PluginCalls(tapped'))
          /\ Seq(Messages(tapped)) \subseteq Seq(Messages(tapped'))
          /\ Seq(Entries(tapped)) \subseteq Seq(Entries(tapped'))
          /\ Pumps(tapped) \subseteq Pumps(tapped')
      BY <1>2, TypesGrow
    <3>2. /\ retained \in Seq(tapped) /\ toNative \in Seq(PluginCalls(tapped))
          /\ toJs \in Seq(Messages(tapped)) /\ entries \in Seq(Entries(tapped))
          /\ installing \in Seq(tapped) /\ pump \in Pumps(tapped)
      BY <1>0 DEF TapType
    <3> QED
      BY <1>1, <3>1, <3>2
  <2>2. intent' \in tapped' \cup {NoId} /\ emitting' \in tapped' \cup {NoId} /\ delivered' \subseteq tapped'
    BY <1>0, <1>1, <1>2 DEF TapType
  <2>3. /\ \A j \in DOMAIN toJs' : ~isOutcome(toJs'[j]) => Len(toJs'[j].ids) = 1
        /\ Len(entries') <= MAX_ACTIONS /\ binding' \in {"none", "installing", "bound", "failed"}
    BY <1>0, <1>1 DEF TapType
  <2> QED
    BY <1>2, <1>3, <2>1, <2>2, <2>3 DEF TapType
<1>6. HeldInv'
  BY <1>0, <1>1, <1>3 DEF HeldInv
<1>7. BindingInv' /\ PumpInv'
  BY <1>0, <1>1 DEF BindingInv, Asking, PumpInv
<1>8. \A x \in tapped' : owed(x)' => x = id \/ (x \in tapped /\ owed(x) /\ (underWay(x) => underWay(x)'))
  BY <1>0, <1>1, <1>2, ActionsAssumption DEF owed, underWay, TapType, NoId
<1>9. underWay(id)'
  BY <1>1, <1>4 DEF underWay
<1>10. FoundInv'
  <2>1. ~known(entries, id)
    BY <1>0, <1>1, ElementTypes DEF known
  <2> QED
    BY <1>0, <1>1, <1>8, <1>9, <2>1 DEF FoundInv, scheduled, known
<1>11. \A x \in tapped' : settled(x)' => x \in tapped /\ settled(x) /\ x # id
  BY <1>0, <1>1 DEF settled, TapType
<1>12. OnceInv'
  BY <1>0, <1>1, <1>3, <1>11 DEF OnceInv, known, settled, TapType
<1> QED
  BY <1>5, <1>6, <1>7, <1>10, <1>12 DEF TapInv

LEMMA RecreateKeepsTaps ==
  ASSUME TapInv, Recreate
  PROVE  TapInv'
<1>0. TapType /\ HeldInv /\ OnceInv
  BY DEF TapInv
<1>1. /\ listening' = FALSE /\ toNative' = <<>> /\ toJs' = <<>> /\ entries' = <<>> /\ installing' = <<>>
      /\ binding' = "none" /\ pump' = idle /\ delivered' = {}
      /\ retained' = pending
      /\ UNCHANGED <<intent, tapped, everDelivered, late>>
  BY DEF Recreate, freshWebView
<1>2. /\ pending' \in Seq(tapped) /\ emitting' \in tapped \cup {NoId}
      /\ \A i, j \in DOMAIN pending' : pending'[i] = pending'[j] => i = j
      /\ ToSet(pending) \subseteq ToSet(pending') \cup lost'
      /\ lost \subseteq lost'
  <2>1. CASE intent = NoId
    BY <1>0, <2>1 DEF Recreate, TapType, OnceInv
  <2>2. CASE intent # NoId
    <3>1. /\ intent \in tapped
          /\ pending' = accept(pending, intent)
          /\ emitting' = IF Contains(pending, intent) THEN NoId ELSE intent
          /\ lost' = lost \cup (ToSet(pending) \ ToSet(pending'))
      BY <1>0, <2>2 DEF Recreate, capture, TapType
    <3>2. pending' \in Seq(tapped) /\ \A i, j \in DOMAIN pending' : pending'[i] = pending'[j] => i = j
      BY <1>0, <3>1, AcceptFacts DEF TapType, OnceInv
    <3> QED
      BY <3>1, <3>2
  <2> QED
    BY <2>1, <2>2
<1>3. idle \in Pumps(tapped) /\ idle.at = "idle" /\ idle.todo = <<>>
  BY DEF idle, Pumps
<1>4. TapType'
  BY <1>0, <1>1, <1>2, <1>3, ActionsAssumption DEF TapType
<1>5. HeldInv'
  BY <1>0, <1>1, <1>2 DEF HeldInv
<1>6. BindingInv' /\ PumpInv' /\ FoundInv' /\ OnceInv'
  BY <1>1, <1>2, <1>3 DEF BindingInv, PumpInv, FoundInv, OnceInv, settled
<1> QED
  BY <1>4, <1>5, <1>6 DEF TapInv

\* What a message more at the end of the bridge leaves as it was.
LEMMA MessageFacts ==
  ASSUME TapType, NEW m \in Messages(tapped), toJs' = Append(toJs, m)
  PROVE  /\ toJs' \in Seq(Messages(tapped)) /\ Len(toJs) \in Nat
         /\ Len(toJs) + 1 \in DOMAIN toJs' /\ toJs'[Len(toJs) + 1] = m
         /\ \A j \in DOMAIN toJs : j \in Nat /\ j < Len(toJs) + 1 /\ j \in DOMAIN toJs' /\ toJs'[j] = toJs[j]
         /\ \A j \in DOMAIN toJs' : \/ j \in DOMAIN toJs /\ toJs'[j] = toJs[j]
                                    \/ j = Len(toJs) + 1 /\ toJs'[j] = m
<1>1. toJs \in Seq(Messages(tapped))
  BY DEF TapType
<1> DEFINE M == Messages(tapped)
<1> HIDE DEF M
<1>2. toJs \in Seq(M) /\ m \in M
  BY <1>1 DEF M
<1>3. /\ toJs' \in Seq(M) /\ Len(toJs) \in Nat
      /\ Len(toJs) + 1 \in DOMAIN toJs' /\ toJs'[Len(toJs) + 1] = m
      /\ \A j \in DOMAIN toJs : j \in Nat /\ j < Len(toJs) + 1 /\ j \in DOMAIN toJs' /\ toJs'[j] = toJs[j]
      /\ \A j \in DOMAIN toJs' : \/ j \in DOMAIN toJs /\ toJs'[j] = toJs[j]
                                 \/ j = Len(toJs) + 1 /\ toJs'[j] = m
  BY <1>2
<1> QED
  BY <1>3 DEF M

LEMMA EmitKeeps ==
  ASSUME TapInv, Emit
  PROVE  TapInv'
<1>0. TapType /\ HeldInv /\ BindingInv /\ PumpInv /\ FoundInv /\ OnceInv
  BY DEF TapInv
<1> DEFINE m == message("event", <<emitting>>)
<1>1. /\ emitting # NoId /\ emitting' = NoId
      /\ late' = IF Contains(pending, emitting) THEN late ELSE late \cup {emitting}
      /\ UNCHANGED <<pending, intent, listening, toNative, entries, installing, binding, pump>>
      /\ UNCHANGED <<tapped, delivered, everDelivered, lost>>
  BY DEF Emit, adapterVars
<1>2. emitting \in tapped
  BY <1>0, <1>1 DEF TapType
<1>3. /\ m \in Messages(tapped) /\ m.is = "event" /\ m.ids[1] = emitting /\ Len(m.ids) = 1
      /\ ~isOutcome(m) /\ ~isAnswer(m)
  BY <1>2 DEF message, Messages, isOutcome, isAnswer
<1>4. HeldInv'
  BY <1>0, <1>1 DEF HeldInv
<1>5. CASE listening
  <2>1. toJs' = Append(toJs, m) /\ UNCHANGED retained
    BY <1>5 DEF Emit
  <2> HIDE DEF m
  <2>2. /\ toJs' \in Seq(Messages(tapped)) /\ Len(toJs) \in Nat
        /\ Len(toJs) + 1 \in DOMAIN toJs' /\ toJs'[Len(toJs) + 1] = m
        /\ \A j \in DOMAIN toJs : j \in Nat /\ j < Len(toJs) + 1 /\ j \in DOMAIN toJs' /\ toJs'[j] = toJs[j]
        /\ \A j \in DOMAIN toJs' : \/ j \in DOMAIN toJs /\ toJs'[j] = toJs[j]
                                   \/ j = Len(toJs) + 1 /\ toJs'[j] = m
    BY <1>0, <1>3, <2>1, MessageFacts
  <2>3. TapType'
    BY <1>0, <1>1, <1>3, <2>1, <2>2 DEF TapType
  <2>4. BindingInv'
    <3>1. binding # "none"
      BY <1>0, <1>5, <1>2, <2>1 DEF BindingInv
    <3>2. binding = "installing" => Asking'
      BY <1>0, <1>1 DEF BindingInv, Asking
    <3> QED
      BY <1>0, <1>1, <1>3, <1>5, <2>2, <3>1, <3>2 DEF BindingInv
  <2>5. PumpInv'
    BY <1>0, <1>1, <1>3, <2>2 DEF PumpInv
  <2>6. \A id \in tapped : underWay(id) => underWay(id)'
    BY <1>1, <1>3, <2>2 DEF underWay, isEvent
  <2>7. FoundInv'
    BY <1>0, <1>1, <1>3, <2>2, <2>6 DEF FoundInv, owed, known, scheduled
  <2>8. \A id \in tapped : settled(id)' => settled(id) /\ (id = emitting => Contains(pending, id))
    BY <1>1 DEF settled
  <2>9. \A j \in DOMAIN toJs' : j = Len(toJs) + 1 => toJs'[j].is # "acknowledged"
    BY <1>3, <2>2
  <2>10. \A id \in tapped : settled(id)' /\ ~known(entries, id) => \A j \in DOMAIN toJs' : ~isEvent(toJs'[j], id)
    BY <1>0, <1>1, <1>3, <2>2, <2>8 DEF OnceInv, isEvent
  <2>11. \A i, j \in DOMAIN toJs' : \A id \in tapped :
           settled(id)' /\ toJs'[j].is = "acknowledged" /\ toJs'[j].ids[1] = id =>
             ~Contains(pending, id) /\ (isEvent(toJs'[i], id) => i < j)
    BY <1>0, <1>1, <1>3, <2>2, <2>8, <2>9 DEF OnceInv, isEvent
  <2>12. \A i \in DOMAIN entries : entries[i].id \in tapped
    BY <1>0, ElementTypes
  <2>13. \A i \in DOMAIN pump.todo : pump.todo[i] \in tapped
    BY <1>0, ElementTypes
  <2>14. \A i \in DOMAIN entries : settled(entries[i].id)' => entries[i].state # "buffered"
    BY <1>0, <1>1, <2>8, <2>12 DEF OnceInv
  <2>15. pump.at = "deliver" => \A i \in DOMAIN pump.todo : settled(pump.todo[i])' =>
            i = 1 /\ \/ \E j \in DOMAIN toNative : isAcknowledge(toNative[j])
                     \/ \E j \in DOMAIN toJs' : isAnswer(toJs'[j])
    BY <1>0, <1>1, <2>2, <2>8, <2>13 DEF OnceInv
  <2>16. OnceInv'
    BY <1>0, <1>1, <2>8, <2>10, <2>11, <2>14, <2>15 DEF OnceInv, known
  <2> QED
    BY <1>4, <2>3, <2>4, <2>5, <2>7, <2>16 DEF TapInv
<1>6. CASE ~listening
  <2>1. retained' = Append(retained, emitting) /\ UNCHANGED toJs
    BY <1>6 DEF Emit
  <2>2. TapType'
    BY <1>0, <1>1, <1>2, <2>1 DEF TapType
  <2>3. BindingInv' /\ PumpInv'
    BY <1>0, <1>1, <2>1 DEF BindingInv, Asking, PumpInv
  <2>4. binding # "bound" /\ \A j \in DOMAIN toJs : ~isOutcome(toJs[j])
    BY <1>0, <1>6 DEF BindingInv, Asking
  <2>5. FoundInv'
    BY <1>1, <2>1, <2>4 DEF FoundInv, isOutcome
  <2>6. \A x : settled(x)' => settled(x)
    BY <1>1 DEF settled
  <2>7. OnceInv'
    BY <1>0, <1>1, <2>1, <2>6 DEF OnceInv, known
  <2> QED
    BY <1>4, <2>2, <2>3, <2>5, <2>7 DEF TapInv
<1> QED
  BY <1>5, <1>6

\* The native side takes the next call.
LEMMA CallFacts ==
  ASSUME TapType, toNative # <<>>, toNative' = Tail(toNative)
  PROVE  /\ toNative' \in Seq(PluginCalls(tapped))
         /\ Head(toNative) = toNative[1] /\ 1 \in DOMAIN toNative
         /\ \A i \in DOMAIN toNative' : /\ i \in Nat \ {0} /\ i + 1 \in DOMAIN toNative
                                        /\ toNative'[i] = toNative[i + 1]
         /\ \A i \in DOMAIN toNative : i = 1 \/ (i - 1 \in DOMAIN toNative' /\ toNative'[i - 1] = toNative[i])
<1> DEFINE C == PluginCalls(tapped)
<1>1. toNative \in Seq(C)
  BY DEF TapType
<1> HIDE DEF C
<1>2. /\ toNative' \in Seq(C)
      /\ Head(toNative) = toNative[1] /\ 1 \in DOMAIN toNative
      /\ \A i \in DOMAIN toNative' : /\ i \in Nat \ {0} /\ i + 1 \in DOMAIN toNative
                                     /\ toNative'[i] = toNative[i + 1]
      /\ \A i \in DOMAIN toNative : i = 1 \/ (i - 1 \in DOMAIN toNative' /\ toNative'[i - 1] = toNative[i])
  BY <1>1, TailFacts
<1> QED
  BY <1>2 DEF C

\* While the binding asks, no tap has been delivered and the pump rests.
LEMMA AskingFacts ==
  ASSUME TapInv, delivered = {}, pump.at = "idle"
  PROVE  /\ \A i \in DOMAIN toNative : ~isAcknowledge(toNative[i])
         /\ \A j \in DOMAIN toJs : ~isAnswer(toJs[j])
         /\ \A x : ~settled(x)
BY DEF TapInv, PumpInv, settled

LEMMA ServeListenKeeps ==
  ASSUME TapInv, Serve, Head(toNative).call = "listen"
  PROVE  TapInv'
<1>0. TapType /\ HeldInv /\ BindingInv /\ PumpInv /\ FoundInv /\ OnceInv
  BY DEF TapInv
<1>1. /\ toNative # <<>> /\ toNative' = Tail(toNative)
      /\ UNCHANGED <<intent, emitting, entries, installing, binding, pump>>
      /\ UNCHANGED <<tapped, delivered, everDelivered, lost, late>>
  BY DEF Serve, adapterVars, tapHistory
<1>2. /\ listening' = TRUE /\ retained' = <<>> /\ UNCHANGED pending
      /\ toJs' = toJs \o [i \in DOMAIN retained |-> message("event", <<retained[i]>>)]
  BY DEF Serve, ServeListen
<1>3. Head(toNative) = toNative[1] /\ 1 \in DOMAIN toNative /\ ~isAcknowledge(toNative[1])
  BY <1>0, <1>1, CallFacts DEF isAcknowledge
<1>4. binding = "installing" /\ toNative = <<call("listen", NoId), call("consume", NoId)>>
  BY <1>0, <1>3 DEF BindingInv, Asking, TapType, call
<1>5. entries = <<>> /\ pump.at = "idle" /\ delivered = {} /\ \A j \in DOMAIN toJs : ~isOutcome(toJs[j])
  BY <1>0, <1>4 DEF BindingInv, Asking
<1>6. toNative' = <<call("consume", NoId)>>
  BY <1>1, <1>4
<1>7. toNative' \in Seq(PluginCalls(tapped)) /\ \A i \in DOMAIN toNative' : ~isAcknowledge(toNative'[i])
  BY <1>0, <1>1, <1>5, AskingFacts, CallFacts
<1>8. /\ toJs' \in Seq(Messages(tapped))
      /\ \A j \in DOMAIN toJs' : \/ j \in DOMAIN toJs /\ toJs'[j] = toJs[j]
                                 \/ toJs'[j].is = "event" /\ Len(toJs'[j].ids) = 1
  <2> DEFINE M == Messages(tapped)
             es == [i \in DOMAIN retained |-> message("event", <<retained[i]>>)]
  <2>1. toJs \in Seq(Messages(tapped)) /\ retained \in Seq(tapped)
    BY <1>0 DEF TapType
  <2>2. \A i \in DOMAIN retained : message("event", <<retained[i]>>) \in M
    BY <2>1 DEF message, Messages
  <2> HIDE DEF M
  <2>3. es \in Seq(M)
    <3>1. Len(retained) \in Nat /\ DOMAIN retained = 1..Len(retained)
      BY <2>1
    <3>2. es \in [1..Len(retained) -> M]
      BY <2>2, <3>1
    <3> QED
      BY <3>1, <3>2
  <2>4. \A i \in DOMAIN es : es[i].is = "event" /\ Len(es[i].ids) = 1
    BY DEF message
  <2>5. toJs \in Seq(M)
    BY <2>1 DEF M
  <2> HIDE DEF es
  <2>6. toJs' = toJs \o es
    BY <1>2 DEF es
  <2>7. /\ toJs' \in Seq(M)
        /\ \A j \in DOMAIN toJs' : \/ j \in DOMAIN toJs /\ toJs'[j] = toJs[j]
                                   \/ j - Len(toJs) \in DOMAIN es /\ toJs'[j] = es[j - Len(toJs)]
    BY <2>3, <2>5, <2>6
  <2> QED
    BY <2>4, <2>7 DEF M
<1>9. \A j \in DOMAIN toJs' : ~isOutcome(toJs'[j]) /\ ~isAnswer(toJs'[j])
  BY <1>0, <1>5, <1>8, AskingFacts DEF isOutcome, isAnswer
<1>10. TapType'
  <2>1. \A j \in DOMAIN toJs' : ~isOutcome(toJs'[j]) => Len(toJs'[j].ids) = 1
    BY <1>0, <1>8 DEF TapType
  <2>2. retained' \in Seq(tapped)
    BY <1>2
  <2> QED
    BY <1>0, <1>1, <1>2, <1>7, <1>8, <2>1, <2>2 DEF TapType
<1>11. HeldInv'
  BY <1>0, <1>1, <1>2 DEF HeldInv
<1>12. BindingInv'
  BY <1>1, <1>2, <1>4, <1>5, <1>6, <1>9 DEF BindingInv, Asking
<1>13. PumpInv'
  BY <1>0, <1>1, <1>7, <1>9 DEF PumpInv
<1>14. FoundInv'
  BY <1>1, <1>4, <1>9 DEF FoundInv, isOutcome
<1>15. OnceInv'
  BY <1>0, <1>1, <1>2, <1>5 DEF OnceInv, settled
<1> QED
  BY <1>10, <1>11, <1>12, <1>13, <1>14, <1>15 DEF TapInv

LEMMA ServeConsumeKeeps ==
  ASSUME TapInv, Serve, Head(toNative).call = "consume"
  PROVE  TapInv'
<1>0. TapType /\ HeldInv /\ BindingInv /\ PumpInv /\ FoundInv /\ OnceInv
  BY DEF TapInv
<1>1. /\ toNative # <<>> /\ toNative' = Tail(toNative)
      /\ UNCHANGED <<intent, emitting, entries, installing, binding, pump>>
      /\ UNCHANGED <<tapped, delivered, everDelivered, lost, late>>
  BY DEF Serve, adapterVars, tapHistory
<1>2. UNCHANGED <<pending, retained, listening>> /\ (answer("pending", pending) \/ answer("failed", <<>>))
  BY DEF Serve, ServeConsume
<1>3. Head(toNative) = toNative[1] /\ 1 \in DOMAIN toNative /\ ~isAcknowledge(toNative[1])
  BY <1>0, <1>1, CallFacts DEF isAcknowledge
<1>4. binding = "installing" /\ toNative = <<call("consume", NoId)>> /\ listening
  BY <1>0, <1>3 DEF BindingInv, Asking, TapType, call
<1>5. entries = <<>> /\ pump.at = "idle" /\ delivered = {} /\ \A j \in DOMAIN toJs : ~isOutcome(toJs[j])
  BY <1>0, <1>4 DEF BindingInv, Asking
<1>6. toNative' = <<>>
  BY <1>1, <1>4
<1>7. PICK m \in Messages(tapped) : /\ toJs' = Append(toJs, m)
                                    /\ isOutcome(m) /\ (m.is = "pending" => m.ids = pending)
  <2>1. pending \in Seq(tapped) /\ <<>> \in Seq(tapped)
    BY <1>0 DEF TapType
  <2>2. message("pending", pending) \in Messages(tapped) /\ message("failed", <<>>) \in Messages(tapped)
    BY <2>1 DEF message, Messages
  <2>3. /\ isOutcome(message("pending", pending)) /\ message("pending", pending).ids = pending
        /\ isOutcome(message("failed", <<>>)) /\ message("failed", <<>>).is # "pending"
    BY DEF message, isOutcome
  <2> QED
    BY <1>2, <2>2, <2>3 DEF answer
<1>8. /\ toJs' \in Seq(Messages(tapped)) /\ Len(toJs) \in Nat
      /\ \A j \in DOMAIN toJs' : \/ j \in DOMAIN toJs /\ toJs'[j] = toJs[j]
                                 \/ j = Len(toJs) + 1 /\ toJs'[j] = m
  BY <1>0, <1>7, MessageFacts
<1>9. \A j \in DOMAIN toJs' : ~isAnswer(toJs'[j])
  BY <1>0, <1>5, <1>7, <1>8, AskingFacts DEF isOutcome, isAnswer
<1>10. TapType'
  BY <1>0, <1>1, <1>2, <1>6, <1>7, <1>8 DEF TapType
<1>11. HeldInv'
  BY <1>0, <1>1, <1>2 DEF HeldInv
<1>12. BindingInv'
  BY <1>1, <1>2, <1>4, <1>5, <1>6, <1>8 DEF BindingInv, Asking
<1>13. PumpInv'
  BY <1>0, <1>1, <1>6, <1>9 DEF PumpInv
<1>14. \A j \in DOMAIN toJs' : toJs'[j].is = "pending" => toJs'[j].ids = pending
  BY <1>5, <1>7, <1>8 DEF isOutcome
<1>15. \A id \in tapped : owed(id) => Contains(pending, id)
  BY <1>0, ContainsIsIn DEF TapType, HeldInv, owed
<1>16. FoundInv'
  BY <1>1, <1>4, <1>14, <1>15 DEF FoundInv, owed
<1>17. OnceInv'
  BY <1>0, <1>1, <1>2, <1>5 DEF OnceInv, settled
<1> QED
  BY <1>10, <1>11, <1>12, <1>13, <1>16, <1>17 DEF TapInv

LEMMA ServeUnlistenKeeps ==
  ASSUME TapInv, Serve, Head(toNative).call = "unlisten"
  PROVE  TapInv'
<1>0. TapType /\ HeldInv /\ BindingInv /\ PumpInv /\ FoundInv /\ OnceInv
  BY DEF TapInv
<1>1. /\ toNative # <<>> /\ toNative' = Tail(toNative)
      /\ UNCHANGED <<intent, emitting, entries, installing, binding, pump>>
      /\ UNCHANGED <<tapped, delivered, everDelivered, lost, late>>
  BY DEF Serve, adapterVars, tapHistory
<1>2. UNCHANGED <<pending, retained, toJs>> /\ listening' = FALSE
  BY DEF Serve, ServeUnlisten
<1>3. /\ Head(toNative) = toNative[1] /\ 1 \in DOMAIN toNative /\ ~isAcknowledge(toNative[1])
      /\ toNative' \in Seq(PluginCalls(tapped))
      /\ \A i \in DOMAIN toNative' : i + 1 \in DOMAIN toNative /\ toNative'[i] = toNative[i + 1]
      /\ \A i \in DOMAIN toNative : i = 1 \/ (i - 1 \in DOMAIN toNative' /\ toNative'[i - 1] = toNative[i])
  BY <1>0, <1>1, CallFacts DEF isAcknowledge
<1>4. binding = "failed" /\ pump.at = "idle" /\ \A i \in DOMAIN toNative' : ~isAcknowledge(toNative'[i])
  BY <1>0, <1>1, <1>3 DEF BindingInv, Asking, TapType, call, isAcknowledge
<1>5. TapType'
  BY <1>0, <1>1, <1>2, <1>3 DEF TapType
<1>6. HeldInv' /\ FoundInv'
  BY <1>0, <1>1, <1>2, <1>4 DEF HeldInv, FoundInv, owed, underWay
<1>7. BindingInv'
  BY <1>0, <1>1, <1>2, <1>3, <1>4 DEF BindingInv
<1>8. PumpInv' /\ OnceInv'
  BY <1>0, <1>1, <1>2, <1>4 DEF PumpInv, OnceInv, settled, known
<1> QED
  BY <1>5, <1>6, <1>7, <1>8 DEF TapInv

LEMMA ServeAcknowledgeKeeps ==
  ASSUME TapInv, Serve, Head(toNative).call = "acknowledge"
  PROVE  TapInv'
<1>0. TapType /\ HeldInv /\ BindingInv /\ PumpInv /\ FoundInv /\ OnceInv
  BY DEF TapInv
<1> DEFINE id == Head(toNative).id
<1>1. /\ toNative # <<>> /\ toNative' = Tail(toNative)
      /\ UNCHANGED <<intent, emitting, entries, installing, binding, pump>>
      /\ UNCHANGED <<tapped, delivered, everDelivered, lost, late>>
  BY DEF Serve, adapterVars, tapHistory
<1>2. UNCHANGED <<retained, listening>> /\ ServeAcknowledge(id)
  BY DEF Serve, ServeAcknowledge
<1>3. /\ Head(toNative) = toNative[1] /\ 1 \in DOMAIN toNative /\ isAcknowledge(toNative[1])
      /\ toNative' \in Seq(PluginCalls(tapped))
      /\ \A i \in DOMAIN toNative' : /\ i \in Nat \ {0} /\ i + 1 \in DOMAIN toNative
                                     /\ toNative'[i] = toNative[i + 1]
  BY <1>0, <1>1, CallFacts DEF isAcknowledge
<1>4. /\ pump.todo # <<>> /\ id = pump.todo[1] /\ id \in delivered /\ id \in tapped
      /\ \A j \in DOMAIN toJs : ~isAnswer(toJs[j]) /\ ~isOutcome(toJs[j])
  BY <1>0, <1>1, <1>3 DEF PumpInv, BindingInv, TapType
<1>5. \A i \in DOMAIN toNative' : ~isAcknowledge(toNative'[i])
  BY <1>0, <1>3 DEF PumpInv
<1>6. binding = "bound" /\ listening
  BY <1>0, <1>1, <1>3 DEF BindingInv, Asking, TapType, call, isAcknowledge
<1> HIDE DEF id
<1>7. PICK m \in Messages(tapped) :
        /\ toJs' = Append(toJs, m) /\ isAnswer(m) /\ Len(m.ids) = 1 /\ m.ids[1] = id
        /\ m.is = "acknowledged" => pending' = only(pending, {i \in DOMAIN pending : pending[i] # id})
        /\ m.is # "acknowledged" => pending' = pending
  <2>1. message("acknowledged", <<id>>) \in Messages(tapped) /\ message("rejected", <<id>>) \in Messages(tapped)
    BY <1>4 DEF message, Messages
  <2>2. \A is \in {"acknowledged", "rejected"} :
          LET m == message(is, <<id>>) IN m.is = is /\ isAnswer(m) /\ Len(m.ids) = 1 /\ m.ids[1] = id
    BY DEF message, isAnswer
  <2>3. CASE answer("acknowledged", <<id>>) /\ pending' = only(pending, {i \in DOMAIN pending : pending[i] # id})
    BY <2>1, <2>2, <2>3 DEF answer
  <2>4. CASE answer("rejected", <<id>>) /\ UNCHANGED pending
    BY <2>1, <2>2, <2>4 DEF answer
  <2> QED
    BY <1>2, <2>3, <2>4 DEF ServeAcknowledge
<1>8. /\ pending' \in Seq(tapped)
      /\ \A i, j \in DOMAIN pending' : pending'[i] = pending'[j] => i = j
      /\ \A x : Contains(pending', x) => Contains(pending, x)
      /\ \A x \in ToSet(pending) : x = id \/ x \in ToSet(pending')
      /\ m.is = "acknowledged" => ~Contains(pending', id)
  <2>0. pending \in Seq(tapped) /\ \A i, j \in DOMAIN pending : pending[i] = pending[j] => i = j
    BY <1>0 DEF TapType, OnceInv
  <2>1. CASE m.is = "acknowledged"
    <3> DEFINE P == {i \in DOMAIN pending : pending[i] # id}
    <3> DEFINE t == only(pending, P)
    <3>1. P \in SUBSET DOMAIN pending /\ pending' = t
      BY <1>7, <2>1
    <3>2. \A i \in P : i \in DOMAIN pending /\ pending[i] # id
      OBVIOUS
    <3>3. \A i \in DOMAIN pending : pending[i] = id \/ i \in P
      OBVIOUS
    <3> HIDE DEF P
    <3>4. /\ t \in Seq(tapped)
          /\ \E f : /\ \A k \in DOMAIN t : f[k] \in P /\ t[k] = pending[f[k]]
                    /\ \A k, l \in DOMAIN t : f[k] = f[l] => k = l
                    /\ \A i \in P : \E k \in DOMAIN t : f[k] = i
      BY <2>0, <3>1, OnlyFacts
    <3> HIDE DEF t
    <3>4a. PICK f : /\ \A k \in DOMAIN t : f[k] \in P /\ t[k] = pending[f[k]]
                    /\ \A k, l \in DOMAIN t : f[k] = f[l] => k = l
                    /\ \A i \in P : \E k \in DOMAIN t : f[k] = i
      BY <3>4
    <3>5. \A i, j \in DOMAIN t : t[i] = t[j] => i = j
      BY <2>0, <3>2, <3>4
    <3>6. \A k \in DOMAIN t : t[k] # id /\ \E i \in DOMAIN pending : pending[i] = t[k]
      BY <3>2, <3>4
    <3>7. \A i \in DOMAIN pending : pending[i] = id \/ \E k \in DOMAIN t : t[k] = pending[i]
      BY <3>3, <3>4a
    <3> QED
      BY <2>0, <3>1, <3>4, <3>5, <3>6, <3>7, ContainsIsIn DEF ToSet
  <2>2. CASE m.is # "acknowledged"
    BY <1>7, <2>0, <2>2
  <2> QED
    BY <2>1, <2>2
<1>9. /\ toJs' \in Seq(Messages(tapped)) /\ Len(toJs) \in Nat
      /\ Len(toJs) + 1 \in DOMAIN toJs' /\ toJs'[Len(toJs) + 1] = m
      /\ \A j \in DOMAIN toJs : j \in Nat /\ j < Len(toJs) + 1 /\ j \in DOMAIN toJs' /\ toJs'[j] = toJs[j]
      /\ \A j \in DOMAIN toJs' : \/ j \in DOMAIN toJs /\ toJs'[j] = toJs[j]
                                 \/ j = Len(toJs) + 1 /\ toJs'[j] = m
  BY <1>0, <1>7, MessageFacts
<1>10. ~isOutcome(m) /\ m.is # "event"
  BY <1>7 DEF isAnswer, isOutcome
<1>11. TapType'
  <2>1. \A j \in DOMAIN toJs' : ~isOutcome(toJs'[j]) => Len(toJs'[j].ids) = 1
    BY <1>0, <1>7, <1>9 DEF TapType
  <2> QED
    BY <1>0, <1>1, <1>2, <1>3, <1>8, <1>9, <2>1 DEF TapType
<1>12. HeldInv'
  BY <1>0, <1>1, <1>4, <1>8 DEF HeldInv
<1>13. BindingInv'
  <2>1. \A j \in DOMAIN toJs' : ~isOutcome(toJs'[j])
    BY <1>4, <1>9, <1>10
  <2>2. \A i \in DOMAIN toNative' : isAcknowledge(toNative'[i])
    BY <1>0, <1>3, <1>6 DEF BindingInv
  <2> QED
    BY <1>0, <1>1, <1>2, <1>6, <2>1, <2>2 DEF BindingInv
<1>14. PumpInv'
  <2>1. \A j \in DOMAIN toJs' : isAnswer(toJs'[j]) => j = Len(toJs) + 1 /\ toJs'[j].ids[1] = id
    BY <1>4, <1>7, <1>9
  <2> QED
    BY <1>0, <1>1, <1>4, <1>5, <2>1 DEF PumpInv
<1>15. \A x \in tapped : underWay(x) => underWay(x)'
  BY <1>1, <1>9 DEF underWay
<1>16. FoundInv'
  <2>1. \A j \in DOMAIN toJs' : toJs'[j].is # "pending"
    BY <1>4, <1>9, <1>10 DEF isOutcome
  <2> QED
    BY <1>0, <1>1, <1>15, <2>1 DEF FoundInv, owed, known, scheduled
<1>17. OnceInv'
  <2>1. \A j \in DOMAIN toJs', x \in tapped : isEvent(toJs'[j], x) => j \in DOMAIN toJs /\ isEvent(toJs[j], x)
    BY <1>9, <1>10 DEF isEvent
  <2>2. \A x \in tapped : settled(x) /\ ~known(entries, x) =>
          ~Contains(pending', x) /\ \A j \in DOMAIN toJs' : ~isEvent(toJs'[j], x)
    BY <1>0, <1>8, <2>1 DEF OnceInv
  <2>3. \A i, j \in DOMAIN toJs' : \A x \in tapped :
          settled(x) /\ toJs'[j].is = "acknowledged" /\ toJs'[j].ids[1] = x =>
            ~Contains(pending', x) /\ (isEvent(toJs'[i], x) => i < j)
    <3> SUFFICES ASSUME NEW i \in DOMAIN toJs', NEW j \in DOMAIN toJs', NEW x \in tapped,
                        settled(x), toJs'[j].is = "acknowledged", toJs'[j].ids[1] = x
                 PROVE  ~Contains(pending', x) /\ (isEvent(toJs'[i], x) => i < j)
      OBVIOUS
    <3>1. j = Len(toJs) + 1 /\ m.is = "acknowledged" /\ x = id
      BY <1>4, <1>7, <1>9 DEF isAnswer
    <3> QED
      BY <1>8, <1>9, <2>1, <3>1
  <2>4. pump.at = "deliver" => \A i \in DOMAIN pump.todo : settled(pump.todo[i]) =>
          i = 1 /\ \E j \in DOMAIN toJs' : isAnswer(toJs'[j])
    BY <1>0, <1>7, <1>9 DEF OnceInv
  <2>5. \A x : settled(x)' <=> settled(x)
    BY <1>1 DEF settled
  <2> QED
    BY <1>0, <1>1, <1>8, <2>2, <2>3, <2>4, <2>5 DEF OnceInv, known
<1> QED
  BY <1>11, <1>12, <1>13, <1>14, <1>16, <1>17 DEF TapInv

-----------------------------------------------------------------------------
(* The adapter keeps the invariant. *)

LEMMA BindKeeps ==
  ASSUME TapInv, Bind
  PROVE  TapInv'
<1>0. TapType /\ HeldInv /\ BindingInv /\ PumpInv /\ FoundInv /\ OnceInv
  BY DEF TapInv
<1>1. /\ binding = "none" /\ binding' = "installing"
      /\ toNative' = toNative \o <<call("listen", NoId), call("consume", NoId)>>
      /\ UNCHANGED <<pending, intent, emitting, retained, listening, toJs, entries, installing, pump>>
      /\ UNCHANGED <<tapped, delivered, everDelivered, lost, late>>
  BY DEF Bind, nativeVars, tapHistory
<1>2. entries = <<>> /\ pump.at = "idle" /\ delivered = {} /\ toNative = <<>> /\ toJs = <<>>
  BY <1>0, <1>1 DEF BindingInv
<1>3. toNative' = <<call("listen", NoId), call("consume", NoId)>>
  BY <1>1, <1>2
<1>4. call("listen", NoId) \in PluginCalls(tapped) /\ call("consume", NoId) \in PluginCalls(tapped)
  BY DEF call, PluginCalls
<1>5. ~isAcknowledge(call("listen", NoId)) /\ ~isAcknowledge(call("consume", NoId))
  BY DEF call, isAcknowledge
<1>6. toNative' \in Seq(PluginCalls(tapped)) /\ \A i \in DOMAIN toNative' : ~isAcknowledge(toNative'[i])
  BY <1>3, <1>4, <1>5
<1>7. TapType' /\ HeldInv'
  BY <1>0, <1>1, <1>6 DEF TapType, HeldInv
<1>8. BindingInv'
  BY <1>1, <1>2, <1>3 DEF BindingInv, Asking
<1>9. PumpInv'
  BY <1>0, <1>1, <1>2, <1>6 DEF PumpInv
<1>10. FoundInv' /\ OnceInv'
  BY <1>0, <1>1, <1>2 DEF FoundInv, OnceInv, settled
<1> QED
  BY <1>7, <1>8, <1>9, <1>10 DEF TapInv

\* The adapter hears the next message.
LEMMA HeardFacts ==
  ASSUME TapType, NEW is, hear(is)
  PROVE  /\ toJs # <<>> /\ received = toJs[1] /\ 1 \in DOMAIN toJs /\ received.is = is
         /\ toJs' \in Seq(Messages(tapped))
         /\ \A i \in DOMAIN toJs' : /\ i \in Nat \ {0} /\ i + 1 \in DOMAIN toJs
                                    /\ toJs'[i] = toJs[i + 1]
         /\ \A i \in DOMAIN toJs : i \in Nat /\ (i = 1 \/ (i - 1 \in DOMAIN toJs' /\ toJs'[i - 1] = toJs[i]))
<1> DEFINE M == Messages(tapped)
<1>1. toJs \in Seq(M) /\ toJs # <<>> /\ received.is = is /\ toJs' = Tail(toJs) /\ received = Head(toJs)
  BY DEF TapType, hear, received
<1> HIDE DEF M
<1>2. /\ toJs' \in Seq(M)
      /\ Head(toJs) = toJs[1] /\ 1 \in DOMAIN toJs
      /\ \A i \in DOMAIN toJs' : /\ i \in Nat \ {0} /\ i + 1 \in DOMAIN toJs
                                 /\ toJs'[i] = toJs[i + 1]
      /\ \A i \in DOMAIN toJs : i \in Nat /\ (i = 1 \/ (i - 1 \in DOMAIN toJs' /\ toJs'[i - 1] = toJs[i]))
  BY <1>1, TailFacts
<1> QED
  BY <1>1, <1>2 DEF M

\* The binding and the acknowledgement survive what is heard, unless it was theirs.
LEMMA HeardKeeps ==
  ASSUME TapInv, NEW is, hear(is), UNCHANGED <<tapped, emitting>>
  PROVE  /\ \A j \in DOMAIN toJs' : ~isOutcome(toJs'[j]) => Len(toJs'[j].ids) = 1
         /\ \A j \in DOMAIN toJs' : isOutcome(toJs'[j]) => binding = "installing" /\ toNative = <<>>
         /\ \A j, k \in DOMAIN toJs' : isOutcome(toJs'[j]) /\ isOutcome(toJs'[k]) => j = k
         /\ is \in {"pending", "failed"} => \A j \in DOMAIN toJs' : ~isOutcome(toJs'[j])
         /\ \A j \in DOMAIN toJs' : isAnswer(toJs'[j]) =>
              pump.todo # <<>> /\ toJs'[j].ids[1] = pump.todo[1] /\ pump.todo[1] \in delivered
         /\ \A i, j \in DOMAIN toJs' : isAnswer(toJs'[i]) /\ isAnswer(toJs'[j]) => i = j
         /\ \A i \in DOMAIN toNative, j \in DOMAIN toJs' : ~(isAcknowledge(toNative[i]) /\ isAnswer(toJs'[j]))
         /\ is \in {"acknowledged", "rejected"} => \A j \in DOMAIN toJs' : ~isAnswer(toJs'[j])
         /\ ~isAnswer(received) => \A j \in DOMAIN toJs : isAnswer(toJs[j]) => \E i \in DOMAIN toJs' : isAnswer(toJs'[i])
         /\ \A id : underWay(id) => underWay(id)' \/ isEvent(received, id)
<1>0. TapType /\ BindingInv /\ PumpInv
  BY DEF TapInv
<1>1. /\ received = toJs[1] /\ 1 \in DOMAIN toJs /\ received.is = is
      /\ \A i \in DOMAIN toJs' : i \in Nat \ {0} /\ i + 1 \in DOMAIN toJs /\ toJs'[i] = toJs[i + 1]
      /\ \A i \in DOMAIN toJs : i \in Nat /\ (i = 1 \/ (i - 1 \in DOMAIN toJs' /\ toJs'[i - 1] = toJs[i]))
  BY <1>0, HeardFacts
<1>2. \A i \in DOMAIN toJs' : i + 1 # 1
  BY <1>1
<1>3. \A i, j \in DOMAIN toJs' : i + 1 = j + 1 => i = j
  BY <1>1
<1>4. /\ \A j \in DOMAIN toJs' : ~isOutcome(toJs'[j]) => Len(toJs'[j].ids) = 1
      /\ \A j \in DOMAIN toJs' : isOutcome(toJs'[j]) => binding = "installing" /\ toNative = <<>>
  BY <1>0, <1>1 DEF TapType, BindingInv
<1>5. \A j, k \in DOMAIN toJs' : isOutcome(toJs'[j]) /\ isOutcome(toJs'[k]) => j = k
  BY <1>0, <1>1, <1>3 DEF BindingInv
<1>6. is \in {"pending", "failed"} => \A j \in DOMAIN toJs' : ~isOutcome(toJs'[j])
  BY <1>0, <1>1, <1>2 DEF BindingInv, isOutcome
<1>7. /\ \A j \in DOMAIN toJs' : isAnswer(toJs'[j]) =>
           pump.todo # <<>> /\ toJs'[j].ids[1] = pump.todo[1] /\ pump.todo[1] \in delivered
      /\ \A i \in DOMAIN toNative, j \in DOMAIN toJs' : ~(isAcknowledge(toNative[i]) /\ isAnswer(toJs'[j]))
  BY <1>0, <1>1 DEF PumpInv
<1>8. \A i, j \in DOMAIN toJs' : isAnswer(toJs'[i]) /\ isAnswer(toJs'[j]) => i = j
  BY <1>0, <1>1, <1>3 DEF PumpInv
<1>9. is \in {"acknowledged", "rejected"} => \A j \in DOMAIN toJs' : ~isAnswer(toJs'[j])
  BY <1>0, <1>1, <1>2 DEF PumpInv, isAnswer
<1>10. ~isAnswer(received) => \A j \in DOMAIN toJs : isAnswer(toJs[j]) => \E i \in DOMAIN toJs' : isAnswer(toJs'[i])
  BY <1>1
<1>11. \A id : underWay(id) => underWay(id)' \/ isEvent(received, id)
  BY <1>1 DEF underWay
<1> QED
  BY <1>4, <1>5, <1>6, <1>7, <1>8, <1>9, <1>10, <1>11

LEMMA HearFailedKeeps ==
  ASSUME TapInv, HearFailed
  PROVE  TapInv'
<1>0. TapType /\ HeldInv /\ BindingInv /\ PumpInv /\ FoundInv /\ OnceInv
  BY DEF TapInv
<1>1. /\ hear("failed") /\ binding' = "failed" /\ toNative' = Append(toNative, call("unlisten", NoId))
      /\ UNCHANGED <<pending, intent, emitting, retained, listening, entries, installing, pump>>
      /\ UNCHANGED <<tapped, delivered, everDelivered, lost, late>>
  BY DEF HearFailed, nativeVars, tapHistory
<1>2. received = toJs[1] /\ 1 \in DOMAIN toJs /\ received.is = "failed" /\ toJs' \in Seq(Messages(tapped))
  BY <1>0, <1>1, HeardFacts
<1>3. binding = "installing" /\ toNative = <<>>
  BY <1>0, <1>2 DEF BindingInv, isOutcome
<1>4. entries = <<>> /\ pump.at = "idle" /\ delivered = {}
  BY <1>0, <1>3 DEF BindingInv, Asking
<1>5. call("unlisten", NoId) \in PluginCalls(tapped) /\ call("unlisten", NoId).call = "unlisten"
  BY DEF call, PluginCalls
<1>6. /\ toNative' \in Seq(PluginCalls(tapped))
      /\ \A i \in DOMAIN toNative' : toNative'[i].call = "unlisten" /\ ~isAcknowledge(toNative'[i])
  BY <1>1, <1>3, <1>5 DEF isAcknowledge
<1>7. /\ \A j \in DOMAIN toJs' : ~isOutcome(toJs'[j]) /\ Len(toJs'[j].ids) = 1
      /\ \A j \in DOMAIN toJs' : ~isAnswer(toJs'[j])
  <2>1. pump.todo = <<>>
    BY <1>0, <1>4 DEF PumpInv
  <2> QED
    BY <1>1, <2>1, HeardKeeps
<1>8. TapType' /\ HeldInv'
  BY <1>0, <1>1, <1>2, <1>6, <1>7 DEF TapType, HeldInv
<1>9. BindingInv' /\ PumpInv'
  BY <1>0, <1>1, <1>4, <1>6, <1>7 DEF BindingInv, PumpInv
<1>10. FoundInv' /\ OnceInv'
  BY <1>0, <1>1, <1>4, <1>7 DEF FoundInv, OnceInv, settled, isOutcome
<1> QED
  BY <1>8, <1>9, <1>10 DEF TapInv

\* What the pump starts with: the ids of the entries in one state.
LEMMA InStateFacts ==
  ASSUME NEW T, NEW es \in Seq(Entries(T)), NEW state
  PROVE  LET todo == inState(es, state) IN
         /\ todo \in Seq(T)
         /\ \A k \in DOMAIN todo : \E i \in DOMAIN es : es[i].id = todo[k] /\ es[i].state = state
         /\ \A i \in DOMAIN es : es[i].state = state => \E k \in DOMAIN todo : todo[k] = es[i].id
         /\ (\A i, j \in DOMAIN es : es[i].id = es[j].id => i = j) =>
              \A k, l \in DOMAIN todo : todo[k] = todo[l] => k = l
<1> DEFINE P == {i \in DOMAIN es : es[i].state = state}
           t == only(es, P)
           todo == inState(es, state)
<1>1. P \in SUBSET DOMAIN es
  OBVIOUS
<1>2. \A i \in DOMAIN es : i \in P <=> es[i].state = state
  OBVIOUS
<1>3. todo = [k \in DOMAIN t |-> t[k].id]
  BY DEF inState, ids
<1> HIDE DEF P
<1>4. /\ t \in Seq(Entries(T))
      /\ \E f : /\ \A k \in DOMAIN t : f[k] \in P /\ t[k] = es[f[k]]
                /\ \A k, l \in DOMAIN t : f[k] = f[l] => k = l
                /\ \A i \in P : \E k \in DOMAIN t : f[k] = i
  BY <1>1, OnlyFacts
<1> HIDE DEF t
<1>5. PICK f : /\ \A k \in DOMAIN t : f[k] \in P /\ t[k] = es[f[k]]
               /\ \A k, l \in DOMAIN t : f[k] = f[l] => k = l
               /\ \A i \in P : \E k \in DOMAIN t : f[k] = i
  BY <1>4
<1>6. Len(t) \in Nat /\ DOMAIN t = 1..Len(t) /\ \A k \in 1..Len(t) : t[k].id \in T
  <2> DEFINE E == Entries(T)
  <2> HIDE DEF E
  <2>1. t \in Seq(E)
    BY <1>4 DEF E
  <2>2. Len(t) \in Nat /\ DOMAIN t = 1..Len(t) /\ \A k \in 1..Len(t) : t[k] \in E
    BY <2>1
  <2> QED
    BY <2>2 DEF E, Entries
<1>7. todo \in [1..Len(t) -> T]
  BY <1>3, <1>6
<1>8. todo \in Seq(T) /\ DOMAIN todo = DOMAIN t /\ \A k \in DOMAIN t : todo[k] = t[k].id
  BY <1>3, <1>6, <1>7
<1> HIDE DEF todo
<1>9. \A k \in DOMAIN todo : \E i \in DOMAIN es : es[i].id = todo[k] /\ es[i].state = state
  BY <1>1, <1>2, <1>5, <1>8
<1>10. \A i \in DOMAIN es : es[i].state = state => \E k \in DOMAIN todo : todo[k] = es[i].id
  BY <1>2, <1>5, <1>8
<1>11. ASSUME \A i, j \in DOMAIN es : es[i].id = es[j].id => i = j,
              NEW k \in DOMAIN todo, NEW l \in DOMAIN todo, todo[k] = todo[l]
       PROVE  k = l
  <2>1. f[k] \in DOMAIN es /\ f[l] \in DOMAIN es /\ es[f[k]].id = es[f[l]].id
    BY <1>1, <1>5, <1>8, <1>11
  <2> QED
    BY <1>5, <1>8, <1>11, <2>1
<1> QED
  BY <1>8, <1>9, <1>10, <1>11 DEF todo

LEMMA RequestFacts ==
  ASSUME TapType, NEW es \in Seq(Entries(tapped)), requestPump(es),
         \A i \in DOMAIN es : es[i].state = "delivered-awaiting-ack" => es[i].id \in delivered
  PROVE  /\ pump' \in Pumps(tapped) /\ pump'.at # "idle"
         /\ pump.at = "idle" => pump'.at = "acknowledge" /\ ToSet(pump'.todo) \subseteq delivered
         /\ pump.at # "idle" => pump'.at = pump.at /\ pump'.todo = pump.todo /\ pump'.pending = TRUE
<1> DEFINE todo == inState(es, "delivered-awaiting-ack")
<1>0. pump \in Pumps(tapped)
  BY DEF TapType
<1>1. /\ todo \in Seq(tapped)
      /\ \A k \in DOMAIN todo : \E i \in DOMAIN es : es[i].id = todo[k] /\ es[i].state = "delivered-awaiting-ack"
  BY InStateFacts
<1>2. ToSet(todo) \subseteq delivered
  BY <1>1 DEF ToSet
<1>3. CASE pump.at = "idle"
  <2>1. pump' = [at |-> "acknowledge", todo |-> todo, pending |-> FALSE]
    BY <1>3 DEF requestPump, startPump
  <2> HIDE DEF todo
  <2> QED
    BY <1>1, <1>2, <1>3, <2>1 DEF Pumps
<1>4. CASE pump.at # "idle"
  BY <1>0, <1>4 DEF requestPump, Pumps
<1> QED
  BY <1>3, <1>4

\* An event that tells the adapter nothing.
LEMMA PassKeeps ==
  ASSUME TapInv, hear("event"), binding # "installing", lost \subseteq lost',
         UNCHANGED <<pending, intent, emitting, retained, listening, toNative, entries, installing, binding, pump>>,
         UNCHANGED <<tapped, delivered, everDelivered, late>>,
         binding = "bound" => \A x \in tapped : isEvent(received, x) /\ owed(x)' => known(entries, x)
  PROVE  TapInv'
<1>0. TapType /\ HeldInv /\ BindingInv /\ PumpInv /\ FoundInv /\ OnceInv
  BY DEF TapInv
<1>1. /\ received = toJs[1] /\ 1 \in DOMAIN toJs /\ received.is = "event"
      /\ toJs' \in Seq(Messages(tapped))
      /\ \A i \in DOMAIN toJs' : i \in Nat \ {0} /\ i + 1 \in DOMAIN toJs /\ toJs'[i] = toJs[i + 1]
  BY <1>0, HeardFacts
<1>2. ~isAnswer(received)
  BY <1>1 DEF isAnswer
<1>3. /\ \A j \in DOMAIN toJs' : ~isOutcome(toJs'[j]) /\ Len(toJs'[j].ids) = 1
      /\ \A j \in DOMAIN toJs' : isAnswer(toJs'[j]) =>
           pump.todo # <<>> /\ toJs'[j].ids[1] = pump.todo[1] /\ pump.todo[1] \in delivered
      /\ \A i, j \in DOMAIN toJs' : isAnswer(toJs'[i]) /\ isAnswer(toJs'[j]) => i = j
      /\ \A i \in DOMAIN toNative, j \in DOMAIN toJs' : ~(isAcknowledge(toNative[i]) /\ isAnswer(toJs'[j]))
      /\ \A j \in DOMAIN toJs : isAnswer(toJs[j]) => \E i \in DOMAIN toJs' : isAnswer(toJs'[i])
      /\ \A x : underWay(x) => underWay(x)' \/ isEvent(received, x)
  BY <1>2, HeardKeeps
<1>4. TapType' /\ HeldInv'
  BY <1>0, <1>1, <1>3 DEF TapType, HeldInv
<1>5. BindingInv'
  <2>1. binding = "none" => FALSE
    BY <1>0, <1>1 DEF BindingInv
  <2> QED
    BY <1>0, <1>3, <2>1 DEF BindingInv
<1>6. PumpInv'
  BY <1>0, <1>3 DEF PumpInv
<1>7. FoundInv'
  <2>1. \A x \in tapped : owed(x)' => owed(x)
    BY DEF owed
  <2>2. \A j \in DOMAIN toJs' : toJs'[j].is # "pending"
    BY <1>3 DEF isOutcome
  <2>3. ASSUME binding = "bound", NEW x \in tapped, owed(x)'
        PROVE  /\ underWay(x)' \/ known(entries, x)
               /\ known(entries, x) => scheduled(x)
    BY <1>0, <1>3, <2>1, <2>3 DEF FoundInv
  <2> QED
    BY <2>2, <2>3 DEF FoundInv, known, scheduled
<1>8. OnceInv'
  <2>1. \A i, j \in DOMAIN toJs' : \A x \in tapped :
          settled(x) /\ toJs'[j].is = "acknowledged" /\ toJs'[j].ids[1] = x =>
            ~Contains(pending, x) /\ (isEvent(toJs'[i], x) => i < j)
    <3> SUFFICES ASSUME NEW i \in DOMAIN toJs', NEW j \in DOMAIN toJs', NEW x \in tapped,
                        settled(x), toJs'[j].is = "acknowledged", toJs'[j].ids[1] = x
                 PROVE  ~Contains(pending, x) /\ (isEvent(toJs'[i], x) => i < j)
      OBVIOUS
    <3>1. /\ i + 1 \in DOMAIN toJs /\ j + 1 \in DOMAIN toJs /\ i \in Nat /\ j \in Nat
          /\ toJs'[i] = toJs[i + 1] /\ toJs'[j] = toJs[j + 1]
      BY <1>1
    <3>2. ~Contains(pending, x) /\ (isEvent(toJs'[i], x) => i + 1 < j + 1)
      BY <1>0, <3>1 DEF OnceInv
    <3> QED
      BY <3>1, <3>2
  <2>2. \A x \in tapped : settled(x) /\ ~known(entries, x) =>
          ~Contains(pending, x) /\ \A j \in DOMAIN toJs' : ~isEvent(toJs'[j], x)
    BY <1>0, <1>1 DEF OnceInv
  <2> QED
    BY <1>0, <1>3, <2>1, <2>2 DEF OnceInv, settled, known
<1> QED
  BY <1>4, <1>5, <1>6, <1>7, <1>8 DEF TapInv

LEMMA HearEventKeeps ==
  ASSUME TapInv, HearEvent
  PROVE  TapInv'
<1>0. TapType /\ HeldInv /\ BindingInv /\ PumpInv /\ FoundInv /\ OnceInv
  BY DEF TapInv
<1> DEFINE id == received.ids[1]
<1>1. /\ hear("event")
      /\ UNCHANGED <<pending, intent, emitting, retained, listening, toNative, binding>>
      /\ UNCHANGED <<tapped, delivered, everDelivered, late>>
  BY DEF HearEvent, nativeVars
<1>2. /\ received = toJs[1] /\ 1 \in DOMAIN toJs /\ received.is = "event"
      /\ toJs' \in Seq(Messages(tapped))
      /\ \A i \in DOMAIN toJs' : i \in Nat \ {0} /\ i + 1 \in DOMAIN toJs /\ toJs'[i] = toJs[i + 1]
  BY <1>0, <1>1, HeardFacts
<1>3. id \in tapped /\ isEvent(toJs[1], id) /\ received.ids \in Seq(tapped) /\ Len(received.ids) = 1
  <2>1. received.ids \in Seq(tapped) /\ Len(received.ids) = 1
    BY <1>0, <1>2, ElementTypes DEF TapType, isOutcome
  <2> QED
    BY <1>2, <2>1 DEF isEvent
<1>4. ~isAnswer(received) /\ \A x : isEvent(received, x) => x = id
  BY <1>2 DEF isAnswer, isEvent
<1> HIDE DEF id
<1>5. /\ \A j \in DOMAIN toJs' : ~isOutcome(toJs'[j]) => Len(toJs'[j].ids) = 1
      /\ \A j \in DOMAIN toJs' : isOutcome(toJs'[j]) => binding = "installing" /\ toNative = <<>>
      /\ \A j, k \in DOMAIN toJs' : isOutcome(toJs'[j]) /\ isOutcome(toJs'[k]) => j = k
      /\ \A j \in DOMAIN toJs' : isAnswer(toJs'[j]) =>
           pump.todo # <<>> /\ toJs'[j].ids[1] = pump.todo[1] /\ pump.todo[1] \in delivered
      /\ \A i, j \in DOMAIN toJs' : isAnswer(toJs'[i]) /\ isAnswer(toJs'[j]) => i = j
      /\ \A i \in DOMAIN toNative, j \in DOMAIN toJs' : ~(isAcknowledge(toNative[i]) /\ isAnswer(toJs'[j]))
      /\ \A j \in DOMAIN toJs : isAnswer(toJs[j]) => \E i \in DOMAIN toJs' : isAnswer(toJs'[i])
      /\ \A x : underWay(x) => underWay(x)' \/ x = id
  BY <1>0, <1>1, <1>4, HeardKeeps
<1>6. \A x : settled(x)' <=> settled(x)
  BY <1>1 DEF settled
<1>7. \A x \in tapped : owed(x)' => owed(x)
  BY <1>1 DEF HearEvent, owed, drop
<1>8. CASE binding = "installing"
  <2>1. /\ installing' \in Seq(tapped)
        /\ \A x : Contains(installing, x) => Contains(installing', x)
        /\ Contains(installing', id) \/ id \in lost' \/ known(entries, id)
        /\ lost \subseteq lost'
        /\ UNCHANGED <<entries, pump>>
    <3> DEFINE takes == ~known(entries, id) /\ ~Contains(installing, id)
    <3>1. /\ installing' = IF takes /\ room(entries, installing) THEN Append(installing, id) ELSE installing
          /\ lost' = IF takes /\ ~room(entries, installing) THEN lost \cup {id} ELSE lost
          /\ UNCHANGED <<entries, pump>>
      BY <1>8 DEF HearEvent, id
    <3>2. installing \in Seq(tapped) /\ installing' \in Seq(tapped)
      BY <1>0, <1>3, <3>1 DEF TapType
    <3>3. CASE takes /\ room(entries, installing)
      <4>1. installing' = Append(installing, id)
        BY <3>1, <3>3
      <4>2. \A i \in DOMAIN installing : i \in DOMAIN installing' /\ installing'[i] = installing[i]
        BY <3>2, <4>1
      <4>3. \E i \in DOMAIN installing' : installing'[i] = id
        BY <3>2, <4>1
      <4>4. \A x : Contains(installing, x) => Contains(installing', x)
        BY <3>2, <4>2, ContainsIsIn
      <4>5. Contains(installing', id)
        BY <3>2, <4>3, ContainsIsIn
      <4> QED
        BY <3>1, <3>2, <3>3, <4>4, <4>5
    <3>4. CASE ~takes
      BY <3>1, <3>2, <3>4
    <3>5. CASE takes /\ ~room(entries, installing)
      BY <3>1, <3>2, <3>5
    <3> QED
      BY <3>3, <3>4, <3>5
  <2>2. entries = <<>> /\ ~known(entries, id) /\ delivered = {} /\ pump.at = "idle"
    BY <1>0, <1>2, <1>8 DEF BindingInv, Asking, known
  <2>3. TapType' /\ HeldInv'
    BY <1>0, <1>1, <1>2, <1>5, <2>1 DEF TapType, HeldInv
  <2>4. BindingInv'
    BY <1>0, <1>1, <1>5, <1>8, <2>1 DEF BindingInv, Asking
  <2>5. PumpInv'
    BY <1>0, <1>1, <1>5, <2>1 DEF PumpInv
  <2>6. FoundInv'
    <3> SUFFICES ASSUME NEW j \in DOMAIN toJs', toJs'[j].is = "pending", NEW x \in tapped, owed(x)'
                 PROVE  underWay(x)' \/ Contains(installing', x) \/ Contains(toJs'[j].ids, x)
      BY <1>1, <1>8 DEF FoundInv
    <3>1. underWay(x) \/ Contains(installing, x) \/ Contains(toJs'[j].ids, x)
      BY <1>0, <1>2, <1>7 DEF FoundInv
    <3>2. x = id => Contains(installing', x)
      BY <1>1, <2>1, <2>2 DEF owed
    <3> QED
      BY <1>5, <2>1, <3>1, <3>2
  <2>7. OnceInv'
    BY <1>0, <1>1, <2>1, <2>2 DEF OnceInv, settled
  <2> QED
    BY <2>3, <2>4, <2>5, <2>6, <2>7 DEF TapInv
<1>9. CASE binding = "bound"
  <2>0. /\ entries' = enqueue(entries, <<id>>)
        /\ IF entries' # entries THEN requestPump(entries') ELSE UNCHANGED pump
        /\ drop(<<id>>, entries')
        /\ UNCHANGED installing
    BY <1>9 DEF HearEvent, id
  <2>1. /\ entries' \in Seq(Entries(tapped)) /\ Len(entries') <= MAX_ACTIONS
        /\ \A i \in DOMAIN entries : i \in DOMAIN entries' /\ entries'[i] = entries[i]
        /\ \A i \in DOMAIN entries' : \/ i \in DOMAIN entries /\ entries'[i] = entries[i]
                                      \/ /\ entries'[i].state = "buffered" /\ ~known(entries, entries'[i].id)
                                         /\ entries'[i].id = id
        /\ \A i, j \in DOMAIN entries' : entries'[i].id = entries'[j].id => i = j
        /\ Len(entries') < MAX_ACTIONS => known(entries', id)
    <3> DEFINE g == enqueue(entries, <<id>>)
    <3>1. entries \in Seq(Entries(tapped)) /\ Len(entries) <= MAX_ACTIONS /\ <<id>> \in Seq(tapped)
      BY <1>0, <1>3 DEF TapType
    <3>2. \A i, j \in DOMAIN entries : entries[i].id = entries[j].id => i = j
      BY <1>0 DEF OnceInv
    <3>3. DOMAIN <<id>> = {1} /\ <<id>>[1] = id
      OBVIOUS
    <3>4. /\ g \in Seq(Entries(tapped)) /\ Len(g) <= MAX_ACTIONS
          /\ \A i \in DOMAIN entries : i \in DOMAIN g /\ g[i] = entries[i]
          /\ \A i \in DOMAIN g : \/ i \in DOMAIN entries /\ g[i] = entries[i]
                                 \/ /\ g[i].state = "buffered" /\ ~known(entries, g[i].id)
                                    /\ \E k \in DOMAIN <<id>> : <<id>>[k] = g[i].id
          /\ \A i, j \in DOMAIN g : g[i].id = g[j].id => i = j
          /\ Len(g) < MAX_ACTIONS => \A k \in DOMAIN <<id>> : known(g, <<id>>[k])
      BY <3>1, <3>2, EnqueueFacts
    <3>5. entries' = g
      BY <2>0
    <3> HIDE DEF g
    <3>6. \A i \in DOMAIN g : \/ i \in DOMAIN entries /\ g[i] = entries[i]
                              \/ /\ g[i].state = "buffered" /\ ~known(entries, g[i].id)
                                 /\ g[i].id = id
      BY <3>3, <3>4
    <3>7. Len(g) < MAX_ACTIONS => known(g, id)
      BY <3>3, <3>4
    <3> QED
      BY <3>4, <3>5, <3>6, <3>7 DEF known
  <2>2. \A x : known(entries, x) => known(entries', x)
    BY <2>1 DEF known
  <2>3. known(entries', id) \/ id \in lost'
    <3>1. CASE Len(entries') < MAX_ACTIONS
      BY <2>1, <3>1
    <3>2. CASE ~(Len(entries') < MAX_ACTIONS)
      <4>1. lost' = lost \cup ({id} \ ToSet(ids(entries')))
        BY <2>0, <3>2 DEF drop, ToSet
      <4>2. id \in ToSet(ids(entries')) => known(entries', id)
        BY DEF ToSet, ids, known
      <4> QED
        BY <4>1, <4>2
    <3> QED
      BY <3>1, <3>2
  <2>4. lost \subseteq lost'
    BY <2>0 DEF drop
  <2>5. \A i \in DOMAIN entries' : entries'[i].state = "delivered-awaiting-ack" => entries'[i].id \in delivered
    BY <1>0, <2>1 DEF PumpInv
  <2>6. CASE entries' # entries
    <3>1. /\ pump' \in Pumps(tapped) /\ pump'.at # "idle"
          /\ pump.at = "idle" => pump'.at = "acknowledge" /\ ToSet(pump'.todo) \subseteq delivered
          /\ pump.at # "idle" => pump'.at = pump.at /\ pump'.todo = pump.todo /\ pump'.pending = TRUE
      BY <1>0, <2>0, <2>1, <2>5, <2>6, RequestFacts
    <3>2. TapType' /\ HeldInv'
      BY <1>0, <1>1, <1>2, <1>5, <2>0, <2>1, <2>4, <3>1 DEF TapType, HeldInv
    <3>3. BindingInv'
      BY <1>0, <1>1, <1>5, <1>9, <2>0 DEF BindingInv
    <3>4. pump.at = "idle" =>
             /\ \A i \in DOMAIN toNative : ~isAcknowledge(toNative[i])
             /\ \A j \in DOMAIN toJs' : ~isAnswer(toJs'[j])
      BY <1>0, <1>5 DEF PumpInv
    <3>5. PumpInv'
      <4>1. CASE pump.at = "idle"
        BY <1>1, <2>5, <3>1, <3>4, <4>1 DEF PumpInv
      <4>2. CASE pump.at # "idle"
        BY <1>0, <1>1, <1>5, <2>5, <3>1, <4>2 DEF PumpInv
      <4> QED
        BY <4>1, <4>2
    <3>6. \A x : scheduled(x)'
      <4>1. pump.at \in {"idle", "acknowledge", "deliver"}
        BY <1>0 DEF TapType, Pumps
      <4> QED
        BY <3>1, <4>1 DEF scheduled
    <3>7. FoundInv'
      <4>1. \A j \in DOMAIN toJs' : toJs'[j].is # "pending"
        BY <1>5, <1>9 DEF isOutcome
      <4>2. ASSUME NEW x \in tapped, owed(x)' PROVE underWay(x)' \/ known(entries', x)
        <5>1. underWay(x) \/ known(entries, x)
          BY <1>0, <1>7, <1>9, <4>2 DEF FoundInv
        <5>2. x \notin lost'
          BY <4>2 DEF owed
        <5> QED
          BY <1>5, <2>2, <2>3, <5>1, <5>2
      <4> QED
        BY <1>1, <3>6, <4>1, <4>2 DEF FoundInv
    <3>8. OnceInv'
      <4>1. \A i \in DOMAIN entries' : settled(entries'[i].id) => entries'[i].state # "buffered"
        BY <1>0, <1>2, <1>3, <2>1 DEF OnceInv
      <4>2. \A x \in tapped : settled(x) /\ ~known(entries', x) =>
              ~Contains(pending, x) /\ \A j \in DOMAIN toJs' : ~isEvent(toJs'[j], x)
        BY <1>0, <1>2, <2>2 DEF OnceInv
      <4>3. \A i, j \in DOMAIN toJs' : \A x \in tapped :
              settled(x) /\ toJs'[j].is = "acknowledged" /\ toJs'[j].ids[1] = x =>
                ~Contains(pending, x) /\ (isEvent(toJs'[i], x) => i < j)
        <5> SUFFICES ASSUME NEW i \in DOMAIN toJs', NEW j \in DOMAIN toJs', NEW x \in tapped,
                            settled(x), toJs'[j].is = "acknowledged", toJs'[j].ids[1] = x
                     PROVE  ~Contains(pending, x) /\ (isEvent(toJs'[i], x) => i < j)
          OBVIOUS
        <5>1. /\ i + 1 \in DOMAIN toJs /\ j + 1 \in DOMAIN toJs /\ i \in Nat /\ j \in Nat
              /\ toJs'[i] = toJs[i + 1] /\ toJs'[j] = toJs[j + 1]
          BY <1>2
        <5>2. ~Contains(pending, x) /\ (isEvent(toJs'[i], x) => i + 1 < j + 1)
          BY <1>0, <5>1 DEF OnceInv
        <5> QED
          BY <5>1, <5>2
      <4>4. pump'.at = "deliver" =>
              /\ \A i, j \in DOMAIN pump'.todo : pump'.todo[i] = pump'.todo[j] => i = j
              /\ \A i \in DOMAIN pump'.todo : known(entries', pump'.todo[i])
              /\ \A i \in DOMAIN pump'.todo : settled(pump'.todo[i]) =>
                   i = 1 /\ \/ \E j \in DOMAIN toNative : isAcknowledge(toNative[j])
                            \/ \E j \in DOMAIN toJs' : isAnswer(toJs'[j])
        BY <1>0, <1>5, <2>2, <3>1 DEF OnceInv
      <4> QED
        BY <1>0, <1>1, <1>6, <2>1, <4>1, <4>2, <4>3, <4>4 DEF OnceInv, known
    <3> QED
      BY <3>2, <3>3, <3>5, <3>7, <3>8 DEF TapInv
  <2>7. CASE entries' = entries
    <3>1. \A x \in tapped : isEvent(received, x) /\ owed(x)' => known(entries, x)
      BY <1>4, <2>3, <2>7 DEF owed
    <3> QED
      BY <1>0, <1>1, <1>9, <2>0, <2>4, <2>7, <3>1, PassKeeps
  <2> QED
    BY <2>6, <2>7
<1>10. CASE binding \notin {"installing", "bound"}
  <2>1. UNCHANGED <<entries, installing, pump, lost>>
    BY <1>10 DEF HearEvent
  <2> QED
    BY <1>1, <1>10, <2>1, PassKeeps
<1> QED
  BY <1>8, <1>9, <1>10

LEMMA ConsumedFacts ==
  ASSUME NEW T, received.ids \in Seq(T)
  PROVE  /\ consumed \in Seq(T)
         /\ \A i \in DOMAIN received.ids :
              Contains(installing, received.ids[i]) \/ \E k \in DOMAIN consumed : consumed[k] = received.ids[i]
<1> DEFINE r == received.ids
           P == {i \in DOMAIN r : ~Contains(installing, r[i])}
           t == only(r, P)
<1>1. r \in Seq(T) /\ P \in SUBSET DOMAIN r /\ consumed = t
  BY DEF consumed
<1>2. \A i \in DOMAIN r : i \in P \/ Contains(installing, r[i])
  OBVIOUS
<1> HIDE DEF P, r
<1>3. /\ t \in Seq(T)
      /\ \E f : /\ \A k \in DOMAIN t : f[k] \in P /\ t[k] = r[f[k]]
                /\ \A k, l \in DOMAIN t : f[k] = f[l] => k = l
                /\ \A i \in P : \E k \in DOMAIN t : f[k] = i
  BY <1>1, OnlyFacts
<1> HIDE DEF t
<1>4. \A i \in P : \E k \in DOMAIN t : t[k] = r[i]
  BY <1>3
<1> QED
  BY <1>1, <1>2, <1>3, <1>4 DEF r

\* What is installed: everything consumed or queued meanwhile, unless it is full.
LEMMA InstalledFacts ==
  ASSUME TapType, entries = <<>>, received.ids \in Seq(tapped)
  PROVE  /\ installed \in Seq(Entries(tapped)) /\ Len(installed) <= MAX_ACTIONS
         /\ \A i \in DOMAIN installed : installed[i].state = "buffered"
         /\ \A i, j \in DOMAIN installed : installed[i].id = installed[j].id => i = j
         /\ Len(installed) < MAX_ACTIONS =>
              \A x : Contains(received.ids, x) \/ Contains(installing, x) => known(installed, x)
<1> DEFINE c == consumed
           r == received.ids
           none == <<>>
           g == enqueue(none, c)
           h == enqueue(g, installing)
<1>0. /\ MAX_ACTIONS \in Nat /\ installing \in Seq(tapped)
      /\ none \in Seq(Entries(tapped)) /\ Len(none) <= MAX_ACTIONS
      /\ \A i, j \in DOMAIN none : none[i].id = none[j].id => i = j
  BY ActionsAssumption DEF TapType
<1>1. DOMAIN none = {} /\ r \in Seq(tapped)
  OBVIOUS
<1>4. /\ c \in Seq(tapped)
      /\ \A i \in DOMAIN r : Contains(installing, r[i]) \/ \E k \in DOMAIN c : c[k] = r[i]
  BY ConsumedFacts
<1>7. installed = h
  BY DEF installed
<1> HIDE DEF c, r, none
<1>5. /\ g \in Seq(Entries(tapped)) /\ Len(g) <= MAX_ACTIONS
      /\ \A i \in DOMAIN g : \/ i \in DOMAIN none /\ g[i] = none[i]
                             \/ /\ g[i].state = "buffered" /\ ~known(none, g[i].id)
                                /\ \E k \in DOMAIN c : c[k] = g[i].id
      /\ \A i, j \in DOMAIN g : g[i].id = g[j].id => i = j
      /\ Len(g) < MAX_ACTIONS => \A k \in DOMAIN c : known(g, c[k])
  BY <1>0, <1>4, EnqueueFacts
<1> HIDE DEF g
<1>6. /\ h \in Seq(Entries(tapped)) /\ Len(h) <= MAX_ACTIONS
      /\ \A i \in DOMAIN g : i \in DOMAIN h /\ h[i] = g[i]
      /\ \A i \in DOMAIN h : \/ i \in DOMAIN g /\ h[i] = g[i]
                             \/ /\ h[i].state = "buffered" /\ ~known(g, h[i].id)
                                /\ \E k \in DOMAIN installing : installing[k] = h[i].id
      /\ \A i, j \in DOMAIN h : h[i].id = h[j].id => i = j
      /\ Len(h) < MAX_ACTIONS => \A k \in DOMAIN installing : known(h, installing[k])
  BY <1>0, <1>5, EnqueueFacts
<1> HIDE DEF h
<1>8. \A i \in DOMAIN h : h[i].state = "buffered"
  BY <1>1, <1>5, <1>6
<1>9. Len(h) < MAX_ACTIONS => Len(g) < MAX_ACTIONS
  <2>1. Len(g) \in Nat /\ Len(h) \in Nat /\ (Len(g) = 0 \/ Len(g) \in DOMAIN g) /\ DOMAIN h = 1..Len(h)
    BY <1>5, <1>6
  <2>2. Len(g) <= Len(h)
    BY <1>6, <2>1
  <2> QED
    BY <1>0, <2>1, <2>2
<1>10. ASSUME Len(h) < MAX_ACTIONS, NEW x, Contains(r, x) \/ Contains(installing, x)
       PROVE  known(h, x)
  <2>1. CASE Contains(installing, x)
    <3>1. PICK k \in DOMAIN installing : installing[k] = x
      BY <1>0, <2>1, ContainsIsIn
    <3> QED
      BY <1>6, <1>10, <3>1
  <2>2. CASE Contains(r, x) /\ ~Contains(installing, x)
    <3>1. PICK i \in DOMAIN r : r[i] = x
      BY <1>1, <2>2, ContainsIsIn
    <3>2. PICK k \in DOMAIN c : c[k] = x
      BY <1>4, <2>2, <3>1
    <3>3. known(g, x)
      BY <1>5, <1>9, <1>10, <3>2
    <3> QED
      BY <1>6, <3>3 DEF known
  <2> QED
    BY <1>10, <2>1, <2>2
<1> QED
  BY <1>6, <1>7, <1>8, <1>10 DEF r

LEMMA HearPendingKeeps ==
  ASSUME TapInv, HearPending
  PROVE  TapInv'
<1>0. TapType /\ HeldInv /\ BindingInv /\ PumpInv /\ FoundInv /\ OnceInv
  BY DEF TapInv
<1>1. /\ hear("pending") /\ entries' = installed /\ drop(received.ids \o installing, entries')
      /\ installing' = <<>> /\ binding' = "bound" /\ requestPump(entries')
      /\ UNCHANGED <<pending, intent, emitting, retained, listening, toNative>>
      /\ UNCHANGED <<tapped, delivered, everDelivered, late>>
  BY DEF HearPending, nativeVars
<1>2. received = toJs[1] /\ 1 \in DOMAIN toJs /\ received.is = "pending" /\ toJs' \in Seq(Messages(tapped))
  BY <1>0, <1>1, HeardFacts
<1>3. binding = "installing" /\ toNative = <<>>
  BY <1>0, <1>2 DEF BindingInv, isOutcome
<1>4. entries = <<>> /\ pump.at = "idle" /\ delivered = {} /\ listening
  BY <1>0, <1>3 DEF BindingInv, Asking
<1>5. received.ids \in Seq(tapped) /\ installing \in Seq(tapped)
  BY <1>0, <1>2, ElementTypes DEF TapType
<1>6. /\ entries' \in Seq(Entries(tapped)) /\ Len(entries') <= MAX_ACTIONS
      /\ \A i \in DOMAIN entries' : entries'[i].state = "buffered"
      /\ \A i, j \in DOMAIN entries' : entries'[i].id = entries'[j].id => i = j
      /\ Len(entries') < MAX_ACTIONS =>
           \A x : Contains(received.ids, x) \/ Contains(installing, x) => known(entries', x)
  BY <1>0, <1>1, <1>4, <1>5, InstalledFacts
<1>7. /\ \A j \in DOMAIN toJs' : ~isOutcome(toJs'[j]) /\ Len(toJs'[j].ids) = 1
      /\ \A j \in DOMAIN toJs' : ~isAnswer(toJs'[j])
  <2>1. pump.todo = <<>>
    BY <1>0, <1>4 DEF PumpInv
  <2> QED
    BY <1>1, <2>1, HeardKeeps
<1>8. pump' \in Pumps(tapped) /\ pump'.at = "acknowledge" /\ ToSet(pump'.todo) \subseteq delivered
  BY <1>0, <1>1, <1>4, <1>6, RequestFacts
<1>9. /\ lost \subseteq lost'
      /\ \A x : Contains(received.ids, x) \/ Contains(installing, x) => known(entries', x) \/ x \in lost'
  <2>1. CASE Len(entries') < MAX_ACTIONS
    BY <1>1, <1>6, <2>1 DEF drop
  <2>2. CASE ~(Len(entries') < MAX_ACTIONS)
    <3>1. lost' = lost \cup (ToSet(received.ids \o installing) \ ToSet(ids(entries')))
      BY <1>1, <2>2 DEF drop
    <3>2. \A x : Contains(received.ids, x) \/ Contains(installing, x) => x \in ToSet(received.ids \o installing)
      <4>1. /\ \A i \in DOMAIN received.ids : /\ i \in DOMAIN (received.ids \o installing)
                                              /\ (received.ids \o installing)[i] = received.ids[i]
            /\ \A i \in DOMAIN installing :
                 /\ i + Len(received.ids) \in DOMAIN (received.ids \o installing)
                 /\ (received.ids \o installing)[i + Len(received.ids)] = installing[i]
        BY <1>5
      <4> QED
        BY <1>5, <4>1, ContainsIsIn DEF ToSet
    <3>3. \A x \in ToSet(ids(entries')) : known(entries', x)
      BY DEF ToSet, ids, known
    <3> QED
      BY <3>1, <3>2, <3>3
  <2> QED
    BY <2>1, <2>2
<1>10. TapType' /\ HeldInv'
  BY <1>0, <1>1, <1>2, <1>6, <1>7, <1>8, <1>9 DEF TapType, HeldInv
<1>11. BindingInv'
  BY <1>1, <1>3, <1>4, <1>7 DEF BindingInv
<1>12. PumpInv'
  BY <1>1, <1>3, <1>6, <1>7, <1>8 DEF PumpInv
<1>13. FoundInv'
  <2>1. ASSUME NEW x \in tapped, owed(x)'
        PROVE  underWay(x)' \/ known(entries', x)
    <3>1. owed(x) /\ x \notin lost'
      BY <1>1, <1>9, <2>1 DEF owed
    <3>2. underWay(x) \/ Contains(installing, x) \/ Contains(received.ids, x)
      BY <1>0, <1>2, <3>1 DEF FoundInv
    <3>3. underWay(x) => underWay(x)'
      BY <1>1, <1>2, HeardKeeps DEF isEvent
    <3> QED
      BY <1>9, <3>1, <3>2, <3>3
  <2> QED
    BY <1>1, <1>7, <1>8, <2>1 DEF FoundInv, scheduled, isOutcome
<1>14. OnceInv'
  BY <1>0, <1>1, <1>4, <1>6, <1>8 DEF OnceInv, settled
<1> QED
  BY <1>10, <1>11, <1>12, <1>13, <1>14 DEF TapInv

\* What an answer leaves of the entries: all of them, or all but that of its id.
LEMMA RemainingFacts ==
  ASSUME TapType, NEW id, \A i, j \in DOMAIN entries : entries[i].id = entries[j].id => i = j
  PROVE  LET es == remaining(entries, id) IN
         /\ es \in Seq(Entries(tapped)) /\ Len(es) <= MAX_ACTIONS
         /\ \A k \in DOMAIN es : \E i \in DOMAIN entries : es[k] = entries[i]
         /\ \A i, j \in DOMAIN es : es[i].id = es[j].id => i = j
         /\ \A x : x # id /\ known(entries, x) => known(es, x)
<1> DEFINE P == {i \in DOMAIN entries : entries[i].id # id}
           t == only(entries, P)
           es == remaining(entries, id)
<1>0. entries \in Seq(Entries(tapped)) /\ Len(entries) <= MAX_ACTIONS /\ MAX_ACTIONS \in Nat
  BY ActionsAssumption DEF TapType
<1>1. P \in SUBSET DOMAIN entries /\ (es = entries \/ es = t)
  BY DEF remaining
<1>2. \A i \in DOMAIN entries : entries[i].id = id \/ i \in P
  OBVIOUS
<1> HIDE DEF P
<1>3. /\ t \in Seq(Entries(tapped)) /\ Len(t) <= Len(entries)
      /\ \E f : /\ \A k \in DOMAIN t : f[k] \in P /\ t[k] = entries[f[k]]
                /\ \A k, l \in DOMAIN t : f[k] = f[l] => k = l
                /\ \A i \in P : \E k \in DOMAIN t : f[k] = i
  BY <1>0, <1>1, OnlyFacts
<1> HIDE DEF t, es
<1>4. PICK f : /\ \A k \in DOMAIN t : f[k] \in P /\ t[k] = entries[f[k]]
               /\ \A k, l \in DOMAIN t : f[k] = f[l] => k = l
               /\ \A i \in P : \E k \in DOMAIN t : f[k] = i
  BY <1>3
<1>5. CASE es = entries
  BY <1>0, <1>5 DEF es
<1>6. CASE es = t
  <2>1. Len(t) <= MAX_ACTIONS
    <3>1. Len(t) \in Nat /\ Len(entries) \in Nat
      BY <1>0, <1>3
    <3> QED
      BY <1>0, <1>3, <3>1
  <2>2. \A k \in DOMAIN t : \E i \in DOMAIN entries : t[k] = entries[i]
    BY <1>1, <1>4
  <2>3. ASSUME NEW k \in DOMAIN t, NEW l \in DOMAIN t, t[k].id = t[l].id
        PROVE  k = l
    <3>1. f[k] \in DOMAIN entries /\ f[l] \in DOMAIN entries /\ entries[f[k]].id = entries[f[l]].id
      BY <1>1, <1>4, <2>3
    <3> QED
      BY <1>4, <2>3, <3>1
  <2>4. ASSUME NEW x, x # id, known(entries, x)
        PROVE  known(t, x)
    <3>1. PICK i \in DOMAIN entries : entries[i].id = x
      BY <2>4 DEF known
    <3>2. PICK k \in DOMAIN t : f[k] = i
      BY <1>2, <1>4, <2>4, <3>1
    <3> QED
      BY <1>4, <3>1, <3>2 DEF known
  <2> QED
    BY <1>3, <1>6, <2>1, <2>2, <2>3, <2>4 DEF es
<1> QED
  BY <1>1, <1>5, <1>6

LEMMA HearAcknowledgedKeeps ==
  ASSUME TapInv, HearAcknowledged
  PROVE  TapInv'
<1>0. TapType /\ HeldInv /\ BindingInv /\ PumpInv /\ FoundInv /\ OnceInv
  BY DEF TapInv
<1> DEFINE id == received.ids[1]
<1>1. /\ hear("acknowledged") \/ hear("rejected")
      /\ entries' = remaining(entries, id) /\ pump' = [pump EXCEPT !.todo = Tail(@)]
      /\ UNCHANGED <<pending, intent, emitting, retained, listening, toNative, installing, binding>>
      /\ UNCHANGED <<tapped, delivered, everDelivered, lost, late>>
  BY DEF HearAcknowledged, nativeVars, tapHistory, pumpOn
<1>2. /\ received = toJs[1] /\ 1 \in DOMAIN toJs /\ received.is \in {"acknowledged", "rejected"}
      /\ toJs' \in Seq(Messages(tapped))
      /\ \A i \in DOMAIN toJs' : i \in Nat \ {0} /\ i + 1 \in DOMAIN toJs /\ toJs'[i] = toJs[i + 1]
  BY <1>0, <1>1, HeardFacts
<1>3. isAnswer(received) /\ \A x : ~isEvent(received, x)
  BY <1>2 DEF isAnswer, isEvent
<1>4. pump.todo # <<>> /\ id = pump.todo[1] /\ id \in delivered /\ pump.at # "idle"
  BY <1>0, <1>2, <1>3 DEF PumpInv
<1>5. /\ \A j \in DOMAIN toJs' : ~isOutcome(toJs'[j]) => Len(toJs'[j].ids) = 1
      /\ \A j \in DOMAIN toJs' : isOutcome(toJs'[j]) => binding = "installing" /\ toNative = <<>>
      /\ \A j \in DOMAIN toJs' : ~isAnswer(toJs'[j])
      /\ \A x : underWay(x) => underWay(x)'
  BY <1>1, <1>3, HeardKeeps
<1>6. binding = "bound" /\ \A j \in DOMAIN toJs' : ~isOutcome(toJs'[j])
  <2>1. binding # "none" /\ binding # "installing" /\ binding # "failed"
    BY <1>0, <1>2, <1>4 DEF BindingInv, Asking
  <2> QED
    BY <1>0, <1>5, <2>1 DEF TapType
<1>7. \A i \in DOMAIN toNative : ~isAcknowledge(toNative[i])
  BY <1>0, <1>2, <1>3 DEF PumpInv
<1>8. /\ entries' \in Seq(Entries(tapped)) /\ Len(entries') <= MAX_ACTIONS
      /\ \A k \in DOMAIN entries' : \E i \in DOMAIN entries : entries'[k] = entries[i]
      /\ \A i, j \in DOMAIN entries' : entries'[i].id = entries'[j].id => i = j
      /\ \A x : x # id /\ known(entries, x) => known(entries', x)
  <2> DEFINE es == remaining(entries, id)
  <2>1. \A i, j \in DOMAIN entries : entries[i].id = entries[j].id => i = j
    BY <1>0 DEF OnceInv
  <2>2. /\ es \in Seq(Entries(tapped)) /\ Len(es) <= MAX_ACTIONS
        /\ \A k \in DOMAIN es : \E i \in DOMAIN entries : es[k] = entries[i]
        /\ \A i, j \in DOMAIN es : es[i].id = es[j].id => i = j
        /\ \A x : x # id /\ known(entries, x) => known(es, x)
    BY <1>0, <2>1, RemainingFacts
  <2>3. entries' = es
    BY <1>1
  <2> HIDE DEF es
  <2> QED
    BY <2>2, <2>3
<1>9. received.is # "acknowledged" => entries' = entries
  BY <1>1 DEF remaining
<1> HIDE DEF id
<1>10. /\ pump' \in Pumps(tapped) /\ pump'.at = pump.at /\ pump'.pending = pump.pending
       /\ pump'.todo = Tail(pump.todo)
       /\ \A i \in DOMAIN pump'.todo : /\ i \in Nat \ {0} /\ i + 1 \in DOMAIN pump.todo
                                       /\ pump'.todo[i] = pump.todo[i + 1]
       /\ \A i \in DOMAIN pump.todo : \/ i = 1
                                      \/ i - 1 \in DOMAIN pump'.todo /\ pump'.todo[i - 1] = pump.todo[i]
  <2>1. pump \in Pumps(tapped) /\ pump.todo \in Seq(tapped)
    BY <1>0, ElementTypes DEF TapType
  <2>2. pump'.at = pump.at /\ pump'.pending = pump.pending /\ pump'.todo = Tail(pump.todo)
    BY <1>1, <2>1 DEF Pumps
  <2>3. Tail(pump.todo) \in Seq(tapped)
    BY <1>4, <2>1, TailFacts
  <2>4. pump' \in Pumps(tapped)
    BY <1>1, <2>1, <2>3 DEF Pumps
  <2> QED
    BY <1>4, <2>1, <2>2, <2>4, TailFacts
<1>11. TapType' /\ HeldInv'
  BY <1>0, <1>1, <1>2, <1>5, <1>8, <1>10 DEF TapType, HeldInv
<1>12. BindingInv'
  BY <1>0, <1>1, <1>6 DEF BindingInv
<1>13. PumpInv'
  <2>1. \A i \in DOMAIN entries' : entries'[i].state = "delivered-awaiting-ack" => entries'[i].id \in delivered
    BY <1>0, <1>8 DEF PumpInv
  <2>2. pump.at = "acknowledge" => ToSet(pump'.todo) \subseteq delivered
    BY <1>0, <1>10 DEF PumpInv, ToSet
  <2> QED
    BY <1>1, <1>4, <1>5, <1>7, <1>10, <2>1, <2>2 DEF PumpInv
<1>14. FoundInv'
  <2>1. ASSUME NEW x \in tapped, owed(x)'
        PROVE  /\ underWay(x)' \/ known(entries', x)
               /\ known(entries', x) => scheduled(x)'
    <3>1. owed(x) /\ x # id
      BY <1>0, <1>1, <1>4, <2>1 DEF owed, HeldInv
    <3>2. known(entries', x) => known(entries, x)
      BY <1>8 DEF known
    <3>3. scheduled(x) => scheduled(x)'
      <4>1. x \in ToSet(pump.todo) => x \in ToSet(pump'.todo)
        BY <1>4, <1>10, <3>1 DEF ToSet
      <4> QED
        BY <1>10, <4>1 DEF scheduled
    <3> QED
      BY <1>0, <1>5, <1>6, <1>8, <3>1, <3>2, <3>3 DEF FoundInv
  <2> QED
    BY <1>1, <1>6, <2>1 DEF FoundInv, isOutcome
<1>15. OnceInv'
  <2>1. \A i \in DOMAIN entries' : settled(entries'[i].id) => entries'[i].state # "buffered"
    BY <1>0, <1>8 DEF OnceInv
  <2>2. ASSUME NEW x \in tapped, settled(x), ~known(entries', x)
        PROVE  ~Contains(pending, x) /\ \A j \in DOMAIN toJs' : ~isEvent(toJs'[j], x)
    <3>1. CASE ~known(entries, x)
      BY <1>0, <1>2, <2>2, <3>1 DEF OnceInv
    <3>2. CASE known(entries, x)
      <4>1. x = id /\ received.is = "acknowledged"
        BY <1>8, <1>9, <2>2, <3>2
      <4>2. ~Contains(pending, x) /\ \A i \in DOMAIN toJs : isEvent(toJs[i], x) => i < 1
        BY <1>0, <1>2, <2>2, <4>1 DEF OnceInv, id
      <4>3. \A i \in DOMAIN toJs' : ~(i + 1 < 1)
        BY <1>2
      <4> QED
        BY <1>2, <4>2, <4>3
    <3> QED
      BY <3>1, <3>2
  <2>3. \A j \in DOMAIN toJs' : toJs'[j].is # "acknowledged"
    BY <1>5 DEF isAnswer
  <2>4. ASSUME pump.at = "deliver"
        PROVE  /\ \A i, j \in DOMAIN pump'.todo : pump'.todo[i] = pump'.todo[j] => i = j
               /\ \A i \in DOMAIN pump'.todo : known(entries', pump'.todo[i])
               /\ \A i \in DOMAIN pump'.todo : ~settled(pump'.todo[i])
    <3>0. /\ \A i, j \in DOMAIN pump.todo : pump.todo[i] = pump.todo[j] => i = j
          /\ \A i \in DOMAIN pump.todo : known(entries, pump.todo[i])
          /\ \A i \in DOMAIN pump.todo : settled(pump.todo[i]) => i = 1
      BY <1>0, <2>4 DEF OnceInv
    <3>1. \A i \in DOMAIN pump'.todo : i + 1 # 1
      BY <1>10
    <3>2. \A i, j \in DOMAIN pump'.todo : i + 1 = j + 1 => i = j
      BY <1>10
    <3>3. 1 \in DOMAIN pump.todo
      BY <1>0, <1>4, ElementTypes
    <3>4. \A i \in DOMAIN pump'.todo : pump'.todo[i] # id
      BY <1>4, <1>10, <3>0, <3>1, <3>3
    <3> QED
      BY <1>8, <1>10, <3>0, <3>1, <3>2, <3>4
  <2> QED
    BY <1>0, <1>1, <1>8, <1>10, <2>1, <2>2, <2>3, <2>4 DEF OnceInv, settled, known
<1> QED
  BY <1>11, <1>12, <1>13, <1>14, <1>15 DEF TapInv

-----------------------------------------------------------------------------
(* The pump keeps the invariant. *)

\* The pump at work: the binding holds, and only acknowledgements are called.
LEMMA PumpFacts ==
  ASSUME TapInv, pump.at # "idle"
  PROVE  /\ binding = "bound" /\ toNative \in Seq(PluginCalls(tapped))
         /\ \A i \in DOMAIN toNative : isAcknowledge(toNative[i])
         /\ \A j \in DOMAIN toJs : ~isOutcome(toJs[j])
<1>1. TapType /\ BindingInv
  BY DEF TapInv
<1>2. binding # "none" /\ binding # "installing" /\ binding # "failed"
  BY <1>1 DEF BindingInv, Asking
<1> QED
  BY <1>1, <1>2 DEF TapType, BindingInv

\* When the entry the pump is at is not awaited, no acknowledgement is on its way.
LEMMA NothingAwaited ==
  ASSUME TapInv, pump.todo = <<>> \/ ~awaiting(pump.todo[1])
  PROVE  /\ \A i \in DOMAIN toNative : ~isAcknowledge(toNative[i])
         /\ \A j \in DOMAIN toJs : ~isAnswer(toJs[j])
<1>0. TapType /\ PumpInv
  BY DEF TapInv
<1>1. ASSUME NEW i \in DOMAIN toNative, isAcknowledge(toNative[i])
      PROVE  FALSE
  <2>1. pump.todo # <<>> /\ toNative[i].id = pump.todo[1]
    BY <1>0, <1>1 DEF PumpInv
  <2>2. toNative[i] \in PluginCalls(tapped)
    <3>1. toNative \in Seq(PluginCalls(tapped))
      BY <1>0 DEF TapType
    <3> QED
      BY <3>1
  <2>3. toNative[i] = call("acknowledge", pump.todo[1])
    BY <1>1, <2>1, <2>2 DEF PluginCalls, call, isAcknowledge
  <2> QED
    BY <2>1, <2>3 DEF awaiting
<1>2. ASSUME NEW j \in DOMAIN toJs, isAnswer(toJs[j])
      PROVE  FALSE
  <2>1. pump.todo # <<>> /\ toJs[j].ids[1] = pump.todo[1]
    BY <1>0, <1>2 DEF PumpInv
  <2>2. toJs[j].ids \in Seq(tapped) /\ Len(toJs[j].ids) = 1
    BY <1>0, <1>2, ElementTypes DEF TapType, isAnswer, isOutcome
  <2>3. toJs[j].ids = <<pump.todo[1]>>
    <3> DEFINE s == toJs[j].ids
    <3>1. s \in Seq(tapped) /\ Len(s) = 1 /\ s[1] = pump.todo[1]
      BY <2>1, <2>2
    <3> HIDE DEF s
    <3>2. s = <<pump.todo[1]>>
      BY <3>1
    <3> QED
      BY <3>2 DEF s
  <2> QED
    BY <1>2, <2>1, <2>3 DEF awaiting, isAnswer
<1> QED
  BY <1>1, <1>2

\* The pump asks for one acknowledgement more when none is on its way.
LEMMA AcknowledgeFacts ==
  ASSUME TapInv, pump.at # "idle", pump.todo # <<>>, ~awaiting(Head(pump.todo)), acknowledge(Head(pump.todo))
  PROVE  /\ Head(pump.todo) = pump.todo[1] /\ pump.todo[1] \in tapped /\ 1 \in DOMAIN pump.todo
         /\ toNative' \in Seq(PluginCalls(tapped))
         /\ \A i \in DOMAIN toNative' : i = 1 /\ isAcknowledge(toNative'[i]) /\ toNative'[i].id = pump.todo[1]
         /\ 1 \in DOMAIN toNative'
         /\ \A j \in DOMAIN toJs : ~isAnswer(toJs[j])
<1>0. TapType
  BY DEF TapInv
<1>1. Head(pump.todo) = pump.todo[1] /\ pump.todo[1] \in tapped /\ 1 \in DOMAIN pump.todo
  BY <1>0, ElementTypes, TailFacts
<1>2. ~awaiting(pump.todo[1])
  BY <1>1
<1>3. /\ \A i \in DOMAIN toNative : ~isAcknowledge(toNative[i])
      /\ \A j \in DOMAIN toJs : ~isAnswer(toJs[j])
  BY <1>2, NothingAwaited
<1>4. toNative \in Seq(PluginCalls(tapped)) /\ DOMAIN toNative = {}
  BY <1>3, PumpFacts
<1>5. toNative = <<>>
  <2> DEFINE C == PluginCalls(tapped)
  <2> HIDE DEF C
  <2>1. toNative \in Seq(C) /\ DOMAIN toNative = {}
    BY <1>4 DEF C
  <2> QED
    BY <2>1
<1> DEFINE c == call("acknowledge", pump.todo[1])
<1>6. c \in PluginCalls(tapped) /\ isAcknowledge(c) /\ c.id = pump.todo[1]
  BY <1>1 DEF PluginCalls, call, isAcknowledge
<1>7. toNative' = Append(toNative, c)
  BY <1>1 DEF acknowledge
<1> HIDE DEF c
<1>8. toNative' = <<c>>
  BY <1>5, <1>7
<1> QED
  BY <1>1, <1>3, <1>6, <1>8

LEMMA PumpAcknowledgeKeeps ==
  ASSUME TapInv, PumpAcknowledge
  PROVE  TapInv'
<1>0. TapType /\ HeldInv /\ BindingInv /\ PumpInv /\ FoundInv /\ OnceInv
  BY DEF TapInv
<1>1. /\ pump.at = "acknowledge" /\ pump.todo # <<>>
      /\ ~awaiting(Head(pump.todo)) /\ acknowledge(Head(pump.todo))
      /\ UNCHANGED <<pending, intent, emitting, retained, listening, toJs, entries, installing, binding, pump>>
      /\ UNCHANGED <<tapped, delivered, everDelivered, lost, late>>
  BY DEF PumpAcknowledge, nativeVars, adapterVars, tapHistory
<1>2. /\ pump.todo[1] \in tapped /\ 1 \in DOMAIN pump.todo
      /\ toNative' \in Seq(PluginCalls(tapped))
      /\ \A i \in DOMAIN toNative' : i = 1 /\ isAcknowledge(toNative'[i]) /\ toNative'[i].id = pump.todo[1]
      /\ \A j \in DOMAIN toJs : ~isAnswer(toJs[j])
  BY <1>1, AcknowledgeFacts
<1>3. binding = "bound" /\ \A j \in DOMAIN toJs : ~isOutcome(toJs[j])
  BY <1>1, PumpFacts
<1>4. TapType' /\ HeldInv'
  BY <1>0, <1>1, <1>2 DEF TapType, HeldInv
<1>5. BindingInv'
  BY <1>0, <1>1, <1>2, <1>3 DEF BindingInv
<1>6. PumpInv'
  <2>1. pump.todo[1] \in delivered
    BY <1>0, <1>1, <1>2 DEF PumpInv, ToSet
  <2> QED
    BY <1>0, <1>1, <1>2, <2>1 DEF PumpInv
<1>7. FoundInv'
  BY <1>0, <1>1, <1>3 DEF FoundInv, owed, underWay, scheduled, known
<1>8. OnceInv'
  BY <1>0, <1>1 DEF OnceInv, settled, known
<1> QED
  BY <1>4, <1>5, <1>6, <1>7, <1>8 DEF TapInv

LEMMA SetStateFacts ==
  ASSUME NEW T, NEW es \in Seq(Entries(T)), NEW id, NEW state \in {"buffered", "delivered-awaiting-ack"}
  PROVE  LET new == setState(es, id, state) IN
         /\ new \in Seq(Entries(T)) /\ Len(new) = Len(es) /\ DOMAIN new = DOMAIN es
         /\ \A i \in DOMAIN es : new[i].id = es[i].id
         /\ \A i \in DOMAIN es : new[i].state = IF es[i].id = id THEN state ELSE es[i].state
<1> DEFINE new == setState(es, id, state)
<1>1. Len(es) \in Nat /\ DOMAIN es = 1..Len(es) /\ \A i \in 1..Len(es) : es[i] \in Entries(T)
  <2> DEFINE E == Entries(T)
  <2> HIDE DEF E
  <2>1. es \in Seq(E)
    BY DEF E
  <2>2. Len(es) \in Nat /\ DOMAIN es = 1..Len(es) /\ \A i \in 1..Len(es) : es[i] \in E
    BY <2>1
  <2> QED
    BY <2>2 DEF E
<1>2. \A i \in 1..Len(es) : new[i] = IF es[i].id = id THEN [es[i] EXCEPT !.state = state] ELSE es[i]
  BY <1>1 DEF setState
<1>3. \A i \in 1..Len(es) : /\ new[i] \in Entries(T) /\ new[i].id = es[i].id
                            /\ new[i].state = IF es[i].id = id THEN state ELSE es[i].state
  BY <1>1, <1>2 DEF Entries
<1>4. new \in [1..Len(es) -> Entries(T)]
  <2>1. new = [i \in 1..Len(es) |-> IF es[i].id = id THEN [es[i] EXCEPT !.state = state] ELSE es[i]]
    BY <1>1 DEF setState
  <2> HIDE DEF new
  <2> QED
    BY <1>3, <2>1
<1> HIDE DEF new
<1>5. new \in Seq(Entries(T)) /\ Len(new) = Len(es) /\ DOMAIN new = DOMAIN es
  <2> DEFINE E == Entries(T)
  <2> HIDE DEF E
  <2>1. new \in [1..Len(es) -> E]
    BY <1>4 DEF E
  <2>2. new \in Seq(E) /\ Len(new) = Len(es) /\ DOMAIN new = 1..Len(es)
    BY <1>1, <2>1
  <2> QED
    BY <1>1, <2>2 DEF E
<1> QED
  BY <1>1, <1>3, <1>5 DEF new

LEMMA PumpDeliverKeeps ==
  ASSUME TapInv, PumpDeliver
  PROVE  TapInv'
<1>0. TapType /\ HeldInv /\ BindingInv /\ PumpInv /\ FoundInv /\ OnceInv
  BY DEF TapInv
<1> DEFINE id == pump.todo[1]
<1>1. /\ pump.at = "deliver" /\ pump.todo # <<>>
      /\ ~awaiting(Head(pump.todo)) /\ acknowledge(Head(pump.todo))
      /\ entries' = setState(entries, Head(pump.todo), "delivered-awaiting-ack")
      /\ delivered' = delivered \cup {Head(pump.todo)}
      /\ everDelivered' = everDelivered \cup {Head(pump.todo)}
      /\ UNCHANGED <<pending, intent, emitting, retained, listening, toJs, installing, binding, pump>>
      /\ UNCHANGED <<tapped, lost, late>>
  BY DEF PumpDeliver, nativeVars, tapHistory
<1>2. /\ Head(pump.todo) = id /\ id \in tapped /\ 1 \in DOMAIN pump.todo
      /\ toNative' \in Seq(PluginCalls(tapped)) /\ 1 \in DOMAIN toNative'
      /\ \A i \in DOMAIN toNative' : i = 1 /\ isAcknowledge(toNative'[i]) /\ toNative'[i].id = id
      /\ \A j \in DOMAIN toJs : ~isAnswer(toJs[j])
  BY <1>1, AcknowledgeFacts
<1>3. binding = "bound" /\ \A j \in DOMAIN toJs : ~isOutcome(toJs[j])
  BY <1>1, PumpFacts
<1>4. /\ entries' \in Seq(Entries(tapped)) /\ Len(entries') = Len(entries) /\ DOMAIN entries' = DOMAIN entries
      /\ \A i \in DOMAIN entries : entries'[i].id = entries[i].id
      /\ \A i \in DOMAIN entries :
           entries'[i].state = IF entries[i].id = id THEN "delivered-awaiting-ack" ELSE entries[i].state
  <2> DEFINE es == setState(entries, id, "delivered-awaiting-ack")
  <2>1. /\ es \in Seq(Entries(tapped)) /\ Len(es) = Len(entries) /\ DOMAIN es = DOMAIN entries
        /\ \A i \in DOMAIN entries : es[i].id = entries[i].id
        /\ \A i \in DOMAIN entries :
             es[i].state = IF entries[i].id = id THEN "delivered-awaiting-ack" ELSE entries[i].state
    BY <1>0, SetStateFacts DEF TapType
  <2>2. entries' = es
    BY <1>1, <1>2
  <2> HIDE DEF es
  <2> QED
    BY <2>1, <2>2
<1>5. \A x : known(entries', x) <=> known(entries, x)
  BY <1>4 DEF known
<1>6. delivered' = delivered \cup {id} /\ everDelivered' = everDelivered \cup {id}
  BY <1>1, <1>2
<1>7. \A x : settled(x)' => settled(x) \/ x = id
  BY <1>1, <1>6 DEF settled
<1> HIDE DEF id
<1>8. TapType' /\ HeldInv'
  <2>1. delivered' \subseteq tapped
    BY <1>0, <1>2, <1>6 DEF TapType
  <2> QED
    BY <1>0, <1>1, <1>2, <1>4, <1>6, <2>1 DEF TapType, HeldInv
<1>9. BindingInv'
  BY <1>0, <1>1, <1>2, <1>3 DEF BindingInv
<1>10. PumpInv'
  <2>1. \A i \in DOMAIN entries' : entries'[i].state = "delivered-awaiting-ack" => entries'[i].id \in delivered'
    BY <1>0, <1>4, <1>6 DEF PumpInv
  <2>2. \A i \in DOMAIN toNative' : pump.todo # <<>> /\ toNative'[i].id = pump.todo[1] /\ pump.todo[1] \in delivered'
    BY <1>1, <1>2, <1>6 DEF id
  <2>3. \A i, j \in DOMAIN toNative' : i = j
    BY <1>2
  <2> QED
    BY <1>0, <1>1, <1>2, <2>1, <2>2, <2>3 DEF PumpInv
<1>11. FoundInv'
  <2>1. \A x \in tapped : owed(x)' => owed(x)
    BY <1>1, <1>6 DEF owed
  <2>2. ASSUME NEW x \in tapped, owed(x)'
        PROVE  /\ underWay(x)' \/ known(entries', x)
               /\ known(entries', x) => scheduled(x)'
    <3>1. underWay(x) => underWay(x)'
      BY <1>1 DEF underWay
    <3>2. scheduled(x) => scheduled(x)'
      BY <1>1 DEF scheduled
    <3> QED
      BY <1>0, <1>3, <1>5, <2>1, <2>2, <3>1, <3>2 DEF FoundInv
  <2> QED
    BY <1>1, <1>3, <2>2 DEF FoundInv, isOutcome
<1>12. OnceInv'
  <2>0. /\ \A i, j \in DOMAIN pump.todo : pump.todo[i] = pump.todo[j] => i = j
        /\ \A i \in DOMAIN pump.todo : known(entries, pump.todo[i])
        /\ \A i \in DOMAIN pump.todo : settled(pump.todo[i]) => i = 1
    BY <1>0, <1>1 DEF OnceInv
  <2>1. known(entries, id)
    BY <1>2, <2>0 DEF id
  <2>2. \A i \in DOMAIN entries' : \A x : settled(x)' /\ x = entries'[i].id => entries'[i].state # "buffered"
    <3>1. \A i \in DOMAIN entries : settled(entries[i].id) => entries[i].state # "buffered"
      BY <1>0 DEF OnceInv
    <3> QED
      BY <1>4, <1>7, <3>1
  <2>3. \A x \in tapped : settled(x)' /\ ~known(entries', x) =>
          ~Contains(pending, x) /\ \A j \in DOMAIN toJs : ~isEvent(toJs[j], x)
    BY <1>0, <1>5, <1>7, <2>1 DEF OnceInv
  <2>4. \A j \in DOMAIN toJs : toJs[j].is # "acknowledged"
    BY <1>2 DEF isAnswer
  <2>5. \A i \in DOMAIN pump'.todo : \A x : settled(x)' /\ x = pump'.todo[i] => i = 1
    BY <1>1, <1>2, <1>7, <2>0 DEF id
  <2>6. \A i, j \in DOMAIN entries' : entries'[i].id = entries'[j].id => i = j
    BY <1>0, <1>4 DEF OnceInv
  <2>7. \A i, j \in DOMAIN pending : pending[i] = pending[j] => i = j
    BY <1>0 DEF OnceInv
  <2> QED
    BY <1>1, <1>2, <1>5, <2>0, <2>2, <2>3, <2>4, <2>5, <2>6, <2>7 DEF OnceInv
<1> QED
  BY <1>8, <1>9, <1>10, <1>11, <1>12 DEF TapInv

LEMMA PumpTurnsKeeps ==
  ASSUME TapInv, PumpTurns
  PROVE  TapInv'
<1>0. TapType /\ HeldInv /\ BindingInv /\ PumpInv /\ FoundInv /\ OnceInv
  BY DEF TapInv
<1>1. /\ pump.at # "idle" /\ pump.todo = <<>>
      /\ UNCHANGED <<pending, intent, emitting, retained, listening, toNative, toJs, entries, installing, binding>>
      /\ UNCHANGED <<tapped, delivered, everDelivered, lost, late>>
  BY DEF PumpTurns, nativeVars, bridgeVars, tapHistory
<1>2. binding = "bound" /\ \A j \in DOMAIN toJs : ~isOutcome(toJs[j])
  BY <1>1, PumpFacts
<1>3. /\ \A i \in DOMAIN toNative : ~isAcknowledge(toNative[i])
      /\ \A j \in DOMAIN toJs : ~isAnswer(toJs[j])
  BY <1>1, NothingAwaited
<1>4. pump \in Pumps(tapped) /\ entries \in Seq(Entries(tapped))
  BY <1>0 DEF TapType
<1> DEFINE awaited == inState(entries, "delivered-awaiting-ack")
           buffered == inState(entries, "buffered")
<1>5. /\ awaited \in Seq(tapped) /\ buffered \in Seq(tapped)
      /\ \A k \in DOMAIN awaited :
           \E i \in DOMAIN entries : entries[i].id = awaited[k] /\ entries[i].state = "delivered-awaiting-ack"
      /\ \A k \in DOMAIN buffered :
           \E i \in DOMAIN entries : entries[i].id = buffered[k] /\ entries[i].state = "buffered"
      /\ \A i \in DOMAIN entries : entries[i].state = "buffered" => \E k \in DOMAIN buffered : buffered[k] = entries[i].id
      /\ \A k, l \in DOMAIN buffered : buffered[k] = buffered[l] => k = l
  BY <1>0, <1>4, InStateFacts DEF OnceInv
<1>6. ToSet(awaited) \subseteq delivered
  BY <1>0, <1>5 DEF PumpInv, ToSet
<1>7. \A i \in DOMAIN entries : entries[i].state \in {"buffered", "delivered-awaiting-ack"}
  <2>1. \A i \in DOMAIN entries : entries[i] \in Entries(tapped)
    BY <1>4
  <2> QED
    BY <2>1 DEF Entries
<1>8. \/ /\ pump.at = "acknowledge"
         /\ pump' = [at |-> "deliver", todo |-> buffered, pending |-> pump.pending]
      \/ /\ pump.at = "deliver" /\ pump.pending
         /\ pump' = [at |-> "acknowledge", todo |-> awaited, pending |-> FALSE]
      \/ pump.at = "deliver" /\ ~pump.pending /\ pump' = [at |-> "idle", todo |-> <<>>, pending |-> FALSE]
  BY <1>1, <1>4 DEF PumpTurns, Pumps, startPump, idle
<1> HIDE DEF awaited, buffered
<1>9. \/ /\ pump.at = "acknowledge" /\ pump'.at = "deliver" /\ pump'.todo = buffered
      \/ /\ pump.at = "deliver" /\ pump.pending /\ pump'.at = "acknowledge" /\ pump'.todo = awaited
      \/ /\ pump.at = "deliver" /\ ~pump.pending /\ pump'.at = "idle" /\ pump'.todo = <<>>
  BY <1>8
<1>10. pump' \in Pumps(tapped)
  <2>1. pump.pending \in BOOLEAN /\ <<>> \in Seq(tapped)
    BY <1>4 DEF Pumps
  <2>2. /\ [at |-> "deliver", todo |-> buffered, pending |-> pump.pending] \in Pumps(tapped)
        /\ [at |-> "acknowledge", todo |-> awaited, pending |-> FALSE] \in Pumps(tapped)
        /\ [at |-> "idle", todo |-> <<>>, pending |-> FALSE] \in Pumps(tapped)
    BY <1>5, <2>1 DEF Pumps
  <2> QED
    BY <1>8, <2>2, Zenon
<1>11. TapType' /\ HeldInv'
  BY <1>0, <1>1, <1>10 DEF TapType, HeldInv
<1>12. BindingInv'
  BY <1>0, <1>1, <1>2 DEF BindingInv
<1>13. PumpInv'
  BY <1>0, <1>1, <1>3, <1>6, <1>9 DEF PumpInv
<1>14. FoundInv'
  <2>1. ASSUME NEW x \in tapped, owed(x)
        PROVE  /\ underWay(x) \/ known(entries, x)
               /\ known(entries, x) => scheduled(x)'
    <3>1. /\ underWay(x) \/ known(entries, x)
          /\ known(entries, x) => scheduled(x)
      BY <1>0, <1>2, <2>1 DEF FoundInv
    <3>2. x \notin delivered
      BY <1>0, <2>1 DEF HeldInv, owed
    <3>3. known(entries, x) => x \in ToSet(buffered)
      BY <1>0, <1>5, <1>7, <3>2 DEF PumpInv, known, ToSet
    <3>4. x \notin ToSet(pump.todo)
      BY <1>1 DEF ToSet
    <3> QED
      BY <1>9, <3>1, <3>3, <3>4 DEF scheduled
  <2> QED
    BY <1>1, <1>2, <2>1 DEF FoundInv, owed, underWay, isOutcome
<1>15. OnceInv'
  <2>1. ASSUME pump'.at = "deliver"
        PROVE  /\ \A i, j \in DOMAIN pump'.todo : pump'.todo[i] = pump'.todo[j] => i = j
               /\ \A i \in DOMAIN pump'.todo : known(entries, pump'.todo[i])
               /\ \A i \in DOMAIN pump'.todo : ~settled(pump'.todo[i])
    <3>1. pump'.todo = buffered
      BY <1>9, <2>1
    <3>2. \A i \in DOMAIN entries : settled(entries[i].id) => entries[i].state # "buffered"
      BY <1>0 DEF OnceInv
    <3> QED
      BY <1>5, <3>1, <3>2 DEF known
  <2> QED
    BY <1>0, <1>1, <2>1 DEF OnceInv, settled, known
<1> QED
  BY <1>11, <1>12, <1>13, <1>14, <1>15 DEF TapInv

-----------------------------------------------------------------------------
LEMMA TapInvInit ==
  Init => TapInv
<1> SUFFICES ASSUME Init
             PROVE  TapInv
  OBVIOUS
<1>1. /\ pending = <<>> /\ intent = NoId /\ emitting = NoId /\ retained = <<>>
      /\ listening = FALSE /\ toNative = <<>> /\ toJs = <<>>
      /\ entries = <<>> /\ installing = <<>> /\ binding = "none"
      /\ pump = [at |-> "idle", todo |-> <<>>, pending |-> FALSE]
      /\ tapped = {} /\ delivered = {} /\ everDelivered = {} /\ lost = {} /\ late = {}
  BY DEF Init, ActionsInit, idle
<1>2. pump.at = "idle" /\ pump.todo = <<>> /\ pump \in Pumps(tapped)
  BY <1>1 DEF Pumps
<1>3. TapType
  BY <1>1, <1>2, ActionsAssumption DEF TapType
<1>4. HeldInv /\ BindingInv /\ PumpInv /\ FoundInv /\ OnceInv
  BY <1>1, <1>2 DEF HeldInv, BindingInv, PumpInv, FoundInv, OnceInv, settled, ToSet
<1> QED
  BY <1>3, <1>4 DEF TapInv

LEMMA TapInvUnchanged ==
  ASSUME TapInv, UNCHANGED actionVars
  PROVE  TapInv'
<1>1. /\ UNCHANGED <<pending, intent, emitting, retained, listening, toNative, toJs, entries, installing, binding, pump>>
      /\ UNCHANGED <<tapped, delivered, everDelivered, lost, late>>
  BY DEF actionVars, nativeVars, bridgeVars, adapterVars, tapHistory
<1>2. TapType' /\ HeldInv'
  BY <1>1 DEF TapInv, TapType, HeldInv
<1>3. BindingInv' /\ PumpInv'
  BY <1>1 DEF TapInv, BindingInv, Asking, PumpInv
<1>4. FoundInv' /\ OnceInv'
  BY <1>1 DEF TapInv, FoundInv, OnceInv, owed, underWay, scheduled, settled, known
<1> QED
  BY <1>2, <1>3, <1>4 DEF TapInv

LEMMA ServeKeeps ==
  ASSUME TapInv, Serve
  PROVE  TapInv'
<1>1. TapType /\ toNative # <<>>
  BY DEF TapInv, Serve
<1>2. Head(toNative) \in PluginCalls(tapped)
  BY <1>1, TailFacts DEF TapType
<1>3. Head(toNative).call \in {"listen", "consume", "acknowledge", "unlisten"}
  BY <1>2 DEF PluginCalls
<1> QED
  BY <1>3, ServeListenKeeps, ServeConsumeKeeps, ServeAcknowledgeKeeps, ServeUnlistenKeeps

LEMMA TapInvStep ==
  TapInv /\ [Next]_vars => TapInv'
<1> SUFFICES ASSUME TapInv, [Next]_vars
             PROVE  TapInv'
  OBVIOUS
<1>1. ASSUME NEW id \in Ids, TapInFront(id) \/ TapReturns(id)
      PROVE  TapInv'
  BY <1>1, TapKeeps DEF TapInFront, TapReturns
<1>2. CASE UNCHANGED actionVars
  BY <1>2, TapInvUnchanged
<1>3. CASE RecreateShell
  BY <1>3, RecreateKeepsTaps DEF RecreateShell
<1>4. CASE ActionStep
  BY <1>4, EmitKeeps, ServeKeeps, BindKeeps, HearEventKeeps, HearPendingKeeps, HearFailedKeeps,
     HearAcknowledgedKeeps, PumpAcknowledgeKeeps, PumpDeliverKeeps, PumpTurnsKeeps DEF ActionStep
<1> QED
  BY <1>1, <1>2, <1>3, <1>4 DEF Next, vars

\* Every tap keeps its place between the buffers, the bridge and the pump.
THEOREM TapsInvariant ==
  Spec => []TapInv
BY TapInvInit, TapInvStep, PTL DEF Spec

\* With the queues empty and the pump at rest no tap is owed.
THEOREM TapsArrive ==
  Spec => []EveryTapArrives
<1>1. TapInv => EveryTapArrives
  <2> SUFFICES ASSUME TapInv, binding = "bound", emitting = NoId, toJs = <<>>, pump.at = "idle",
                      NEW id \in tapped, id \notin everDelivered \cup lost
               PROVE  FALSE
    BY DEF EveryTapArrives
  <2>1. id # NoId
    BY ActionsAssumption DEF TapInv, TapType, NoId
  <2>2. owed(id) /\ ~underWay(id) /\ ~scheduled(id)
    BY <2>1 DEF owed, underWay, scheduled
  <2> QED
    BY <2>2 DEF TapInv, FoundInv
<1> QED
  BY <1>1, TapsInvariant, PTL

\* The pump gives no tap twice whose acknowledgement came after its event.
THEOREM TapsGivenOnce ==
  Spec => GivenOnce
<1>1. TapInv /\ [Next]_vars => [\A id \in Ids : gives(id) => id \notin delivered \/ id \in late]_vars
  <2> SUFFICES ASSUME TapInv, NEW id \in Ids, gives(id), settled(id)
               PROVE  FALSE
    BY DEF settled
  <2>1. /\ pump.at = "deliver" /\ pump.todo # <<>>
        /\ ~awaiting(Head(pump.todo)) /\ acknowledge(Head(pump.todo)) /\ Head(pump.todo) = id
    BY DEF gives, PumpDeliver
  <2>2. Head(pump.todo) = pump.todo[1] /\ 1 \in DOMAIN pump.todo
    BY <2>1, AcknowledgeFacts
  <2>3. /\ \A i \in DOMAIN toNative : ~isAcknowledge(toNative[i])
        /\ \A j \in DOMAIN toJs : ~isAnswer(toJs[j])
    BY <2>1, <2>2, NothingAwaited
  <2> QED
    BY <2>1, <2>2, <2>3 DEF TapInv, OnceInv
<1> QED
  BY <1>1, TapsInvariant, PTL DEF Spec, GivenOnce
=============================================================================
