------------------------ MODULE JournalEditorProofs ------------------------
(***************************************************************************)
(* The daily editor keeps what the user types, for any number of mounts,   *)
(* edits and trips to the background: a dirty editor has its next save     *)
(* armed, older text never lands on newer, and at rest the row holds the   *)
(* last text unless one of the known slips happened.                       *)
(***************************************************************************)
EXTENDS JournalEditor, TLAPS, SequenceTheorems

Outcomes == [state : {"running", "ok", "failed"}, text : Texts \cup {NoText}]

TypeInv ==
  /\ db \in Texts /\ typed \in Texts
  /\ queue \in Seq(Op) /\ slot \in Outcomes
  /\ ed \in [Mounts -> Editor] /\ cur \in 0 .. MaxMounts
  /\ visible \in BOOLEAN
  /\ edits \in 0 .. MaxEdits /\ hides \in 0 .. MaxHides /\ landed \in 0 .. MaxEdits
  /\ slips \subseteq Slips /\ skipped \in BOOLEAN

-----------------------------------------------------------------------------
(* What one mount can be; they are functions of its state, so that a step  *)
(* that changes one mount is a fact about one record.                      *)

ops(q, m, kind) == {i \in DOMAIN q : q[i].mount = m /\ q[i].kind = kind}

isDirty(e) == e.value # e.lastSaved

\* Timers run on the open editor only, a request waits for a write in flight, and
\* only leaving asks for a flush.
Sound(e) ==
  /\ e.phase \in {"unborn", "loading"} =>
       e.value = e.lastSaved /\ e.inFlight = NoText /\ ~e.background
  /\ e.phase # "open" => ~e.saveTimer /\ ~e.retryTimer
  /\ e.pending => e.inFlight # NoText
  /\ e.flushPending => e.phase = "gone"

\* The dates are opened one after the other.
MountInv ==
  \A m \in Mounts :
    /\ Sound(ed[m])
    /\ m > cur <=> ed[m].phase = "unborn"
    /\ m < cur => ed[m].phase = "gone"

\* An operation in the queue is known to its mount, by its ref.
Known(op, e) ==
  /\ op.kind = "get" => e.phase \in {"loading", "gone"}
  /\ op.kind = "write" => op.text = e.inFlight
  /\ op.kind # "get" => op.text \in Texts
  /\ op.kind = "background" => e.background

QueueInv ==
  /\ \A i \in DOMAIN queue : queue[i].mount <= cur /\ Known(queue[i], ed[queue[i].mount])
  /\ \A i, j \in DOMAIN queue :
       queue[i].mount = queue[j].mount /\ queue[i].kind = queue[j].kind => i = j
  /\ \A m \in Mounts : ed[m].inFlight # NoText => ops(queue, m, "write") # {}

\* An outcome is that of the operation at the head; a success is still true.
SlotInv ==
  slot.state # "running" =>
    /\ queue # <<>>
    /\ Head(queue).kind # "get" => slot.text = Head(queue).text
    /\ slot.state = "ok" => slot.text = db

\* The writes stand in the order of the user's changes.
Stamped(op, low, high) == op.kind # "get" => low <= op.stamp /\ op.stamp <= high

OrderInv ==
  /\ landed <= edits
  /\ \A i \in DOMAIN queue : Stamped(queue[i], landed, edits)
  /\ \A i, j \in DOMAIN queue :
       i < j /\ queue[i].kind # "get" /\ queue[j].kind # "get" => queue[i].stamp <= queue[j].stamp

\* What is still to be written is the user's latest change, ...
LatestInv ==
  \A m \in Mounts :
    /\ ed[m].pending => ed[m].stamp = edits
    /\ ed[m].phase = "open" /\ isDirty(ed[m]) => ed[m].stamp = edits /\ ed[m].value = typed

\* ... for a left mount asks for its flush before the next one can show the entry.
Ahead(q, m, k) == \E i \in ops(q, m, "write"), j \in ops(q, k, "get") : i < j

PendingInv ==
  \A m, k \in Mounts : m < k /\ k <= cur /\ ed[m].pending => Ahead(queue, m, k)

\* The next save of a dirty editor: a timer, a request, a write of its text, or a
\* background write of its text behind the write in flight.
Backed(q, m, text) ==
  \E i \in ops(q, m, "background") : q[i].text = text /\ \A j \in ops(q, m, "write") : j < i

Covered(e, q, m) ==
  e.saveTimer \/ e.retryTimer \/ e.pending \/ e.inFlight = e.value \/ Backed(q, m, e.value)

CoveredInv ==
  \A m \in Mounts :
    ed[m].phase = "open" /\ isDirty(ed[m]) /\ "disarmed" \notin slips => Covered(ed[m], queue, m)

HiddenInv == \A m \in Mounts : ~visible => ~ed[m].saveTimer

\* While the app is hidden, what saves a dirty editor is at the storage layer, or
\* is the retry of a write that is over.
Kept(e, q, m) ==
  e.inFlight = e.value \/ Backed(q, m, e.value) \/ (e.retryTimer /\ e.inFlight = NoText)

KeptInv ==
  ~visible /\ ~skipped =>
    \A m \in Mounts : ed[m].phase = "open" /\ isDirty(ed[m]) => Kept(ed[m], queue, m)

\* While nothing has slipped, the open editor is the only one with work to do, and
\* a clean one shows the row; ...
Alone(m) ==
  /\ ed[m].value = typed
  /\ \A k \in Mounts : k < m => ~ed[k].pending
  /\ \A i \in DOMAIN queue : queue[i].mount = m
  /\ ~isDirty(ed[m]) =>
       queue = <<>> /\ ed[m].inFlight = NoText /\ ~ed[m].background /\ db = typed

OpenInv == slips = {} => \A m \in Mounts : ed[m].phase = "open" => Alone(m)

\* ... and while none is open the last write, to come or done, is of the last text.
Rest(q) == \A i \in DOMAIN q : q[i].kind = "get"

Final(q, i, text) ==
  q[i].kind = "write" /\ q[i].text = text /\ \A j \in DOMAIN q : j > i => q[j].kind = "get"

Closed == \A m \in Mounts : ed[m].phase # "open"
NonePending == \A m \in Mounts : ~ed[m].pending

Stored == NonePending /\ Rest(queue) /\ db = typed
Coming == NonePending /\ \E i \in DOMAIN queue : Final(queue, i, typed)
FlushAsked(m) ==
  /\ ed[m].pending /\ ed[m].flushPending /\ ed[m].value = typed
  /\ \A k \in Mounts : k # m => ~ed[k].pending

ClosedInv ==
  slips = {} /\ Closed => Stored \/ Coming \/ \E m \in Mounts : FlushAsked(m)

Inv ==
  /\ TypeInv /\ MountInv /\ QueueInv /\ SlotInv /\ OrderInv /\ LatestInv
  /\ PendingInv /\ CoveredInv /\ HiddenInv /\ KeptInv /\ OpenInv /\ ClosedInv

-----------------------------------------------------------------------------
(* Queues *)

LEMMA OpFields ==
  ASSUME NEW o \in Op
  PROVE  /\ o.mount \in Mounts /\ o.kind \in {"get", "write", "background"}
         /\ o.text \in Texts \cup {NoText} /\ o.stamp \in 0 .. MaxEdits
BY DEF Op

LEMMA QueuedOps ==
  ASSUME NEW q \in Seq(Op)
  PROVE  \A i \in DOMAIN q :
           /\ q[i] \in Op /\ q[i].mount \in Mounts /\ q[i].kind \in {"get", "write", "background"}
           /\ q[i].text \in Texts \cup {NoText} /\ q[i].stamp \in Nat
<1>1. \A i \in DOMAIN q : q[i] \in Op
  OBVIOUS
<1>2. \A o \in Op : o.stamp \in Nat
  BY BoundsAssumption, OpFields
<1> QED BY <1>1, <1>2, OpFields

LEMMA Appended ==
  ASSUME NEW q \in Seq(Op), NEW o \in Op, NEW r, r = Append(q, o)
  PROVE  /\ r \in Seq(Op) /\ DOMAIN r = 1 .. Len(q) + 1 /\ DOMAIN q = 1 .. Len(q) /\ Len(q) \in Nat
         /\ \A i \in DOMAIN q : i \in DOMAIN r /\ r[i] = q[i] /\ i < Len(q) + 1
         /\ Len(q) + 1 \in DOMAIN r /\ r[Len(q) + 1] = o
         /\ \A i \in DOMAIN r : i \in DOMAIN q \/ i = Len(q) + 1
<1>1. Len(r) = Len(q) + 1
  OBVIOUS
<1> QED BY <1>1

LEMMA Removed ==
  ASSUME NEW q \in Seq(Op), q # <<>>, NEW r, r = Tail(q)
  PROVE  /\ r \in Seq(Op) /\ DOMAIN r \subseteq Nat /\ DOMAIN q \subseteq Nat
         /\ \A i \in DOMAIN r : i + 1 \in DOMAIN q /\ r[i] = q[i + 1] /\ i + 1 # 1
         /\ \A i \in DOMAIN q : i = 1 \/ (i - 1 \in DOMAIN r /\ r[i - 1] = q[i])
         /\ 1 \in DOMAIN q /\ Head(q) = q[1] /\ Head(q) \in Op
         /\ \A i \in DOMAIN q : 1 <= i
<1>1. Len(q) \in Nat /\ Len(q) # 0 /\ DOMAIN q = 1 .. Len(q)
  OBVIOUS
<1>2. r \in Seq(Op) /\ Len(r) = Len(q) - 1 /\ \A i \in 1 .. Len(r) : r[i] = q[i + 1]
  BY <1>1, HeadTailProperties
<1>3. DOMAIN r = 1 .. Len(r)
  BY <1>2
<1>4. Head(q) = q[1] /\ 1 \in DOMAIN q /\ q[1] \in Op
  BY <1>1
<1>5. ASSUME NEW i \in DOMAIN r PROVE i + 1 \in DOMAIN q /\ r[i] = q[i + 1] /\ i + 1 # 1
  BY <1>1, <1>2, <1>3
<1>6. ASSUME NEW i \in DOMAIN q, i # 1 PROVE i - 1 \in DOMAIN r /\ r[i - 1] = q[i]
  <2>1. i - 1 \in 1 .. Len(r) /\ (i - 1) + 1 = i
    BY <1>1, <1>2, <1>6
  <2> QED BY <2>1, <1>2, <1>3
<1> QED BY <1>1, <1>2, <1>3, <1>4, <1>5, <1>6

LEMMA RemovedOps ==
  ASSUME NEW q \in Seq(Op), q # <<>>, NEW r, r = Tail(q), NEW m, NEW kind
  PROVE  /\ \A i \in ops(r, m, kind) : i \in Nat /\ i + 1 \in ops(q, m, kind) /\ r[i] = q[i + 1]
         /\ \A i \in ops(q, m, kind) : i \in Nat /\ (i = 1 \/ (i - 1 \in ops(r, m, kind) /\ r[i - 1] = q[i]))
         /\ Head(q).mount # m \/ Head(q).kind # kind => 1 \notin ops(q, m, kind)
<1>1. /\ DOMAIN r \subseteq Nat /\ DOMAIN q \subseteq Nat
      /\ \A i \in DOMAIN r : i + 1 \in DOMAIN q /\ r[i] = q[i + 1]
      /\ \A i \in DOMAIN q : i = 1 \/ (i - 1 \in DOMAIN r /\ r[i - 1] = q[i])
      /\ Head(q) = q[1]
  BY Removed
<1> QED BY <1>1 DEF ops

LEMMA Renewed ==
  ASSUME NEW q \in Seq(Op), q # <<>>, NEW o \in Op, NEW r, r = Append(Tail(q), o), NEW n, n = Len(q)
  PROVE  /\ r \in Seq(Op) /\ DOMAIN r = 1 .. n /\ DOMAIN q = 1 .. n /\ n \in Nat /\ n \in DOMAIN r
         /\ r[n] = o /\ Head(q) = q[1]
         /\ \A i \in DOMAIN r : i = n \/ (i + 1 \in DOMAIN q /\ r[i] = q[i + 1] /\ i + 1 # 1)
         /\ \A i \in DOMAIN q : i = 1 \/ (i - 1 \in DOMAIN r /\ r[i - 1] = q[i] /\ i - 1 < n)
<1> DEFINE t == Tail(q)
<1>1. n \in Nat /\ n # 0 /\ DOMAIN q = 1 .. n
  OBVIOUS
<1>2. t \in Seq(Op) /\ Len(t) = n - 1 /\ \A i \in 1 .. Len(t) : t[i] = q[i + 1]
  BY <1>1, HeadTailProperties
<1>3. r = Append(t, o)
  OBVIOUS
<1> HIDE DEF t
<1>4. r \in Seq(Op) /\ DOMAIN r = 1 .. n /\ r[n] = o /\ \A i \in 1 .. Len(t) : r[i] = t[i]
  <2>1. Len(r) = n
    BY <1>1, <1>2, <1>3
  <2> QED BY <1>1, <1>2, <1>3, <2>1
<1>5. ASSUME NEW i \in DOMAIN r, i # n PROVE i + 1 \in DOMAIN q /\ r[i] = q[i + 1] /\ i + 1 # 1
  <2>1. i \in 1 .. Len(t)
    BY <1>1, <1>2, <1>4, <1>5
  <2> QED BY <1>1, <1>2, <1>4, <2>1
<1>6. ASSUME NEW i \in DOMAIN q, i # 1 PROVE i - 1 \in DOMAIN r /\ r[i - 1] = q[i] /\ i - 1 < n
  <2>1. i - 1 \in 1 .. Len(t) /\ (i - 1) + 1 = i /\ i - 1 < n
    BY <1>1, <1>2, <1>6
  <2> QED BY <1>1, <1>2, <1>4, <2>1
<1> QED BY <1>1, <1>4, <1>5, <1>6

LEMMA BackedRemoved ==
  ASSUME NEW q \in Seq(Op), q # <<>>, NEW r, r = Tail(q), NEW m, NEW text,
         ~(Head(q).mount = m /\ Head(q).kind = "background"), Backed(q, m, text)
  PROVE  Backed(r, m, text)
<1>1. PICK i \in ops(q, m, "background") : q[i].text = text /\ \A j \in ops(q, m, "write") : j < i
  BY DEF Backed
<1>2. /\ i \in Nat /\ i - 1 \in ops(r, m, "background") /\ r[i - 1] = q[i]
      /\ \A j \in ops(r, m, "write") : j \in Nat /\ j + 1 \in ops(q, m, "write")
  <2>1. \A j \in ops(r, m, "write") : j \in Nat /\ j + 1 \in ops(q, m, "write")
    BY RemovedOps
  <2>2. 1 \notin ops(q, m, "background")
    BY RemovedOps
  <2>3. \A j \in ops(q, m, "background") :
          j \in Nat /\ (j = 1 \/ (j - 1 \in ops(r, m, "background") /\ r[j - 1] = q[j]))
    <3>1. /\ DOMAIN q \subseteq Nat
          /\ \A j \in DOMAIN q : j = 1 \/ (j - 1 \in DOMAIN r /\ r[j - 1] = q[j])
      BY Removed
    <3> QED BY <3>1 DEF ops
  <2> QED BY <1>1, <2>1, <2>2, <2>3
<1>3. \A j \in ops(r, m, "write") : j < i - 1
  <2> TAKE j \in ops(r, m, "write")
  <2>1. j \in Nat /\ j + 1 < i
    BY <1>1, <1>2
  <2> QED BY <1>2, <2>1
<1> QED BY <1>1, <1>2, <1>3 DEF Backed

LEMMA Emptied == ASSUME NEW q \in Seq(Op), DOMAIN q = {} PROVE q = <<>>
BY Removed

-----------------------------------------------------------------------------
(* Steps of the newest mount *)

\* The mount goes on, or is left, with the same text and the same writes; it may
\* ask for a write behind the one in flight.
Calms(e, f) ==
  /\ f.value = e.value /\ f.stamp = e.stamp /\ f.lastSaved = e.lastSaved
  /\ f.inFlight = e.inFlight /\ f.background = e.background
  /\ e.phase \in {"loading", "open"} /\ f.phase \in {e.phase, "gone"}
  /\ f.phase # "open" => ~f.saveTimer /\ ~f.retryTimer
  /\ e.pending => f.pending
  /\ f.pending /\ ~e.pending => e.phase = "open" /\ isDirty(e) /\ e.inFlight # NoText
  /\ f.flushPending => f.phase = "gone"

\* Only the newest mount is open, and those after it do not exist yet.
LEMMA Newest ==
  ASSUME TypeInv, MountInv
  PROVE  \A m \in Mounts :
           /\ ed[m].phase \in {"loading", "open"} => m = cur
           /\ m > cur => ~ed[m].pending /\ ed[m].inFlight = NoText /\ ~ed[m].background
           /\ ed[m].pending \in BOOLEAN /\ m \in Nat /\ cur \in Nat
           /\ cur # 0 => cur \in Mounts
<1>1. \A m \in Mounts : m \in Nat /\ cur \in Nat /\ (m < cur \/ m = cur \/ m > cur)
  BY BoundsAssumption DEF TypeInv, Mounts
<1>2. cur # 0 => cur \in Mounts
  BY BoundsAssumption DEF TypeInv, Mounts
<1>3. \A m \in Mounts : ed[m] \in Editor
  BY DEF TypeInv
<1>4. \A m \in Mounts : ed[m].pending \in BOOLEAN
  BY <1>3 DEF Editor
<1> QED BY <1>1, <1>2, <1>4 DEF MountInv, Sound

LEMMA CalmStep ==
  ASSUME TypeInv, MountInv, QueueInv, SlotInv, OrderInv, LatestInv, PendingInv, CoveredInv,
         HiddenInv, KeptInv, OpenInv, ClosedInv, NEW e \in Editor, cur # 0, Calms(ed[cur], e), ed' = [ed EXCEPT ![cur] = e],
         UNCHANGED <<db, queue, slot, cur, edits, typed, landed>>,
         visible' \in BOOLEAN, hides' \in 0 .. MaxHides, slips' \subseteq Slips, slips \subseteq slips',
         skipped' \in BOOLEAN,
         ~visible' => ~e.saveTimer,
         e.phase = "open" /\ isDirty(e) /\ "disarmed" \notin slips' => Covered(e, queue, cur),
         ~visible' /\ ~skipped' /\ e.phase = "open" /\ isDirty(e) => Kept(e, queue, cur),
         e.phase = "gone" /\ ed[cur].phase = "open" /\ isDirty(e) => e.pending /\ e.flushPending
  PROVE  Inv'
<1>1. /\ cur \in Mounts /\ ed'[cur] = e /\ ed' \in [Mounts -> Editor]
      /\ \A m \in Mounts : m # cur => ed'[m] = ed[m]
  <2>1. ed \in [Mounts -> Editor] /\ cur \in Mounts
    BY Newest, BoundsAssumption DEF TypeInv, Mounts
  <2> QED BY <2>1
<1>2. \A m \in Mounts : ed[m].phase \in {"loading", "open"} => m = cur
  BY Newest
<1>3. isDirty(e) <=> isDirty(ed[cur])
  BY DEF Calms, isDirty
<1>4. TypeInv'
  BY <1>1 DEF TypeInv
<1>5. MountInv'
  <2>1. Sound(e)
    BY <1>1 DEF MountInv, Sound, Calms
  <2>2. e.phase # "unborn" /\ ed[cur].phase # "unborn"
    BY DEF Calms
  <2>3. ~(cur < cur)
    BY <1>1 DEF Mounts
  <2> QED BY <1>1, <2>1, <2>2, <2>3 DEF MountInv
<1>6. QueueInv'
  <2>1. \A i \in DOMAIN queue : queue[i].mount \in Mounts
    BY QueuedOps DEF TypeInv
  <2>2. ASSUME NEW op, Known(op, ed[cur]) PROVE Known(op, e)
    BY <2>2 DEF Known, Calms
  <2>3. \A i \in DOMAIN queue : Known(queue[i], ed'[queue[i].mount])
    BY <1>1, <2>1, <2>2 DEF QueueInv
  <2>4. e.inFlight = ed[cur].inFlight
    BY DEF Calms
  <2>5. \A m \in Mounts : ed'[m].inFlight # NoText => ops(queue, m, "write") # {}
    BY <1>1, <2>4 DEF QueueInv
  <2> QED BY <2>3, <2>5 DEF QueueInv
<1>7. SlotInv' /\ OrderInv'
  BY DEF SlotInv, OrderInv, Stamped
<1>8. LatestInv'
  <2>1. e.pending => e.stamp = edits
    BY <1>1 DEF LatestInv, Calms
  <2>2. e.phase = "open" /\ isDirty(e) => e.stamp = edits /\ e.value = typed
    BY <1>1, <1>3 DEF LatestInv, Calms
  <2> QED BY <1>1, <2>1, <2>2 DEF LatestInv
<1>9. PendingInv'
  <2>1. \A m, k \in Mounts : m < k /\ k <= cur => m # cur
    BY Newest
  <2> QED BY <1>1, <2>1 DEF PendingInv
<1>10. CoveredInv'
  BY <1>1 DEF CoveredInv
<1>11. HiddenInv'
  <2>1. \A m \in Mounts : m # cur => ~ed[m].saveTimer
    BY <1>2 DEF MountInv, Sound
  <2> QED BY <1>1, <2>1 DEF HiddenInv
<1>k. KeptInv'
  <2>1. \A m \in Mounts : ed'[m].phase = "open" => m = cur
    BY <1>1, <1>2
  <2> QED BY <1>1, <2>1 DEF KeptInv
<1>12. OpenInv'
  <2> SUFFICES ASSUME slips' = {}, NEW m \in Mounts, ed'[m].phase = "open" PROVE Alone(m)'
    BY DEF OpenInv
  <2>1. ed[m].phase = "open" /\ m = cur /\ slips = {}
    BY <1>1, <1>2 DEF Calms
  <2>2. Alone(m)
    BY <2>1 DEF OpenInv
  <2> QED BY <1>1, <1>3, <2>1, <2>2, Newest DEF Alone, Calms
<1>13. ClosedInv'
  <2> SUFFICES ASSUME slips' = {}, Closed' PROVE (Stored \/ Coming \/ \E m \in Mounts : FlushAsked(m))'
    BY DEF ClosedInv
  <2>0. slips = {}
    OBVIOUS
  <2>1. CASE ed[cur].phase = "open"
    <3>1. Alone(cur) /\ e.phase = "gone"
      BY <1>1, <2>0, <2>1 DEF OpenInv, Calms, Closed
    <3>2. \A k \in Mounts : k # cur => ~ed[k].pending
      <4>1. \A k \in Mounts : k < cur \/ k = cur \/ k > cur
        BY Newest
      <4> QED BY <3>1, <4>1, Newest DEF Alone
    <3>3. CASE isDirty(e)
      <4>1. e.pending /\ e.flushPending /\ e.value = typed
        BY <2>1, <3>1, <3>3 DEF Alone, Calms
      <4>2. FlushAsked(cur)'
        BY <1>1, <3>2, <4>1 DEF FlushAsked
      <4> QED BY <1>1, <4>2
    <3>4. CASE ~isDirty(e)
      <4>1. queue = <<>> /\ ed[cur].inFlight = NoText /\ db = typed
        BY <1>3, <3>1, <3>4 DEF Alone
      <4>2. ~ed[cur].pending /\ ~e.pending
        BY <1>1, <1>3, <3>4, <4>1, Newest DEF MountInv, Sound, Calms
      <4>3. Stored'
        BY <1>1, <3>2, <4>1, <4>2 DEF Stored, NonePending, Rest
      <4> QED BY <4>3
    <3> QED BY <3>3, <3>4
  <2>2. CASE ed[cur].phase = "loading"
    <3>1. Closed /\ ~ed[cur].pending /\ ~e.pending
      BY <1>1, <1>2, <2>2, Newest DEF Closed, MountInv, Sound, Calms
    <3>2. Stored \/ Coming \/ \E m \in Mounts : FlushAsked(m)
      BY <2>0, <3>1 DEF ClosedInv
    <3>3. NonePending => NonePending'
      BY <1>1, <3>1 DEF NonePending
    <3>4. ASSUME NEW m \in Mounts, FlushAsked(m) PROVE FlushAsked(m)'
      BY <1>1, <3>1, <3>4 DEF FlushAsked
    <3>5. Stored => Stored'
      BY <3>3 DEF Stored
    <3>6. Coming => Coming'
      BY <3>3 DEF Coming, Final
    <3> QED BY <3>2, <3>4, <3>5, <3>6
  <2> QED BY <2>1, <2>2 DEF Calms
<1> QED BY <1>4, <1>5, <1>6, <1>7, <1>8, <1>9, <1>10, <1>11, <1>k, <1>12, <1>13 DEF Inv

\* The mount queues a write of its text, or a second one when it goes to the
\* background during a write.
Queues(e, f, kind) ==
  /\ e.phase = "open" /\ isDirty(e)
  /\ f.value = e.value /\ f.stamp = e.stamp /\ f.lastSaved = e.lastSaved
  /\ f.phase = "open" \/ (f.phase = "gone" /\ kind = "write" /\ ~f.saveTimer /\ ~f.retryTimer)
  /\ f.pending = e.pending /\ ~f.flushPending
  /\ \/ /\ kind = "write" /\ e.inFlight = NoText
        /\ f.inFlight = e.value /\ f.background = e.background
     \/ /\ kind = "background" /\ e.inFlight # NoText /\ ~e.background
        /\ f.inFlight = e.inFlight /\ f.background

LEMMA QueueStep ==
  ASSUME TypeInv, MountInv, QueueInv, SlotInv, OrderInv, LatestInv, PendingInv, CoveredInv,
         HiddenInv, KeptInv, OpenInv, ClosedInv, NEW e \in Editor, NEW kind, NEW o, cur # 0,
         Queues(ed[cur], e, kind), o = operation(cur, kind, e.value, e.stamp),
         ed' = [ed EXCEPT ![cur] = e], queue' = Append(queue, o),
         UNCHANGED <<db, slot, cur, edits, typed, landed>>,
         visible' \in BOOLEAN, hides' \in 0 .. MaxHides, slips' \subseteq Slips, slips \subseteq slips',
         skipped' \in BOOLEAN,
         ~visible' => ~e.saveTimer
  PROVE  Inv'
<1>1. /\ cur \in Mounts /\ ed'[cur] = e /\ ed' \in [Mounts -> Editor] /\ ed[cur] \in Editor
      /\ \A m \in Mounts : m # cur => ed'[m] = ed[m]
  <2>1. ed \in [Mounts -> Editor] /\ cur \in Mounts
    BY Newest, BoundsAssumption DEF TypeInv, Mounts
  <2> QED BY <2>1
<1>2. \A m \in Mounts : ed[m].phase \in {"loading", "open"} => m = cur
  BY Newest
<1>3. isDirty(e) /\ isDirty(ed[cur]) /\ ed[cur].phase = "open"
  BY DEF Queues, isDirty
<1>o. /\ o \in Op /\ o.mount = cur /\ o.kind = kind /\ o.text = e.value /\ o.stamp = edits
      /\ kind \in {"write", "background"} /\ e.value \in Texts /\ o.text # NoText
  <2>1. e.value \in Texts /\ e.stamp \in 0 .. MaxEdits /\ kind \in {"write", "background"}
    BY DEF Editor, Queues
  <2>2. e.stamp = edits
    BY <1>1, <1>3 DEF LatestInv, Queues
  <2> QED BY <1>1, <2>1, <2>2, TextsAssumption DEF operation, Op
<1>q. /\ queue \in Seq(Op) /\ queue' \in Seq(Op) /\ DOMAIN queue' = 1 .. Len(queue) + 1
      /\ DOMAIN queue = 1 .. Len(queue) /\ Len(queue) \in Nat
      /\ \A i \in DOMAIN queue : i \in DOMAIN queue' /\ queue'[i] = queue[i] /\ i < Len(queue) + 1
      /\ Len(queue) + 1 \in DOMAIN queue' /\ queue'[Len(queue) + 1] = o
      /\ \A i \in DOMAIN queue' : i \in DOMAIN queue \/ i = Len(queue) + 1
  <2>1. queue \in Seq(Op)
    BY DEF TypeInv
  <2> QED BY <1>o, <2>1, Appended
<1>w. ASSUME NEW i \in DOMAIN queue, queue[i].mount = cur
      PROVE  queue[i].kind # "get" /\ queue[i].kind # kind
  <2>1. Known(queue[i], ed[cur])
    BY <1>w DEF QueueInv
  <2> QED BY <1>3, <2>1, TextsAssumption DEF Known, Queues
<1>4. TypeInv'
  BY <1>1, <1>q DEF TypeInv
<1>5. MountInv'
  <2>1. Sound(e)
    BY <1>1, <1>o, TextsAssumption DEF MountInv, Sound, Queues
  <2>2. e.phase # "unborn" /\ ed[cur].phase # "unborn"
    BY DEF Queues
  <2>3. ~(cur < cur)
    BY <1>1 DEF Mounts
  <2> QED BY <1>1, <2>1, <2>2, <2>3 DEF MountInv
<1>6. QueueInv'
  <2>1. \A i \in DOMAIN queue : queue[i].mount \in Mounts
    BY QueuedOps DEF TypeInv
  <2>2. ASSUME NEW i \in DOMAIN queue, queue[i].mount = cur PROVE Known(queue[i], e)
    <3>1. Known(queue[i], ed[cur])
      BY <2>2 DEF QueueInv
    <3> QED BY <1>w, <2>2, <3>1 DEF Known, Queues
  <2>3. Known(o, e) /\ cur <= cur
    BY <1>1, <1>o DEF Known, Queues, Mounts
  <2>4. \A i \in DOMAIN queue' : queue'[i].mount <= cur /\ Known(queue'[i], ed'[queue'[i].mount])
    BY <1>1, <1>o, <1>q, <2>1, <2>2, <2>3 DEF QueueInv
  <2>5. \A i, j \in DOMAIN queue' :
          queue'[i].mount = queue'[j].mount /\ queue'[i].kind = queue'[j].kind => i = j
    BY <1>o, <1>q, <1>w DEF QueueInv
  <2>6. ASSUME NEW m \in Mounts, ed'[m].inFlight # NoText PROVE ops(queue', m, "write") # {}
    <3>1. ops(queue, m, "write") \subseteq ops(queue', m, "write")
      BY <1>q DEF ops
    <3>2. CASE m = cur /\ kind = "write"
      BY <1>o, <1>q, <3>2 DEF ops
    <3>3. CASE ~(m = cur /\ kind = "write")
      BY <1>1, <1>o, <2>6, <3>1, <3>3 DEF QueueInv, Queues
    <3> QED BY <3>2, <3>3
  <2> QED BY <2>4, <2>5, <2>6 DEF QueueInv
<1>7. SlotInv'
  <2>1. queue # <<>> => Head(queue') = Head(queue)
    BY <1>q
  <2> QED BY <1>q, <2>1 DEF SlotInv
<1>8. OrderInv'
  <2>1. landed <= edits /\ edits <= edits
    BY DEF OrderInv, TypeInv
  <2>2. \A i \in DOMAIN queue' : Stamped(queue'[i], landed, edits)
    BY <1>o, <1>q, <2>1 DEF OrderInv, Stamped
  <2>3. \A i \in DOMAIN queue : queue[i].kind # "get" => queue[i].stamp <= o.stamp
    BY <1>o DEF OrderInv, Stamped
  <2>4. ASSUME NEW i \in DOMAIN queue', NEW j \in DOMAIN queue', i < j,
               queue'[i].kind # "get", queue'[j].kind # "get"
        PROVE  queue'[i].stamp <= queue'[j].stamp
    <3>1. i \in DOMAIN queue
      BY <1>q, <2>4
    <3> QED BY <1>q, <2>3, <2>4, <3>1 DEF OrderInv
  <2>5. UNCHANGED <<landed, edits>>
    OBVIOUS
  <2> QED BY <2>1, <2>2, <2>4, <2>5 DEF OrderInv
<1>9. LatestInv'
  <2>1. e.stamp = edits /\ e.value = typed
    BY <1>1, <1>3 DEF LatestInv, Queues
  <2> QED BY <1>1, <2>1 DEF LatestInv
<1>10. PendingInv'
  <2>1. \A m, k \in Mounts : m < k /\ k <= cur => m # cur
    BY Newest
  <2>2. \A m, k \in Mounts : Ahead(queue, m, k) => Ahead(queue', m, k)
    BY <1>q DEF Ahead, ops
  <2> QED BY <1>1, <2>1, <2>2 DEF PendingInv
<1>c. \A m \in Mounts : ed'[m].phase = "open" => m = cur
  BY <1>1, <1>2
<1>k. Kept(e, queue', cur)
  <2>1. CASE kind = "write"
    BY <2>1 DEF Kept, Queues
  <2>2. CASE kind = "background"
    <3>1. \A j \in ops(queue', cur, "write") : j < Len(queue) + 1
      BY <1>o, <1>q, <2>2 DEF ops
    <3>2. Len(queue) + 1 \in ops(queue', cur, "background")
      BY <1>o, <1>q, <2>2 DEF ops
    <3>3. Backed(queue', cur, e.value)
      BY <1>o, <1>q, <3>1, <3>2 DEF Backed
    <3> QED BY <3>3 DEF Kept
  <2> QED BY <1>o, <2>1, <2>2
<1>11. CoveredInv' /\ KeptInv'
  <2>1. Covered(e, queue', cur)
    BY <1>k DEF Covered, Kept
  <2> QED BY <1>1, <1>c, <1>k, <2>1 DEF CoveredInv, KeptInv
<1>12. HiddenInv'
  <2>1. \A m \in Mounts : m # cur => ~ed[m].saveTimer
    BY <1>2 DEF MountInv, Sound
  <2> QED BY <1>1, <2>1 DEF HiddenInv
<1>13. OpenInv'
  <2> SUFFICES ASSUME slips' = {}, NEW m \in Mounts, ed'[m].phase = "open" PROVE Alone(m)'
    BY DEF OpenInv
  <2>1. ed[cur].phase = "open" /\ m = cur /\ slips = {}
    BY <1>1, <1>2, <1>3
  <2>2. Alone(cur)
    BY <1>1, <2>1 DEF OpenInv
  <2>3. \A k \in Mounts : k < m => k # m
    BY <2>1, Newest
  <2> QED BY <1>1, <1>3, <1>o, <1>q, <2>1, <2>2, <2>3 DEF Alone, Queues
<1>14. ClosedInv'
  <2> SUFFICES ASSUME slips' = {}, Closed' PROVE Coming'
    BY DEF ClosedInv
  <2>1. Alone(cur) /\ kind = "write" /\ ed[cur].inFlight = NoText
    BY <1>1, <1>3 DEF OpenInv, Queues, Closed
  <2>2. ~ed[cur].pending /\ ~e.pending
    BY <1>1, <2>1 DEF MountInv, Sound, Queues
  <2>3. \A k \in Mounts : k < cur \/ k = cur \/ k > cur
    BY Newest
  <2>4. NonePending'
    BY <1>1, <2>1, <2>2, <2>3, Newest DEF NonePending, Alone
  <2>5. Final(queue', Len(queue) + 1, typed)
    BY <1>1, <1>o, <1>q, <2>1 DEF Final, Alone, Queues
  <2> QED BY <1>q, <2>4, <2>5 DEF Coming
<1> QED BY <1>4, <1>5, <1>6, <1>7, <1>8, <1>9, <1>10, <1>11, <1>12, <1>13, <1>14 DEF Inv

-----------------------------------------------------------------------------
(* Settled writes *)

\* The write of the given kind is no longer under way, and no other is asked for.
Releases(e, f, kind) ==
  /\ f.phase = e.phase /\ f.value = e.value /\ f.stamp = e.stamp /\ f.saveTimer = e.saveTimer
  /\ f.phase = "open" /\ isDirty(f) => isDirty(e)
  /\ f.phase # "open" => ~f.retryTimer
  /\ \/ /\ kind = "write" /\ f.inFlight = NoText /\ f.background = e.background
        /\ ~f.pending /\ ~f.flushPending
     \/ /\ kind = "background" /\ f.inFlight = e.inFlight /\ ~f.background
        /\ f.pending = e.pending /\ f.flushPending = e.flushPending

LEMMA ReleaseStep ==
  ASSUME TypeInv, MountInv, QueueInv, SlotInv, OrderInv, LatestInv, PendingInv, CoveredInv,
         HiddenInv, KeptInv, OpenInv, ClosedInv, NEW e \in Editor, NEW m, NEW kind,
         queue # <<>>, slot.state # "running", m = Head(queue).mount, kind = Head(queue).kind,
         Releases(ed[m], e, kind), ed' = [ed EXCEPT ![m] = e],
         queue' = Tail(queue), slot' = Running, slips' \subseteq Slips, slips \subseteq slips',
         UNCHANGED <<db, cur, visible, edits, hides, typed, landed, skipped>>,
         e.phase = "open" /\ isDirty(e) /\ "disarmed" \notin slips' => Covered(e, queue', m),
         ~visible /\ ~skipped /\ e.phase = "open" /\ isDirty(e) => Kept(e, queue', m),
         slips' = {} /\ e.phase = "open" /\ ~isDirty(e) =>
           e.inFlight = NoText /\ ~e.background /\ db = e.value,
         slips' = {} /\ e.phase = "gone" /\ kind = "write" =>
           slot.state = "ok" /\ ~(ed[m].pending /\ ed[m].flushPending)
  PROVE  Inv'
<1>q. /\ queue \in Seq(Op) /\ queue' \in Seq(Op) /\ DOMAIN queue \subseteq Nat /\ DOMAIN queue' \subseteq Nat
      /\ \A i \in DOMAIN queue' : i + 1 \in DOMAIN queue /\ queue'[i] = queue[i + 1] /\ i + 1 # 1
      /\ \A i \in DOMAIN queue : i = 1 \/ (i - 1 \in DOMAIN queue' /\ queue'[i - 1] = queue[i])
      /\ 1 \in DOMAIN queue /\ Head(queue) = queue[1]
      /\ \A i \in DOMAIN queue : 1 <= i
  <2>1. queue \in Seq(Op)
    BY DEF TypeInv
  <2> QED BY <2>1, Removed
<1>1. /\ m \in Mounts /\ ed'[m] = e /\ ed' \in [Mounts -> Editor] /\ ed[m] \in Editor
      /\ \A k \in Mounts : k # m => ed'[k] = ed[k]
  <2>1. ed \in [Mounts -> Editor] /\ m \in Mounts
    BY <1>q, QueuedOps DEF TypeInv
  <2> QED BY <2>1
<1>k. kind \in {"write", "background"} /\ kind # "get"
  BY DEF Releases
<1>o. \A i \in DOMAIN queue : queue[i].mount \in Mounts /\ queue[i].stamp \in Nat
  BY <1>q, QueuedOps
<1>h. \A i \in DOMAIN queue : queue[i].mount = m /\ queue[i].kind = kind => i = 1
  BY <1>q DEF QueueInv
<1>4. TypeInv'
  <2>1. slot' \in Outcomes
    BY DEF Outcomes, Running
  <2> QED BY <1>1, <1>q, <2>1 DEF TypeInv
<1>5. MountInv'
  <2>1. e.phase # "unborn" /\ ed[m].phase # "unborn"
    <3>1. m <= cur
      BY <1>q DEF QueueInv
    <3>2. ~(m > cur)
      BY <1>1, <3>1 DEF Mounts, TypeInv
    <3> QED BY <1>1, <3>2 DEF MountInv, Releases
  <2>2. Sound(ed[m])
    BY <1>1 DEF MountInv
  <2>3. Known(queue[1], ed[m])
    BY <1>q DEF QueueInv
  <2>4. Sound(e)
    <3>1. e.phase = "loading" => FALSE
      BY <1>q, <2>2, <2>3, TextsAssumption DEF Sound, Known, Releases
    <3> QED BY <2>1, <2>2, <3>1 DEF Sound, Releases
  <2>5. e.phase = ed[m].phase
    BY DEF Releases
  <2> QED BY <1>1, <2>1, <2>4, <2>5 DEF MountInv
<1>6. QueueInv'
  <2>1. ASSUME NEW i \in DOMAIN queue, i # 1, queue[i].mount = m PROVE Known(queue[i], e)
    <3>1. Known(queue[i], ed[m]) /\ queue[i].kind # kind
      BY <1>h, <2>1 DEF QueueInv
    <3> QED BY <3>1 DEF Known, Releases
  <2>2. \A i \in DOMAIN queue : i # 1 => queue[i].mount <= cur /\ Known(queue[i], ed'[queue[i].mount])
    BY <1>1, <1>o, <2>1 DEF QueueInv
  <2>3. \A i \in DOMAIN queue' : queue'[i].mount <= cur /\ Known(queue'[i], ed'[queue'[i].mount])
    BY <1>q, <2>2
  <2>4. \A i, j \in DOMAIN queue' :
          queue'[i].mount = queue'[j].mount /\ queue'[i].kind = queue'[j].kind => i + 1 = j + 1
    BY <1>q DEF QueueInv
  <2>5. \A i, j \in DOMAIN queue' : i + 1 = j + 1 => i = j
    BY <1>q
  <2>6. ASSUME NEW k \in Mounts, ed'[k].inFlight # NoText PROVE ops(queue', k, "write") # {}
    <3>1. ~(k = m /\ kind = "write") /\ ed[k].inFlight # NoText
      BY <1>1, <1>k, <2>6 DEF Releases
    <3>2. PICK i \in ops(queue, k, "write") : TRUE
      BY <3>1 DEF QueueInv
    <3>3. i # 1 /\ i \in DOMAIN queue /\ queue[i].mount = k /\ queue[i].kind = "write"
      BY <1>q, <3>1, <3>2 DEF ops
    <3>4. i - 1 \in ops(queue', k, "write")
      BY <1>q, <3>3 DEF ops
    <3> QED BY <3>4
  <2> QED BY <2>3, <2>4, <2>5, <2>6 DEF QueueInv
<1>7. SlotInv'
  BY DEF SlotInv, Running
<1>8. OrderInv'
  <2>1. landed <= edits /\ \A i \in DOMAIN queue' : Stamped(queue'[i], landed, edits)
    BY <1>q DEF OrderInv
  <2>2. \A i, j \in DOMAIN queue' : i < j => i + 1 < j + 1
    BY <1>q
  <2>3. \A i, j \in DOMAIN queue' :
          i < j /\ queue'[i].kind # "get" /\ queue'[j].kind # "get" => queue'[i].stamp <= queue'[j].stamp
    BY <1>q, <2>2 DEF OrderInv
  <2>4. UNCHANGED <<landed, edits>>
    OBVIOUS
  <2> QED BY <2>1, <2>3, <2>4 DEF OrderInv
<1>9. LatestInv'
  <2>1. e.pending => ed[m].pending
    BY DEF Releases
  <2>2. e.stamp = ed[m].stamp /\ e.value = ed[m].value /\ e.phase = ed[m].phase
    BY DEF Releases
  <2>3. e.phase = "open" /\ isDirty(e) => isDirty(ed[m])
    BY DEF Releases
  <2> QED BY <1>1, <2>1, <2>2, <2>3 DEF LatestInv
<1>10. PendingInv'
  <2> SUFFICES ASSUME NEW j \in Mounts, NEW k \in Mounts, j < k, k <= cur, ed'[j].pending
              PROVE  Ahead(queue', j, k)
    BY DEF PendingInv
  <2>1. ed[j].pending /\ ~(j = m /\ kind = "write")
    BY <1>1, <1>k DEF Releases
  <2>2. Ahead(queue, j, k)
    BY <2>1 DEF PendingInv
  <2>3. PICK a \in ops(queue, j, "write"), b \in ops(queue, k, "get") : a < b
    BY <2>2 DEF Ahead
  <2>4. a \in DOMAIN queue /\ b \in DOMAIN queue /\ a # 1 /\ b # 1
    BY <1>k, <1>q, <2>1, <2>3 DEF ops
  <2>5. a - 1 \in ops(queue', j, "write") /\ b - 1 \in ops(queue', k, "get")
    BY <1>q, <2>3, <2>4 DEF ops
  <2>6. a - 1 < b - 1
    BY <1>q, <2>3, <2>4
  <2> QED BY <2>5, <2>6 DEF Ahead
<1>11. CoveredInv'
  <2> SUFFICES ASSUME NEW k \in Mounts, ed'[k].phase = "open", isDirty(ed'[k]), "disarmed" \notin slips', k # m
              PROVE  Covered(ed[k], queue', k)
    BY <1>1 DEF CoveredInv
  <2>1. Covered(ed[k], queue, k)
    BY <1>1 DEF CoveredInv
  <2>2. Backed(queue, k, ed[k].value) => Backed(queue', k, ed[k].value)
    BY <1>q, BackedRemoved
  <2> QED BY <2>1, <2>2 DEF Covered
<1>12. HiddenInv'
  BY <1>1 DEF HiddenInv, Releases
<1>p. KeptInv'
  <2> SUFFICES ASSUME ~visible, ~skipped, NEW k \in Mounts, ed'[k].phase = "open", isDirty(ed'[k]), k # m
              PROVE  Kept(ed[k], queue', k)
    BY <1>1 DEF KeptInv
  <2>1. Kept(ed[k], queue, k)
    BY <1>1 DEF KeptInv
  <2>2. Backed(queue, k, ed[k].value) => Backed(queue', k, ed[k].value)
    BY <1>q, BackedRemoved
  <2> QED BY <2>1, <2>2 DEF Kept
<1>13. OpenInv'
  <2> SUFFICES ASSUME slips' = {}, NEW k \in Mounts, ed'[k].phase = "open" PROVE Alone(k)'
    BY DEF OpenInv
  <2>1. ed[k].phase = "open" /\ slips = {}
    BY <1>1 DEF Releases
  <2>2. Alone(k)
    BY <2>1 DEF OpenInv
  <2>3. k = m
    BY <1>q, <2>2 DEF Alone
  <2>4. \A i \in DOMAIN queue' : queue'[i].mount = m
    BY <1>q, <2>2, <2>3 DEF Alone
  <2>5. ed'[k].value = typed /\ \A j \in Mounts : j < k => ~ed'[j].pending
    <3>1. \A j \in Mounts : j < k => j # k
      BY Newest
    <3> QED BY <1>1, <2>2, <2>3, <3>1 DEF Alone, Releases
  <2>6. ASSUME ~isDirty(e)
        PROVE  queue' = <<>> /\ e.inFlight = NoText /\ ~e.background /\ db = typed
    <3>1. e.inFlight = NoText /\ ~e.background /\ db = e.value /\ e.phase = "open"
      BY <1>1, <2>3, <2>6
    <3>2. \A i \in DOMAIN queue' : Known(queue'[i], e) /\ queue'[i] \in Op
      <4>1. \A i \in DOMAIN queue' : queue'[i] \in Op
        BY <1>q
      <4>2. \A i \in DOMAIN queue' : Known(queue'[i], ed'[queue'[i].mount])
        BY <1>6 DEF QueueInv
      <4> QED BY <1>1, <2>4, <4>1, <4>2
    <3>3. DOMAIN queue' = {}
      BY <3>1, <3>2, OpFields, TextsAssumption DEF Known
    <3> QED BY <1>1, <1>q, <2>3, <2>5, <3>1, <3>3, Emptied
  <2> QED BY <1>1, <2>3, <2>4, <2>5, <2>6 DEF Alone
<1>14. ClosedInv'
  <2> SUFFICES ASSUME slips' = {}, Closed'
              PROVE  (Stored \/ Coming \/ \E k \in Mounts : FlushAsked(k))'
    BY DEF ClosedInv
  <2>1. slips = {} /\ Closed /\ e.phase = "gone"
    <3>1. e.phase # "unborn" /\ e.phase # "open" /\ e.phase = ed[m].phase
      <4>1. m <= cur /\ ~(m > cur)
        BY <1>1, <1>q DEF QueueInv, Mounts, TypeInv
      <4> QED BY <1>1, <4>1 DEF MountInv, Releases, Closed
    <3>2. Closed
      BY <1>1, <3>1 DEF Closed
    <3>3. Known(queue[1], ed[m]) /\ Sound(ed[m])
      BY <1>1, <1>q DEF QueueInv, MountInv
    <3>4. e.phase # "loading"
      BY <1>q, <3>1, <3>3, TextsAssumption DEF Sound, Known, Releases
    <3> QED BY <3>1, <3>2, <3>4 DEF Editor
  <2>2. NonePending => NonePending'
    BY <1>1 DEF NonePending, Releases
  <2>3. ~Stored
    BY <1>k, <1>q DEF Stored, Rest
  <2>4. ASSUME Coming PROVE Stored' \/ Coming'
    <3>1. PICK i \in DOMAIN queue : Final(queue, i, typed)
      BY <2>4 DEF Coming
    <3>2. NonePending'
      BY <2>2, <2>4 DEF Coming
    <3>3. CASE i = 1
      <4>1. kind = "write" /\ Head(queue).text = typed
        BY <1>q, <3>1, <3>3 DEF Final
      <4>2. db = typed
        BY <1>k, <2>1, <4>1 DEF SlotInv
      <4>3. \A j \in DOMAIN queue' : j + 1 > 1
        BY <1>q
      <4>4. Rest(queue')
        BY <1>q, <3>1, <3>3, <4>3 DEF Final, Rest
      <4> QED BY <3>2, <4>2, <4>4 DEF Stored
    <3>4. CASE i # 1
      <4>1. i - 1 \in DOMAIN queue' /\ queue'[i - 1] = queue[i]
        BY <1>q, <3>4
      <4>2. \A j \in DOMAIN queue' : j > i - 1 => j + 1 > i
        BY <1>q
      <4>3. Final(queue', i - 1, typed)
        BY <1>q, <3>1, <4>1, <4>2 DEF Final
      <4> QED BY <3>2, <4>1, <4>3 DEF Coming
    <3> QED BY <3>3, <3>4
  <2>5. ASSUME NEW k \in Mounts, FlushAsked(k) PROVE FlushAsked(k)'
    <3>1. ~(k = m /\ kind = "write")
      BY <2>1, <2>5 DEF FlushAsked
    <3>2. kind = "background" => e.pending = ed[m].pending /\ e.flushPending = ed[m].flushPending
      BY DEF Releases
    <3>3. e.value = ed[m].value /\ (kind = "write" => ~e.pending)
      BY DEF Releases
    <3> QED BY <1>1, <1>k, <2>5, <3>1, <3>2, <3>3 DEF FlushAsked
  <2>6. Stored \/ Coming \/ \E k \in Mounts : FlushAsked(k)
    BY <2>1 DEF ClosedInv
  <2> QED BY <2>3, <2>4, <2>5, <2>6
<1> QED BY <1>4, <1>5, <1>6, <1>7, <1>8, <1>9, <1>10, <1>11, <1>12, <1>p, <1>13, <1>14 DEF Inv

\* The write has settled and the mount writes again, what was asked for meanwhile.
Rewrites(e, f) ==
  /\ f.phase = e.phase /\ f.value = e.value /\ f.stamp = e.stamp /\ f.saveTimer = e.saveTimer
  /\ f.phase = "open" => isDirty(f) /\ isDirty(e)
  /\ f.phase # "open" => ~f.retryTimer
  /\ e.pending /\ ~f.pending /\ ~f.flushPending
  /\ f.inFlight = e.value /\ f.background = e.background

LEMMA RewriteStep ==
  ASSUME TypeInv, MountInv, QueueInv, SlotInv, OrderInv, LatestInv, PendingInv, CoveredInv,
         HiddenInv, KeptInv, OpenInv, ClosedInv, NEW e \in Editor, NEW m, NEW o,
         queue # <<>>, slot.state # "running", m = Head(queue).mount, Head(queue).kind = "write",
         Rewrites(ed[m], e), ed' = [ed EXCEPT ![m] = e],
         o = operation(m, "write", e.value, e.stamp), queue' = Append(Tail(queue), o),
         slot' = Running, slips' \subseteq Slips, slips \subseteq slips',
         UNCHANGED <<db, cur, visible, edits, hides, typed, landed, skipped>>
  PROVE  Inv'
<1> DEFINE n == Len(queue)
<1>1. /\ m \in Mounts /\ ed'[m] = e /\ ed' \in [Mounts -> Editor] /\ ed[m] \in Editor
      /\ \A k \in Mounts : k # m => ed'[k] = ed[k]
  <2>1. ed \in [Mounts -> Editor] /\ queue \in Seq(Op)
    BY DEF TypeInv
  <2>2. m \in Mounts
    BY <2>1, Removed, OpFields
  <2> QED BY <2>1, <2>2
<1>s. e.stamp = edits /\ e.value \in Texts /\ e.phase # "unborn" /\ e.phase # "loading"
  <2>1. Sound(ed[m]) /\ ed[m].stamp = edits
    BY <1>1 DEF MountInv, LatestInv, Rewrites
  <2> QED BY <1>1, <2>1 DEF Sound, Rewrites, Editor
<1>o. /\ o \in Op /\ o.mount = m /\ o.kind = "write" /\ o.text = e.value /\ o.stamp = edits
      /\ o.text # NoText
  BY <1>1, <1>s, TextsAssumption DEF operation, Op, TypeInv
<1>q. /\ queue \in Seq(Op) /\ queue' \in Seq(Op) /\ DOMAIN queue = 1 .. n /\ DOMAIN queue' = 1 .. n
      /\ n \in Nat /\ n \in DOMAIN queue' /\ queue'[n] = o /\ Head(queue) = queue[1] /\ 1 \in DOMAIN queue
      /\ \A i \in DOMAIN queue' : i = n \/ (i + 1 \in DOMAIN queue /\ queue'[i] = queue[i + 1] /\ i + 1 # 1)
      /\ \A i \in DOMAIN queue :
           i = 1 \/ (i - 1 \in DOMAIN queue' /\ queue'[i - 1] = queue[i] /\ i - 1 < n)
  <2>1. queue \in Seq(Op)
    BY DEF TypeInv
  <2>2. 1 \in DOMAIN queue
    BY <2>1, Removed
  <2> QED BY <1>o, <2>1, <2>2, Renewed
<1> HIDE DEF n
<1>m. \A i \in DOMAIN queue : queue[i].mount \in Mounts /\ queue[i].stamp \in Nat
  BY <1>q, QueuedOps
<1>h. \A i \in DOMAIN queue : queue[i].mount = m /\ queue[i].kind = "write" => i = 1
  BY <1>q DEF QueueInv
<1>4. TypeInv'
  <2>1. slot' \in Outcomes
    BY DEF Outcomes, Running
  <2> QED BY <1>1, <1>q, <2>1 DEF TypeInv
<1>5. MountInv'
  <2>1. Sound(ed[m])
    BY <1>1 DEF MountInv
  <2>2. Sound(e)
    BY <1>s, <2>1 DEF Sound, Rewrites
  <2>3. e.phase = ed[m].phase
    BY DEF Rewrites
  <2> QED BY <1>1, <2>2, <2>3 DEF MountInv
<1>6. QueueInv'
  <2>1. ASSUME NEW i \in DOMAIN queue, i # 1, queue[i].mount = m PROVE Known(queue[i], e)
    <3>1. Known(queue[i], ed[m]) /\ queue[i].kind # "write"
      BY <1>h, <2>1 DEF QueueInv
    <3> QED BY <3>1 DEF Known, Rewrites
  <2>2. \A i \in DOMAIN queue : i # 1 => queue[i].mount <= cur /\ Known(queue[i], ed'[queue[i].mount])
    BY <1>1, <1>m, <2>1 DEF QueueInv
  <2>3. Known(o, e) /\ m <= cur
    BY <1>o, <1>q, <1>s DEF Known, Rewrites, QueueInv
  <2>4. \A i \in DOMAIN queue' : queue'[i].mount <= cur /\ Known(queue'[i], ed'[queue'[i].mount])
    BY <1>1, <1>o, <1>q, <2>2, <2>3
  <2>5. \A i \in DOMAIN queue' : i # n => ~(queue'[i].mount = m /\ queue'[i].kind = "write")
    BY <1>h, <1>q
  <2>6. \A i, j \in DOMAIN queue' :
          i # n /\ j # n /\ queue'[i].mount = queue'[j].mount /\ queue'[i].kind = queue'[j].kind => i + 1 = j + 1
    BY <1>q DEF QueueInv
  <2>7. \A i, j \in DOMAIN queue' : i + 1 = j + 1 => i = j
    BY <1>q
  <2>8. \A i, j \in DOMAIN queue' :
          queue'[i].mount = queue'[j].mount /\ queue'[i].kind = queue'[j].kind => i = j
    <3> TAKE i, j \in DOMAIN queue'
    <3> HAVE queue'[i].mount = queue'[j].mount /\ queue'[i].kind = queue'[j].kind
    <3>1. CASE i = n
      <4>1. queue'[j].mount = m /\ queue'[j].kind = "write"
        BY <1>o, <1>q, <3>1
      <4> QED BY <2>5, <3>1, <4>1
    <3>2. CASE j = n
      <4>1. queue'[i].mount = m /\ queue'[i].kind = "write"
        BY <1>o, <1>q, <3>2
      <4> QED BY <2>5, <3>2, <4>1
    <3> QED BY <2>6, <2>7, <3>1, <3>2
  <2>9. ASSUME NEW k \in Mounts, ed'[k].inFlight # NoText PROVE ops(queue', k, "write") # {}
    <3>1. CASE k = m
      BY <1>o, <1>q, <3>1 DEF ops
    <3>2. CASE k # m
      <4>1. PICK i \in ops(queue, k, "write") : TRUE
        BY <1>1, <2>9, <3>2 DEF QueueInv
      <4>2. i # 1 /\ i \in DOMAIN queue /\ queue[i].mount = k /\ queue[i].kind = "write"
        BY <1>q, <3>2, <4>1 DEF ops
      <4>3. i - 1 \in ops(queue', k, "write")
        BY <1>q, <4>2 DEF ops
      <4> QED BY <4>3
    <3> QED BY <3>1, <3>2
  <2> QED BY <2>4, <2>8, <2>9 DEF QueueInv
<1>7. SlotInv'
  BY DEF SlotInv, Running
<1>8. OrderInv'
  <2>1. landed <= edits /\ landed \in Nat /\ edits \in Nat
    BY BoundsAssumption DEF OrderInv, TypeInv
  <2>2. Stamped(o, landed, edits)
    BY <1>o, <2>1 DEF Stamped
  <2>3. \A i \in DOMAIN queue' : Stamped(queue'[i], landed, edits)
    BY <1>q, <2>2 DEF OrderInv
  <2>4. \A i \in DOMAIN queue' : queue'[i].kind # "get" => queue'[i].stamp <= edits
    BY <2>3 DEF Stamped
  <2>5. ASSUME NEW i \in DOMAIN queue', NEW j \in DOMAIN queue', i < j,
               queue'[i].kind # "get", queue'[j].kind # "get"
        PROVE  queue'[i].stamp <= queue'[j].stamp
    <3>1. CASE j = n
      BY <1>o, <1>q, <2>4, <2>5, <3>1
    <3>2. CASE j # n
      <4>1. i # n /\ i + 1 < j + 1
        BY <1>q, <2>5, <3>2
      <4> QED BY <1>q, <2>5, <3>2, <4>1 DEF OrderInv
    <3> QED BY <3>1, <3>2
  <2>6. UNCHANGED <<landed, edits>>
    OBVIOUS
  <2> QED BY <2>1, <2>3, <2>5, <2>6 DEF OrderInv
<1>9. LatestInv'
  <2>1. e.phase = "open" => e.value = typed
    BY <1>1 DEF LatestInv, Rewrites
  <2> QED BY <1>1, <1>s, <2>1 DEF LatestInv
<1>10. PendingInv'
  <2> SUFFICES ASSUME NEW j \in Mounts, NEW k \in Mounts, j < k, k <= cur, ed'[j].pending
              PROVE  Ahead(queue', j, k)
    BY DEF PendingInv
  <2>1. j # m /\ ed[j].pending
    BY <1>1 DEF Rewrites
  <2>2. Ahead(queue, j, k)
    BY <2>1 DEF PendingInv
  <2>3. PICK a \in ops(queue, j, "write"), b \in ops(queue, k, "get") : a < b
    BY <2>2 DEF Ahead
  <2>4. a \in DOMAIN queue /\ b \in DOMAIN queue /\ a # 1 /\ b # 1
    BY <1>q, <2>1, <2>3 DEF ops
  <2>5. a - 1 \in ops(queue', j, "write") /\ b - 1 \in ops(queue', k, "get")
    BY <1>q, <2>3, <2>4 DEF ops
  <2>6. a - 1 < b - 1
    BY <1>q, <2>3, <2>4
  <2> QED BY <2>5, <2>6 DEF Ahead
<1>b. ASSUME NEW k \in Mounts, k # m, NEW text, Backed(queue, k, text) PROVE Backed(queue', k, text)
  <2>1. PICK i \in ops(queue, k, "background") :
               queue[i].text = text /\ \A j \in ops(queue, k, "write") : j < i
    BY <1>b DEF Backed
  <2>2. i \in DOMAIN queue /\ i # 1 /\ i \in Nat
    BY <1>q, <1>b, <2>1 DEF ops
  <2>3. i - 1 \in ops(queue', k, "background") /\ queue'[i - 1].text = text
    BY <1>q, <2>1, <2>2 DEF ops
  <2>4. \A j \in ops(queue', k, "write") : j \in Nat /\ j + 1 \in ops(queue, k, "write")
    BY <1>o, <1>q, <1>b DEF ops
  <2>5. \A j \in ops(queue', k, "write") : j < i - 1
    <3> TAKE j \in ops(queue', k, "write")
    <3>1. j \in Nat /\ j + 1 < i
      BY <2>1, <2>4
    <3> QED BY <2>2, <3>1
  <2> QED BY <2>3, <2>5 DEF Backed
<1>11. CoveredInv'
  <2> SUFFICES ASSUME NEW k \in Mounts, ed'[k].phase = "open", isDirty(ed'[k]), "disarmed" \notin slips'
              PROVE  Covered(ed'[k], queue', k)
    BY DEF CoveredInv
  <2>1. CASE k = m
    BY <1>1, <2>1 DEF Covered, Rewrites
  <2>2. CASE k # m
    <3>1. Covered(ed[k], queue, k)
      BY <1>1, <2>2 DEF CoveredInv
    <3> QED BY <1>1, <1>b, <2>2, <3>1 DEF Covered
  <2> QED BY <2>1, <2>2
<1>p. KeptInv'
  <2> SUFFICES ASSUME ~visible, ~skipped, NEW k \in Mounts, ed'[k].phase = "open", isDirty(ed'[k])
              PROVE  Kept(ed'[k], queue', k)
    BY DEF KeptInv
  <2>1. CASE k = m
    BY <1>1, <2>1 DEF Kept, Rewrites
  <2>2. CASE k # m
    <3>1. Kept(ed[k], queue, k)
      BY <1>1, <2>2 DEF KeptInv
    <3> QED BY <1>1, <1>b, <2>2, <3>1 DEF Kept
  <2> QED BY <2>1, <2>2
<1>12. HiddenInv'
  BY <1>1 DEF HiddenInv, Rewrites
<1>13. OpenInv'
  <2> SUFFICES ASSUME slips' = {}, NEW k \in Mounts, ed'[k].phase = "open" PROVE Alone(k)'
    BY DEF OpenInv
  <2>1. ed[k].phase = "open" /\ slips = {}
    BY <1>1 DEF Rewrites
  <2>2. Alone(k)
    BY <2>1 DEF OpenInv
  <2>3. k = m
    BY <1>q, <2>2 DEF Alone
  <2>4. \A i \in DOMAIN queue' : queue'[i].mount = m
    BY <1>o, <1>q, <2>2, <2>3 DEF Alone
  <2>5. ed'[k].value = typed /\ \A j \in Mounts : j < k => ~ed'[j].pending
    <3>1. \A j \in Mounts : j < k => j # k
      BY Newest
    <3> QED BY <1>1, <2>2, <2>3, <3>1 DEF Alone, Rewrites
  <2>6. isDirty(e)
    BY <1>1, <2>3 DEF Rewrites
  <2> QED BY <1>1, <2>3, <2>4, <2>5, <2>6 DEF Alone
<1>14. ClosedInv'
  <2> SUFFICES ASSUME slips' = {}, Closed' PROVE Coming'
    BY DEF ClosedInv
  <2>1. slips = {} /\ Closed
    BY <1>1 DEF Closed, Rewrites
  <2>2. ~NonePending
    BY <1>1 DEF NonePending, Rewrites
  <2>3. PICK k \in Mounts : FlushAsked(k)
    BY <2>1, <2>2 DEF ClosedInv, Stored, Coming
  <2>4. k = m
    BY <1>1, <2>3 DEF FlushAsked, Rewrites
  <2>5. NonePending' /\ e.value = typed
    BY <1>1, <2>3, <2>4 DEF FlushAsked, NonePending, Rewrites
  <2>6. \A j \in DOMAIN queue' : ~(j > n)
    BY <1>q
  <2>7. Final(queue', n, typed)
    BY <1>o, <1>q, <2>5, <2>6 DEF Final
  <2> QED BY <1>q, <2>5, <2>7 DEF Coming
<1> QED BY <1>4, <1>5, <1>6, <1>7, <1>8, <1>9, <1>10, <1>11, <1>12, <1>p, <1>13, <1>14 DEF Inv

-----------------------------------------------------------------------------
(* The actions *)

\* What saving does to the open editor e, one of its timers being spent.
LEMMA SaveStep ==
  ASSUME TypeInv, MountInv, QueueInv, SlotInv, OrderInv, LatestInv, PendingInv, CoveredInv,
         HiddenInv, KeptInv, OpenInv, ClosedInv, Open, NEW e,
         e = ed[cur] \/ e = [ed[cur] EXCEPT !.saveTimer = FALSE], saveLatest(cur, e),
         UNCHANGED <<db, slot, cur, visible, edits, hides, typed, landed, slips, skipped>>
  PROVE  Inv'
<1>1. cur # 0 /\ cur \in Mounts /\ ed[cur] \in Editor /\ ed[cur].phase = "open"
  <2>1. cur # 0 /\ ed[cur].phase = "open"
    BY DEF Open
  <2>2. ed \in [Mounts -> Editor] /\ cur \in Mounts
    BY <2>1, BoundsAssumption DEF TypeInv, Mounts
  <2> QED BY <2>1, <2>2
<1>2. e \in Editor /\ (dirty(e) <=> isDirty(ed[cur]))
  BY <1>1 DEF Editor, dirty, isDirty
<1>3. /\ e.value = ed[cur].value /\ e.stamp = ed[cur].stamp /\ e.lastSaved = ed[cur].lastSaved
      /\ e.inFlight = ed[cur].inFlight /\ e.background = ed[cur].background
      /\ e.phase = ed[cur].phase /\ e.pending = ed[cur].pending
      /\ e.flushPending = ed[cur].flushPending /\ (e.saveTimer => ed[cur].saveTimer)
  BY <1>1 DEF Editor
<1>4. /\ visible' \in BOOLEAN /\ hides' \in 0 .. MaxHides /\ slips' \subseteq Slips /\ slips \subseteq slips'
      /\ ~visible' => ~e.saveTimer
      /\ skipped' \in BOOLEAN
  BY <1>1, <1>3 DEF TypeInv, HiddenInv
<1>5. ~ed[cur].flushPending
  BY <1>1 DEF MountInv, Sound
<1>6. CASE ~dirty(e) /\ ed' = [ed EXCEPT ![cur] = [e EXCEPT !.retryTimer = FALSE]] /\ UNCHANGED queue
  <2> DEFINE f == [e EXCEPT !.retryTimer = FALSE]
  <2>1. f \in Editor /\ Calms(ed[cur], f) /\ ~isDirty(f) /\ f.phase = "open" /\ f.saveTimer = e.saveTimer
    BY <1>1, <1>2, <1>3, <1>5, <1>6 DEF Editor, Calms, isDirty, dirty
  <2>2. ed' = [ed EXCEPT ![cur] = f] /\ UNCHANGED queue
    BY <1>6
  <2> HIDE DEF f
  <2> QED BY <1>1, <1>4, <2>1, <2>2, CalmStep
<1>7. CASE /\ dirty(e) /\ e.inFlight # NoText /\ UNCHANGED queue
           /\ ed' = [ed EXCEPT ![cur] = [[[e EXCEPT !.retryTimer = FALSE] EXCEPT !.saveState = "saving"]
                                            EXCEPT !.pending = TRUE]]
  <2> DEFINE f == [[[e EXCEPT !.retryTimer = FALSE] EXCEPT !.saveState = "saving"] EXCEPT !.pending = TRUE]
  <2>1. f \in Editor /\ Calms(ed[cur], f) /\ f.pending /\ f.phase = "open" /\ f.saveTimer = e.saveTimer
    BY <1>1, <1>2, <1>3, <1>5, <1>7 DEF Editor, SaveStates, Calms
  <2>2. ed' = [ed EXCEPT ![cur] = f] /\ UNCHANGED queue
    BY <1>7
  <2> HIDE DEF f
  <2>3. Covered(f, queue, cur)
    BY <2>1 DEF Covered
  <2>4. ~visible' /\ ~skipped' => Kept(f, queue, cur)
    <3>1. ~visible' /\ ~skipped' => Kept(ed[cur], queue, cur)
      BY <1>1, <1>2, <1>7 DEF KeptInv
    <3>2. f.value = ed[cur].value /\ f.inFlight = ed[cur].inFlight /\ f.inFlight # NoText
      BY <1>3, <1>7, <2>1 DEF Calms
    <3> QED BY <3>1, <3>2 DEF Kept
  <2> QED BY <1>1, <1>4, <2>1, <2>2, <2>3, <2>4, CalmStep
<1>8. CASE /\ dirty(e) /\ e.inFlight = NoText
           /\ startWrite(cur, [[e EXCEPT !.retryTimer = FALSE] EXCEPT !.saveState = "saving"], e.value, FALSE, queue)
  <2> DEFINE b == [[e EXCEPT !.retryTimer = FALSE] EXCEPT !.saveState = "saving"]
             f == [b EXCEPT !.inFlight = e.value, !.flushOutcome = FALSE]
  <2>0. b.stamp = e.stamp /\ e.value \in Texts
    BY <1>2 DEF Editor
  <2>1. /\ f \in Editor /\ Queues(ed[cur], f, "write") /\ f.saveTimer = e.saveTimer
        /\ f.value = e.value /\ f.stamp = e.stamp
    BY <1>1, <1>2, <1>3, <1>5, <1>8 DEF Editor, SaveStates, Queues
  <2>2. ed' = [ed EXCEPT ![cur] = f] /\ queue' = Append(queue, operation(cur, "write", f.value, f.stamp))
    BY <1>8, <2>0, <2>1 DEF startWrite
  <2> HIDE DEF f, b
  <2> QED BY <1>1, <1>4, <2>1, <2>2, QueueStep
<1> QED BY <1>6, <1>7, <1>8 DEF saveLatest

LEMMA TimerSteps ==
  ASSUME TypeInv, MountInv, QueueInv, SlotInv, OrderInv, LatestInv, PendingInv, CoveredInv,
         HiddenInv, KeptInv, OpenInv, ClosedInv, SaveTimerFires \/ RetryTimerFires
  PROVE  Inv'
<1>1. CASE SaveTimerFires
  <2>1. /\ Open /\ saveLatest(cur, [ed[cur] EXCEPT !.saveTimer = FALSE])
        /\ UNCHANGED <<db, slot, cur, visible, edits, hides, typed, landed, slips, skipped>>
    BY <1>1 DEF SaveTimerFires
  <2>2. PICK e : e = [ed[cur] EXCEPT !.saveTimer = FALSE]
    OBVIOUS
  <2>3. saveLatest(cur, e)
    BY <2>1, <2>2 DEF saveLatest, startWrite
  <2> QED BY <2>1, <2>2, <2>3, SaveStep
<1>2. CASE RetryTimerFires
  <2>1. /\ Open /\ saveLatest(cur, ed[cur])
        /\ UNCHANGED <<db, slot, cur, visible, edits, hides, typed, landed, slips, skipped>>
    BY <1>2 DEF RetryTimerFires
  <2>2. PICK e : e = ed[cur]
    OBVIOUS
  <2>3. saveLatest(cur, e)
    BY <2>1, <2>2 DEF saveLatest, startWrite
  <2> QED BY <2>1, <2>2, <2>3, SaveStep
<1> QED BY <1>1, <1>2

LEMMA HideStep ==
  ASSUME TypeInv, MountInv, QueueInv, SlotInv, OrderInv, LatestInv, PendingInv, CoveredInv,
         HiddenInv, KeptInv, OpenInv, ClosedInv, Hide
  PROVE  Inv'
<1>1. /\ visible' = FALSE /\ visible' \in BOOLEAN /\ hides' \in 0 .. MaxHides
      /\ skipped' = (Open /\ dirty(ed[cur]) /\ ed[cur].background /\ ~UnderWay(cur))
      /\ UNCHANGED <<db, slot, cur, edits, typed, landed>>
  <2>1. /\ visible' = FALSE /\ hides' = hides + 1 /\ hides < MaxHides
        /\ skipped' = (Open /\ dirty(ed[cur]) /\ ed[cur].background /\ ~UnderWay(cur))
        /\ UNCHANGED <<db, slot, cur, edits, typed, landed>>
    BY DEF Hide
  <2>2. hides' \in 0 .. MaxHides
    BY <2>1, BoundsAssumption DEF TypeInv
  <2> QED BY <2>1, <2>2
<1>s. skipped' \in BOOLEAN
  BY <1>1
<1>2. CASE ~Open
  <2>1. UNCHANGED <<ed, queue, slips>>
    BY <1>2 DEF Hide
  <2>2. \A m \in Mounts : ed[m].phase # "open"
    <3>1. \A m \in Mounts : ed[m].phase = "open" => m = cur /\ cur # 0
      BY Newest, BoundsAssumption DEF Mounts
    <3> QED BY <1>2, <3>1 DEF Open
  <2>3. TypeInv' /\ HiddenInv' /\ KeptInv'
    BY <1>1, <1>s, <2>1, <2>2 DEF TypeInv, HiddenInv, KeptInv, MountInv, Sound
  <2>4. MountInv' /\ QueueInv' /\ SlotInv' /\ OrderInv' /\ LatestInv' /\ PendingInv' /\ CoveredInv'
    BY <1>1, <2>1 DEF MountInv, QueueInv, SlotInv, OrderInv, LatestInv, PendingInv, CoveredInv
  <2>5. OpenInv' /\ ClosedInv'
    BY <1>1, <2>1 DEF OpenInv, Alone, ClosedInv, Closed, Stored, Coming, FlushAsked, NonePending
  <2> QED BY <2>3, <2>4, <2>5 DEF Inv
<1>3. CASE Open
  <2>1. cur # 0 /\ cur \in Mounts /\ ed[cur] \in Editor /\ ed[cur].phase = "open"
    <3>1. cur # 0 /\ ed[cur].phase = "open"
      BY <1>3 DEF Open
    <3>2. ed \in [Mounts -> Editor] /\ cur \in Mounts
      BY <3>1, BoundsAssumption DEF TypeInv, Mounts
    <3> QED BY <3>1, <3>2
  <2>2. PICK e : e = ed[cur]
    OBVIOUS
  <2>3. ~e.flushPending
    BY <2>1, <2>2 DEF MountInv, Sound
  <2>4. dirty(e) <=> isDirty(ed[cur])
    BY <2>2 DEF dirty, isDirty
  <2>5. CASE /\ ~dirty(e) \/ e.background
             /\ ed' = [ed EXCEPT ![cur] = [e EXCEPT !.saveTimer = FALSE]]
             /\ slips' = IF dirty(e) /\ e.saveTimer THEN slips \cup {"disarmed"} ELSE slips
             /\ UNCHANGED queue
    <3> DEFINE f == [e EXCEPT !.saveTimer = FALSE]
    <3>1. f \in Editor /\ Calms(ed[cur], f) /\ ~f.saveTimer /\ f.phase = "open"
      BY <2>1, <2>2, <2>3 DEF Editor, Calms
    <3>2. slips' \subseteq Slips /\ slips \subseteq slips'
      BY <2>5 DEF Slips, TypeInv
    <3>3. isDirty(f) => dirty(e)
      BY <2>1, <2>2 DEF isDirty, dirty, Editor
    <3>4. ASSUME isDirty(f), "disarmed" \notin slips' PROVE Covered(f, queue, cur)
      <4>1. ~e.saveTimer /\ "disarmed" \notin slips
        BY <2>5, <3>3, <3>4
      <4>2. Covered(e, queue, cur)
        BY <2>1, <2>2, <2>4, <3>3, <3>4, <4>1 DEF CoveredInv
      <4>3. f.retryTimer = e.retryTimer /\ f.pending = e.pending /\ f.inFlight = e.inFlight /\ f.value = e.value
        BY <2>1, <2>2 DEF Editor
      <4> QED BY <4>1, <4>2, <4>3 DEF Covered
    <3>5. ed' = [ed EXCEPT ![cur] = f]
      BY <2>5
    <3>6. ASSUME ~skipped', isDirty(f) PROVE Kept(f, queue, cur)
      <4>1. UnderWay(cur)
        BY <1>1, <1>3, <2>2, <2>5, <3>3, <3>6
      <4>2. f.value = ed[cur].value /\ f.inFlight = ed[cur].inFlight
        BY <3>1 DEF Calms
      <4>3. CASE ed[cur].inFlight = ed[cur].value
        BY <4>2, <4>3 DEF Kept
      <4>4. ASSUME NEW i \in DOMAIN queue, queue[i].mount = cur, queue[i].text = ed[cur].value,
                   \A j \in DOMAIN queue : queue[j].mount = cur => j <= i
            PROVE  Kept(f, queue, cur)
        <5>1. Known(queue[i], ed[cur]) /\ queue[i].kind \in {"write", "background"}
          <6>1. Known(queue[i], ed[cur]) /\ queue[i].kind \in {"get", "write", "background"}
            BY <4>4, QueuedOps DEF QueueInv, TypeInv
          <6> QED BY <2>1, <6>1 DEF Known
        <5>2. CASE queue[i].kind = "write"
          BY <4>2, <4>4, <5>1, <5>2 DEF Known, Kept
        <5>3. CASE queue[i].kind = "background"
          <6>1. i \in ops(queue, cur, "background") /\ DOMAIN queue \subseteq Nat
            BY <4>4, <5>3 DEF ops, TypeInv
          <6>2. \A j \in ops(queue, cur, "write") : j \in Nat /\ j <= i /\ j # i
            BY <4>4, <5>3, <6>1 DEF ops
          <6>3. \A j \in ops(queue, cur, "write") : j < i
            BY <6>1, <6>2 DEF ops
          <6> QED BY <4>2, <4>4, <6>1, <6>3 DEF Backed, Kept
        <5> QED BY <5>1, <5>2, <5>3
      <4> QED BY <4>1, <4>3, <4>4 DEF UnderWay
    <3> HIDE DEF f
    <3> QED BY <1>1, <1>s, <2>1, <2>5, <3>1, <3>2, <3>4, <3>5, <3>6, CalmStep
  <2> DEFINE b == [[e EXCEPT !.saveTimer = FALSE] EXCEPT !.retryTimer = FALSE, !.saveState = "saving"]
  <2>b. /\ b \in Editor /\ b.stamp = e.stamp /\ b.value = e.value /\ e.value \in Texts
        /\ b.lastSaved = e.lastSaved /\ b.phase = "open" /\ b.background = e.background
        /\ b.inFlight = e.inFlight /\ b.pending = e.pending /\ ~b.flushPending
        /\ ~b.saveTimer
    BY <2>1, <2>2, <2>3 DEF Editor, SaveStates
  <2> HIDE DEF b
  <2>6. CASE /\ dirty(e) /\ ~e.background /\ e.inFlight = NoText
             /\ startWrite(cur, b, e.value, FALSE, queue) /\ UNCHANGED slips
    <3> DEFINE f == [b EXCEPT !.inFlight = e.value, !.flushOutcome = FALSE]
    <3>1. f \in Editor /\ ~f.saveTimer /\ f.value = e.value /\ f.stamp = e.stamp
      BY <2>b DEF Editor
    <3>2. Queues(ed[cur], f, "write")
      BY <2>1, <2>2, <2>4, <2>6, <2>b DEF Editor, Queues
    <3>3. ed' = [ed EXCEPT ![cur] = f] /\ queue' = Append(queue, operation(cur, "write", f.value, f.stamp))
      BY <2>6, <2>b, <3>1 DEF startWrite
    <3>4. slips' \subseteq Slips /\ slips \subseteq slips'
      BY <2>6 DEF TypeInv
    <3> HIDE DEF f
    <3> QED BY <1>1, <1>s, <2>1, <3>1, <3>2, <3>3, <3>4, QueueStep
  <2>7. CASE /\ dirty(e) /\ ~e.background /\ e.inFlight # NoText
             /\ ed' = [ed EXCEPT ![cur] = [b EXCEPT !.background = TRUE]]
             /\ queue' = Append(queue, operation(cur, "background", e.value, e.stamp))
             /\ UNCHANGED slips
    <3> DEFINE f == [b EXCEPT !.background = TRUE]
    <3>1. f \in Editor /\ ~f.saveTimer /\ f.value = e.value /\ f.stamp = e.stamp
      BY <2>b DEF Editor
    <3>2. Queues(ed[cur], f, "background")
      BY <2>1, <2>2, <2>4, <2>7, <2>b DEF Editor, Queues
    <3>3. ed' = [ed EXCEPT ![cur] = f] /\ queue' = Append(queue, operation(cur, "background", f.value, f.stamp))
      BY <2>7, <3>1
    <3>4. slips' \subseteq Slips /\ slips \subseteq slips'
      BY <2>7 DEF TypeInv
    <3> HIDE DEF f
    <3> QED BY <1>1, <1>s, <2>1, <3>1, <3>2, <3>3, <3>4, QueueStep
  <2> USE DEF b
  <2> QED BY <1>3, <2>2, <2>5, <2>6, <2>7 DEF Hide
<1> QED BY <1>2, <1>3

LEMMA LeaveStep ==
  ASSUME TypeInv, MountInv, QueueInv, SlotInv, OrderInv, LatestInv, PendingInv, CoveredInv,
         HiddenInv, KeptInv, OpenInv, ClosedInv, Leave
  PROVE  Inv'
<1>1. /\ cur # 0 /\ ed[cur].phase \in {"loading", "open"} /\ visible
      /\ UNCHANGED <<db, slot, cur, visible, edits, hides, typed, landed, slips, skipped>>
  BY DEF Leave
<1>2. ed[cur] \in Editor /\ cur \in Mounts
  <2>1. ed \in [Mounts -> Editor] /\ cur \in Mounts
    BY <1>1, BoundsAssumption DEF TypeInv, Mounts
  <2> QED BY <2>1
<1>3. /\ visible' \in BOOLEAN /\ hides' \in 0 .. MaxHides /\ slips' \subseteq Slips /\ slips \subseteq slips'
      /\ skipped' \in BOOLEAN
  BY <1>1 DEF TypeInv
<1>4. PICK e : e = ed[cur]
  OBVIOUS
<1>5. (dirty(e) <=> isDirty(ed[cur])) /\ ~e.flushPending
  BY <1>1, <1>2, <1>4 DEF dirty, isDirty, MountInv, Sound
<1> DEFINE g == [e EXCEPT !.phase = "gone", !.saveTimer = FALSE, !.retryTimer = FALSE]
<1>g. /\ g \in Editor /\ g.stamp = e.stamp /\ g.value = e.value /\ e.value \in Texts
      /\ g.lastSaved = e.lastSaved /\ g.phase = "gone" /\ g.background = e.background
      /\ g.inFlight = e.inFlight /\ g.pending = e.pending /\ ~g.flushPending
      /\ ~g.saveTimer /\ ~g.retryTimer
  BY <1>2, <1>4, <1>5 DEF Editor
<1> HIDE DEF g
<1>6. CASE (e.phase = "loading" \/ ~dirty(e)) /\ ed' = [ed EXCEPT ![cur] = g] /\ UNCHANGED queue
  <2>1. Calms(ed[cur], g)
    BY <1>1, <1>4, <1>g DEF Calms
  <2>2. ~(g.phase = "gone" /\ ed[cur].phase = "open" /\ isDirty(g))
    BY <1>4, <1>5, <1>6, <1>g DEF isDirty
  <2> QED BY <1>1, <1>2, <1>3, <1>6, <1>g, <2>1, <2>2, CalmStep
<1>7. CASE /\ e.phase = "open" /\ dirty(e) /\ e.inFlight # NoText /\ UNCHANGED queue
           /\ ed' = [ed EXCEPT ![cur] = [g EXCEPT !.pending = TRUE, !.flushPending = TRUE]]
  <2> DEFINE f == [g EXCEPT !.pending = TRUE, !.flushPending = TRUE]
  <2>1. f \in Editor /\ f.pending /\ f.flushPending /\ f.phase = "gone" /\ ~f.saveTimer
    BY <1>g DEF Editor
  <2>2. Calms(ed[cur], f)
    BY <1>1, <1>2, <1>4, <1>5, <1>7, <1>g DEF Calms, Editor
  <2>3. ed' = [ed EXCEPT ![cur] = f]
    BY <1>7
  <2> HIDE DEF f
  <2> QED BY <1>1, <1>2, <1>3, <1>7, <2>1, <2>2, <2>3, CalmStep
<1>8. CASE /\ e.phase = "open" /\ dirty(e) /\ e.inFlight = NoText
           /\ startWrite(cur, g, e.value, TRUE, queue)
  <2> DEFINE f == [g EXCEPT !.inFlight = e.value, !.flushOutcome = TRUE]
  <2>1. f \in Editor /\ ~f.saveTimer /\ f.value = e.value /\ f.stamp = e.stamp
    BY <1>g DEF Editor
  <2>2. Queues(ed[cur], f, "write")
    BY <1>1, <1>2, <1>4, <1>5, <1>8, <1>g DEF Editor, Queues
  <2>3. ed' = [ed EXCEPT ![cur] = f] /\ queue' = Append(queue, operation(cur, "write", f.value, f.stamp))
    BY <1>8, <1>g, <2>1 DEF startWrite
  <2> HIDE DEF f
  <2> QED BY <1>1, <1>2, <1>3, <2>1, <2>2, <2>3, QueueStep
<1> USE DEF g
<1> QED BY <1>4, <1>6, <1>7, <1>8 DEF Leave

LEMMA TypeStep ==
  ASSUME TypeInv, MountInv, QueueInv, SlotInv, OrderInv, LatestInv, PendingInv, CoveredInv,
         HiddenInv, KeptInv, OpenInv, ClosedInv, NEW t \in Texts, Type(t)
  PROVE  Inv'
<1> DEFINE e == [ed[cur] EXCEPT !.value = t, !.stamp = edits + 1, !.saveState = "idle",
                                !.saveTimer = (t # ed[cur].lastSaved)]
<1>0. /\ cur # 0 /\ ed[cur].phase = "open" /\ visible /\ typed' = t /\ edits' = edits + 1 /\ edits < MaxEdits
      /\ slips' = slips \cup {f \in {"reverted"} : t = ed[cur].lastSaved /\ (db # t \/ Busy(cur))}
      /\ UNCHANGED <<db, queue, slot, cur, visible, hides, landed, skipped>>
  BY DEF Type, Open
<1>1. ed \in [Mounts -> Editor] /\ cur \in Mounts /\ ed[cur] \in Editor
  <2>1. ed \in [Mounts -> Editor] /\ cur \in Mounts
    BY <1>0, BoundsAssumption DEF TypeInv, Mounts
  <2> QED BY <2>1
<1>2. edits \in Nat /\ edits' \in 0 .. MaxEdits /\ edits' \in Nat /\ landed \in Nat
  BY <1>0, BoundsAssumption DEF TypeInv
<1>3. ed' = [ed EXCEPT ![cur] = e]
  BY <1>1 DEF Type, Editor
<1>4. /\ e \in Editor /\ e.value = t /\ e.stamp = edits' /\ e.phase = "open"
      /\ e.lastSaved = ed[cur].lastSaved /\ e.inFlight = ed[cur].inFlight
      /\ e.pending = ed[cur].pending /\ e.flushPending = ed[cur].flushPending
      /\ e.background = ed[cur].background
  BY <1>0, <1>1, <1>2 DEF Editor, SaveStates
<1>5. e.saveTimer = (t # ed[cur].lastSaved)
  BY <1>1 DEF Editor
<1> HIDE DEF e
<1>6. ed' \in [Mounts -> Editor] /\ ed'[cur] = e /\ \A m \in Mounts : m # cur => ed'[m] = ed[m]
  BY <1>1, <1>3, <1>4
<1>7. \A m \in Mounts : ed[m].phase \in {"loading", "open"} => m = cur
  BY Newest
<1>p. \A m \in Mounts : m # cur => ~ed[m].pending
  <2> SUFFICES ASSUME NEW m \in Mounts, m # cur, ed[m].pending PROVE FALSE
    OBVIOUS
  <2>1. m < cur /\ cur <= cur
    BY <1>1, Newest DEF Mounts
  <2>2. PICK j \in ops(queue, cur, "get") : TRUE
    BY <1>1, <2>1 DEF PendingInv, Ahead
  <2>3. Known(queue[j], ed[cur]) /\ queue[j].kind = "get"
    BY <2>2 DEF QueueInv, ops
  <2> QED BY <1>0, <2>3 DEF Known
<1>8. TypeInv'
  <2>1. slips' \subseteq Slips
    BY <1>0 DEF TypeInv, Slips
  <2> QED BY <1>0, <1>2, <1>6, <2>1 DEF TypeInv
<1>9. MountInv'
  <2>1. Sound(e)
    BY <1>0, <1>1, <1>4 DEF MountInv, Sound
  <2> QED BY <1>0, <1>4, <1>6, <2>1 DEF MountInv
<1>10. QueueInv'
  <2>1. \A i \in DOMAIN queue : queue[i].mount \in Mounts
    BY QueuedOps DEF TypeInv
  <2>2. ASSUME NEW op, Known(op, ed[cur]) PROVE Known(op, e)
    BY <1>0, <1>4, <2>2 DEF Known
  <2>3. \A i \in DOMAIN queue : Known(queue[i], ed'[queue[i].mount])
    BY <1>6, <2>1, <2>2 DEF QueueInv
  <2>4. \A m \in Mounts : ed'[m].inFlight # NoText => ops(queue, m, "write") # {}
    BY <1>4, <1>6 DEF QueueInv
  <2> QED BY <1>0, <2>3, <2>4 DEF QueueInv
<1>11. SlotInv'
  BY <1>0 DEF SlotInv
<1>12. OrderInv'
  <2>1. landed <= edits'
    BY <1>0, <1>2 DEF OrderInv
  <2>2. \A i \in DOMAIN queue : queue[i].stamp \in Nat
    BY QueuedOps DEF TypeInv
  <2>3. \A i \in DOMAIN queue : Stamped(queue[i], landed, edits')
    BY <1>0, <1>2, <2>2 DEF OrderInv, Stamped
  <2> QED BY <1>0, <2>1, <2>3 DEF OrderInv
<1>13. LatestInv'
  BY <1>0, <1>4, <1>6, <1>7, <1>p DEF LatestInv
<1>14. PendingInv'
  BY <1>0, <1>4, <1>6 DEF PendingInv
<1>15. CoveredInv'
  <2>1. isDirty(e) => e.saveTimer
    BY <1>4, <1>5 DEF isDirty
  <2> QED BY <1>6, <1>7, <2>1 DEF CoveredInv, Covered
<1>16. HiddenInv' /\ KeptInv'
  BY <1>0 DEF HiddenInv, KeptInv
<1>17. OpenInv'
  <2> SUFFICES ASSUME slips' = {}, NEW m \in Mounts, ed'[m].phase = "open" PROVE Alone(m)'
    BY DEF OpenInv
  <2>1. m = cur /\ slips = {}
    BY <1>0, <1>6, <1>7
  <2>2. Alone(cur)
    BY <1>0, <1>1, <2>1 DEF OpenInv
  <2>3. \A k \in Mounts : k < m => k # m
    BY <2>1, Newest
  <2>4. ASSUME ~isDirty(e)
        PROVE  queue = <<>> /\ e.inFlight = NoText /\ ~e.background /\ db = t
    <3>1. db = t /\ ed[cur].inFlight = NoText /\ ~ed[cur].background
      BY <1>0, <1>4, <2>4 DEF isDirty, Busy
    <3>2. \A i \in DOMAIN queue : Known(queue[i], ed[cur])
      BY <2>2 DEF QueueInv, Alone
    <3>3. \A i \in DOMAIN queue : queue[i].kind \in {"get", "write", "background"}
      BY QueuedOps DEF TypeInv
    <3>4. DOMAIN queue = {}
      BY <1>0, <3>1, <3>2, <3>3, TextsAssumption DEF Known
    <3>5. queue = <<>>
      BY <3>4, Emptied DEF TypeInv
    <3> QED BY <1>4, <3>1, <3>5
  <2> QED BY <1>0, <1>4, <1>6, <2>1, <2>2, <2>3, <2>4 DEF Alone
<1>18. ClosedInv'
  BY <1>1, <1>4, <1>6 DEF ClosedInv, Closed
<1> QED BY <1>8, <1>9, <1>10, <1>11, <1>12, <1>13, <1>14, <1>15, <1>16, <1>17, <1>18 DEF Inv

\* The refs and state of a freshly mounted editor.
LEMMA Mounted ==
  ASSUME NEW phase \in {"unborn", "loading", "open", "gone"}, NEW t \in Texts
  PROVE  /\ mounted(phase, t) \in Editor /\ mounted(phase, t).phase = phase
         /\ mounted(phase, t).value = t /\ mounted(phase, t).lastSaved = t
         /\ ~isDirty(mounted(phase, t)) /\ Sound(mounted(phase, t))
         /\ mounted(phase, t).inFlight = NoText /\ ~mounted(phase, t).pending
         /\ ~mounted(phase, t).background /\ ~mounted(phase, t).saveTimer
         /\ ~mounted(phase, t).retryTimer /\ ~mounted(phase, t).flushPending
<1> DEFINE e == mounted(phase, t)
<1>1. e \in Editor
  BY BoundsAssumption DEF mounted, Editor, SaveStates
<1>2. /\ e.phase = phase /\ e.value = t /\ e.lastSaved = t
      /\ e.inFlight = NoText /\ ~e.pending /\ ~e.background /\ ~e.saveTimer
      /\ ~e.retryTimer /\ ~e.flushPending
  BY DEF mounted
<1>3. ~isDirty(e) /\ Sound(e)
  BY <1>2 DEF isDirty, Sound
<1> QED BY <1>1, <1>2, <1>3

LEMMA OpenDateStep ==
  ASSUME TypeInv, MountInv, QueueInv, SlotInv, OrderInv, LatestInv, PendingInv, CoveredInv,
         HiddenInv, KeptInv, OpenInv, ClosedInv, OpenDate
  PROVE  Inv'
<1> DEFINE c == cur + 1
           o == operation(c, "get", NoText, 0)
           e == mounted("loading", db)
<1>0. /\ cur < MaxMounts /\ cur' = c /\ ed' = [ed EXCEPT ![c] = e] /\ queue' = Append(queue, o)
      /\ UNCHANGED <<db, slot, visible, edits, hides, typed, landed, slips, skipped>>
      /\ cur # 0 => ed[cur].phase = "gone"
  BY DEF OpenDate, cancelled
<1>1. c \in Mounts /\ cur \in Nat /\ c \in Nat /\ c \in 0 .. MaxMounts
  BY <1>0, BoundsAssumption DEF TypeInv, Mounts
<1>2. \A m \in Mounts : m \in Nat /\ (m < c <=> m <= cur) /\ (m <= cur <=> m < cur \/ m = cur)
  BY <1>1, BoundsAssumption DEF Mounts
<1>o. o \in Op /\ o.mount = c /\ o.kind = "get"
  BY <1>1, BoundsAssumption DEF operation, Op
<1>e. /\ e \in Editor /\ e.phase = "loading" /\ Sound(e) /\ ~e.pending /\ e.inFlight = NoText /\ ~e.saveTimer
  BY Mounted DEF TypeInv
<1>q. /\ queue \in Seq(Op) /\ queue' \in Seq(Op) /\ DOMAIN queue' = 1 .. Len(queue) + 1
      /\ DOMAIN queue = 1 .. Len(queue) /\ Len(queue) \in Nat
      /\ \A i \in DOMAIN queue : i \in DOMAIN queue' /\ queue'[i] = queue[i] /\ i < Len(queue) + 1
      /\ Len(queue) + 1 \in DOMAIN queue' /\ queue'[Len(queue) + 1] = o
      /\ \A i \in DOMAIN queue' : i \in DOMAIN queue \/ i = Len(queue) + 1
  <2>1. queue \in Seq(Op)
    BY DEF TypeInv
  <2> QED BY <1>0, <1>o, <2>1, Appended
<1> HIDE DEF c, o, e
<1>3. /\ ed' \in [Mounts -> Editor] /\ ed'[c] = e
      /\ \A m \in Mounts : m # c => ed'[m] = ed[m]
  BY <1>0, <1>1, <1>e DEF TypeInv
<1>c. \A m \in Mounts : ed[m].phase # "open" /\ (m < c => ed[m].phase = "gone") /\ ed'[m].phase # "open"
  <2>1. \A m \in Mounts : m < c => ed[m].phase = "gone"
    BY <1>0, <1>2 DEF MountInv, Mounts
  <2>2. \A m \in Mounts : ed[m].phase = "open" => m = cur /\ cur # 0 /\ m < c
    BY <1>1, <1>2, Newest DEF Mounts
  <2> QED BY <1>3, <1>e, <2>1, <2>2
<1>m. \A i \in DOMAIN queue : queue[i].mount \in Mounts /\ queue[i].mount # c /\ queue[i].mount <= cur
  <2>1. \A i \in DOMAIN queue : queue[i].mount \in Mounts /\ queue[i].mount <= cur
    BY <1>q, QueuedOps DEF QueueInv
  <2>2. ~(c <= cur)
    BY <1>1 DEF c
  <2> QED BY <2>1, <2>2
<1>4. TypeInv'
  BY <1>0, <1>1, <1>3, <1>q DEF TypeInv
<1>5. MountInv'
  <2>1. \A m \in Mounts : (m > c) <=> (m > cur /\ m # c)
    BY <1>1, <1>2 DEF c
  <2>2. ~(c > c) /\ ~(c < c)
    BY <1>1
  <2>3. \A m \in Mounts : m # c =>
          /\ Sound(ed'[m]) /\ (m > c <=> ed'[m].phase = "unborn") /\ (m < c => ed'[m].phase = "gone")
    BY <1>3, <1>c, <2>1 DEF MountInv
  <2> QED BY <1>0, <1>1, <1>3, <1>e, <2>2, <2>3 DEF MountInv
<1>6. QueueInv'
  <2>1. Known(o, e)
    BY <1>o, <1>e DEF Known
  <2>2. \A i \in DOMAIN queue : queue[i].mount <= c /\ Known(queue[i], ed'[queue[i].mount])
    <3>1. \A m \in Mounts : m <= cur => m <= c
      BY <1>1, <1>2 DEF c
    <3> QED BY <1>3, <1>m, <3>1 DEF QueueInv
  <2>3. c <= c
    BY <1>1
  <2>4. \A i \in DOMAIN queue' : queue'[i].mount <= c /\ Known(queue'[i], ed'[queue'[i].mount])
    BY <1>3, <1>o, <1>q, <2>1, <2>2, <2>3
  <2>5. \A i, j \in DOMAIN queue' :
          queue'[i].mount = queue'[j].mount /\ queue'[i].kind = queue'[j].kind => i = j
    BY <1>o, <1>q, <1>m DEF QueueInv
  <2>6. \A m \in Mounts : ed'[m].inFlight # NoText => ops(queue, m, "write") # {}
    BY <1>3, <1>e DEF QueueInv
  <2>7. \A m \in Mounts : ops(queue, m, "write") \subseteq ops(queue', m, "write")
    BY <1>q DEF ops
  <2> QED BY <1>0, <2>4, <2>5, <2>6, <2>7 DEF QueueInv
<1>7. SlotInv'
  <2>1. queue # <<>> => Head(queue') = Head(queue)
    BY <1>0, <1>q
  <2> QED BY <1>0, <1>q, <2>1 DEF SlotInv
<1>8. OrderInv'
  <2>1. \A i \in DOMAIN queue' : Stamped(queue'[i], landed, edits)
    BY <1>o, <1>q DEF OrderInv, Stamped
  <2>2. \A i \in DOMAIN queue' : queue'[i].kind # "get" => i \in DOMAIN queue
    BY <1>o, <1>q
  <2> QED BY <1>0, <1>q, <2>1, <2>2 DEF OrderInv
<1>9. LatestInv'
  BY <1>0, <1>3, <1>c, <1>e DEF LatestInv
<1>10. PendingInv'
  <2> SUFFICES ASSUME NEW j \in Mounts, NEW k \in Mounts, j < k, k <= c, ed'[j].pending
              PROVE  Ahead(queue', j, k)
    BY <1>0 DEF PendingInv
  <2>0. j < c /\ j # c
    BY <1>1, <1>2
  <2>1. j # c /\ ed[j].pending /\ j < c
    BY <1>3, <2>0
  <2>2. CASE k = c
    <3>1. PICK i \in ops(queue, j, "write") : TRUE
      BY <2>1 DEF MountInv, Sound, QueueInv
    <3>2. i \in ops(queue', j, "write") /\ i < Len(queue) + 1
      BY <1>q, <3>1 DEF ops
    <3>3. Len(queue) + 1 \in ops(queue', k, "get")
      BY <1>o, <1>q, <2>2 DEF ops
    <3> QED BY <3>2, <3>3 DEF Ahead
  <2>3. CASE k # c
    <3>1. k <= cur
      BY <1>1, <1>2, <2>3 DEF c
    <3>2. Ahead(queue, j, k)
      BY <2>1, <3>1 DEF PendingInv
    <3> QED BY <1>q, <3>2 DEF Ahead, ops
  <2> QED BY <2>2, <2>3
<1>11. CoveredInv' /\ KeptInv' /\ OpenInv'
  BY <1>c DEF CoveredInv, KeptInv, OpenInv
<1>12. HiddenInv'
  BY <1>0, <1>3, <1>e DEF HiddenInv
<1>13. ClosedInv'
  <2> SUFFICES ASSUME slips = {} PROVE (Stored \/ Coming \/ \E m \in Mounts : FlushAsked(m))'
    BY <1>0 DEF ClosedInv
  <2>1. Stored \/ Coming \/ \E m \in Mounts : FlushAsked(m)
    BY <1>c DEF ClosedInv, Closed
  <2>2. NonePending => NonePending'
    BY <1>3, <1>e DEF NonePending
  <2>3. Stored => Stored'
    BY <1>0, <1>o, <1>q, <2>2 DEF Stored, Rest
  <2>4. ASSUME Coming PROVE Coming'
    <3>1. PICK i \in DOMAIN queue : Final(queue, i, typed)
      BY <2>4 DEF Coming
    <3>2. Final(queue', i, typed)
      BY <1>o, <1>q, <3>1 DEF Final
    <3> QED BY <1>0, <1>q, <2>2, <2>4, <3>1, <3>2 DEF Coming
  <2>5. ASSUME NEW m \in Mounts, FlushAsked(m) PROVE FlushAsked(m)'
    <3>1. ~ed[c].pending
      BY <1>1, Newest DEF c
    <3> QED BY <1>0, <1>3, <1>e, <2>5, <3>1 DEF FlushAsked
  <2> QED BY <2>1, <2>3, <2>4, <2>5
<1> QED BY <1>4, <1>5, <1>6, <1>7, <1>8, <1>9, <1>10, <1>11, <1>12, <1>13 DEF Inv

LEMMA ExecuteStep ==
  ASSUME TypeInv, MountInv, QueueInv, SlotInv, OrderInv, LatestInv, PendingInv, CoveredInv,
         HiddenInv, KeptInv, OpenInv, ClosedInv, Execute
  PROVE  Inv'
<1> DEFINE op == Head(queue)
<1>0. queue # <<>> /\ UNCHANGED <<queue, ed, cur, visible, edits, hides, typed, slips, skipped>>
  BY DEF Execute
<1>q. queue \in Seq(Op) /\ 1 \in DOMAIN queue /\ op = queue[1] /\ op \in Op /\ \A i \in DOMAIN queue : 1 <= i
  <2>1. queue \in Seq(Op)
    BY DEF TypeInv
  <2> QED BY <1>0, <2>1, Removed
<1> HIDE DEF op
<1>1. \/ /\ op.kind = "get" /\ UNCHANGED <<db, landed>>
         /\ slot' \in {[state |-> "ok", text |-> db], [state |-> "failed", text |-> NoText]}
      \/ /\ op.kind # "get" /\ db' = op.text /\ landed' = op.stamp
         /\ slot' \in {[state |-> s, text |-> op.text] : s \in {"ok", "failed"}}
      \/ /\ op.kind # "get" /\ slot' = [state |-> "failed", text |-> op.text] /\ UNCHANGED <<db, landed>>
  BY DEF Execute, op
<1>2. /\ op.text \in Texts \cup {NoText} /\ op.stamp \in 0 .. MaxEdits
      /\ op.kind # "get" => op.text \in Texts /\ landed <= op.stamp /\ op.stamp <= edits
  BY <1>q, OpFields DEF QueueInv, Known, OrderInv, Stamped
<1>3. /\ slot'.state \in {"ok", "failed"} /\ slot' \in Outcomes
      /\ op.kind # "get" => slot'.text = op.text
      /\ slot'.state = "ok" => slot'.text = db'
      /\ db' \in Texts /\ landed' \in 0 .. MaxEdits
      /\ op.kind = "get" => UNCHANGED <<db, landed>>
  BY <1>1, <1>2 DEF Outcomes, TypeInv
<1>4. TypeInv'
  BY <1>0, <1>3 DEF TypeInv
<1>5. MountInv' /\ QueueInv' /\ LatestInv' /\ PendingInv' /\ CoveredInv' /\ HiddenInv' /\ KeptInv'
  BY <1>0 DEF MountInv, QueueInv, LatestInv, PendingInv, CoveredInv, HiddenInv, KeptInv
<1>6. SlotInv'
  BY <1>0, <1>3 DEF SlotInv, op
<1>7. OrderInv'
  <2>1. CASE UNCHANGED landed
    BY <1>0, <2>1 DEF OrderInv
  <2>2. CASE op.kind # "get" /\ landed' = op.stamp
    <3>1. landed' <= edits
      BY <1>2, <2>2
    <3>2. landed' <= landed'
      BY <1>2, <2>2
    <3>3. ASSUME NEW i \in DOMAIN queue PROVE Stamped(queue[i], landed', edits)
      <4>1. i \in Nat /\ (i = 1 \/ 1 < i)
        BY <1>q
      <4>2. queue[i].kind # "get" => landed' <= queue[i].stamp
        BY <1>q, <2>2, <3>2, <4>1 DEF OrderInv
      <4> QED BY <4>2 DEF OrderInv, Stamped
    <3> QED BY <1>0, <3>1, <3>3 DEF OrderInv
  <2> QED BY <1>1, <2>1, <2>2
<1>8. OpenInv'
  <2> SUFFICES ASSUME slips = {}, NEW m \in Mounts, ed[m].phase = "open" PROVE Alone(m)'
    BY <1>0 DEF OpenInv
  <2>1. Alone(m)
    BY DEF OpenInv
  <2>2. isDirty(ed[m])
    BY <1>0, <2>1 DEF Alone
  <2> QED BY <1>0, <2>1, <2>2 DEF Alone
<1>9. ClosedInv'
  <2> SUFFICES ASSUME slips = {}, Closed PROVE (Stored \/ Coming \/ \E m \in Mounts : FlushAsked(m))'
    BY <1>0 DEF ClosedInv, Closed
  <2>1. Stored \/ Coming \/ \E m \in Mounts : FlushAsked(m)
    BY DEF ClosedInv
  <2>2. Stored => Stored'
    BY <1>0, <1>3, <1>q DEF Stored, Rest, NonePending
  <2>3. Coming => Coming'
    BY <1>0 DEF Coming, NonePending
  <2>4. \A m \in Mounts : FlushAsked(m) => FlushAsked(m)'
    BY <1>0 DEF FlushAsked
  <2> QED BY <2>1, <2>2, <2>3, <2>4
<1> QED BY <1>4, <1>5, <1>6, <1>7, <1>8, <1>9 DEF Inv

LEMMA SettleGetStep ==
  ASSUME TypeInv, MountInv, QueueInv, SlotInv, OrderInv, LatestInv, PendingInv, CoveredInv,
         HiddenInv, KeptInv, OpenInv, ClosedInv, SettleGet
  PROVE  Inv'
<1> DEFINE m == Head(queue).mount
<1>0. /\ queue # <<>> /\ slot.state # "running" /\ Head(queue).kind = "get"
      /\ ed' = IF cancelled(ed[m]) THEN ed
               ELSE [ed EXCEPT ![m] = IF slot.state = "ok" THEN mounted("open", slot.text)
                                      ELSE [ed[m] EXCEPT !.phase = "gone"]]
      /\ slips' = IF \E k \in Mounts : k < m /\ Outstanding(k) THEN slips \cup {"reloaded"} ELSE slips
      /\ queue' = Tail(queue) /\ slot' = Running
      /\ UNCHANGED <<db, cur, visible, edits, hides, typed, landed, skipped>>
  BY DEF SettleGet
<1>q. /\ queue \in Seq(Op) /\ queue' \in Seq(Op) /\ DOMAIN queue \subseteq Nat /\ DOMAIN queue' \subseteq Nat
      /\ \A i \in DOMAIN queue' : i + 1 \in DOMAIN queue /\ queue'[i] = queue[i + 1] /\ i + 1 # 1
      /\ \A i \in DOMAIN queue : i = 1 \/ (i - 1 \in DOMAIN queue' /\ queue'[i - 1] = queue[i])
      /\ 1 \in DOMAIN queue /\ Head(queue) = queue[1]
      /\ \A i \in DOMAIN queue : 1 <= i
  <2>1. queue \in Seq(Op)
    BY DEF TypeInv
  <2> QED BY <1>0, <2>1, Removed
<1>o. \A i \in DOMAIN queue : queue[i].mount \in Mounts /\ queue[i].kind \in {"get", "write", "background"}
  BY <1>q, QueuedOps
<1>1. m \in Mounts /\ ed[m] \in Editor /\ ed \in [Mounts -> Editor] /\ m <= cur
  <2>1. ed \in [Mounts -> Editor] /\ m \in Mounts /\ m <= cur
    BY <1>o, <1>q DEF TypeInv, QueueInv
  <2> QED BY <2>1
<1>2. queue[1].mount = m /\ queue[1].kind = "get" /\ ed[m].phase \in {"loading", "gone"}
  BY <1>0, <1>q DEF QueueInv, Known
<1> DEFINE e == ed'[m]
<1>3. /\ ed' \in [Mounts -> Editor] /\ e \in Editor /\ \A k \in Mounts : k # m => ed'[k] = ed[k]
      /\ \/ /\ ed[m].phase = "gone" /\ e = ed[m]
         \/ /\ ed[m].phase = "loading" /\ e = [ed[m] EXCEPT !.phase = "gone"]
         \/ /\ ed[m].phase = "loading" /\ e = mounted("open", db)
  <2>1. CASE cancelled(ed[m])
    BY <1>0, <1>1, <2>1 DEF cancelled
  <2>2. CASE ~cancelled(ed[m]) /\ slot.state = "ok"
    <3>1. slot.text = db /\ db \in Texts
      BY <1>0, <2>2 DEF SlotInv, TypeInv
    <3>2. mounted("open", db) \in Editor
      BY <3>1, Mounted
    <3>3. ed' = [ed EXCEPT ![m] = mounted("open", db)]
      BY <1>0, <2>2, <3>1
    <3> QED BY <1>1, <1>2, <2>2, <3>2, <3>3 DEF cancelled
  <2>3. CASE ~cancelled(ed[m]) /\ slot.state # "ok"
    <3>1. ed' = [ed EXCEPT ![m] = [ed[m] EXCEPT !.phase = "gone"]]
      BY <1>0, <2>3
    <3>2. [ed[m] EXCEPT !.phase = "gone"] \in Editor
      BY <1>1 DEF Editor
    <3> QED BY <1>1, <1>2, <2>3, <3>1, <3>2 DEF cancelled
  <2> QED BY <2>1, <2>2, <2>3
<1> HIDE DEF m, e
<1>l. ed[m].phase = "loading" =>
        /\ m = cur /\ ~ed[m].background /\ ~ed[m].pending /\ ed[m].inFlight = NoText
        /\ ~ed[m].saveTimer /\ ~ed[m].retryTimer /\ ~ed[m].flushPending
  BY <1>1, Newest DEF MountInv, Sound
<1>4. /\ e.phase \in {"open", "gone"} /\ Sound(e) /\ e.inFlight = ed[m].inFlight
      /\ e.pending = ed[m].pending /\ e.background = ed[m].background
      /\ e.flushPending = ed[m].flushPending /\ e.saveTimer = ed[m].saveTimer
      /\ e.pending => e.stamp = ed[m].stamp /\ e.value = ed[m].value
      /\ e.phase = "open" => ~isDirty(e) /\ e.value = db /\ m = cur /\ ed[m].phase = "loading"
  <2>1. CASE ed[m].phase = "gone" /\ e = ed[m]
    BY <1>1, <2>1 DEF MountInv
  <2>2. CASE ed[m].phase = "loading" /\ e = [ed[m] EXCEPT !.phase = "gone"]
    BY <1>1, <1>l, <2>2 DEF Editor, Sound
  <2>3. CASE ed[m].phase = "loading" /\ e = mounted("open", db)
    <3>1. db \in Texts /\ ed[m].pending \in BOOLEAN /\ ed[m].background \in BOOLEAN
      BY <1>1 DEF TypeInv, Editor
    <3>2. ~e.flushPending /\ ~e.saveTimer /\ ~e.pending /\ ~e.background
      BY <2>3, <3>1, Mounted
    <3>3. e.flushPending \in BOOLEAN /\ e.saveTimer \in BOOLEAN /\ e.pending \in BOOLEAN /\ e.background \in BOOLEAN
          /\ ed[m].flushPending \in BOOLEAN /\ ed[m].saveTimer \in BOOLEAN
      BY <1>1, <1>3 DEF Editor
    <3>4. /\ e.pending = ed[m].pending /\ e.background = ed[m].background
          /\ e.flushPending = ed[m].flushPending /\ e.saveTimer = ed[m].saveTimer
      BY <1>l, <2>3, <3>1, <3>2, <3>3
    <3> QED BY <1>l, <2>3, <3>1, <3>2, <3>4, Mounted
  <2> QED BY <1>3, <2>1, <2>2, <2>3
<1>s. slips \subseteq slips' /\ slips' \subseteq Slips /\ (slips' = {} => \A k \in Mounts : k < m => ~Outstanding(k))
  <2>1. slips' = slips \/ slips' = slips \cup {"reloaded"}
    BY <1>0
  <2>2. slips' = {} => slips' # slips \cup {"reloaded"}
    OBVIOUS
  <2> QED BY <1>0, <2>1, <2>2 DEF TypeInv, Slips, m
<1>5. TypeInv'
  <2>1. slot' \in Outcomes
    BY <1>0 DEF Outcomes, Running
  <2> QED BY <1>0, <1>3, <1>q, <1>s, <2>1 DEF TypeInv
<1>6. MountInv'
  <2>1. m < cur => e.phase = "gone"
    <3>1. m < cur => ed[m].phase = "gone"
      BY <1>1 DEF MountInv
    <3> QED BY <1>3, <1>4, <3>1
  <2>2. ~(m > cur)
    BY <1>1, <1>2 DEF MountInv
  <2> QED BY <1>0, <1>3, <1>4, <2>1, <2>2 DEF MountInv, e
<1>7. QueueInv'
  <2>1. ASSUME NEW i \in DOMAIN queue, i # 1, queue[i].mount = m PROVE Known(queue[i], e)
    <3>1. Known(queue[i], ed[m]) /\ queue[i].kind # "get"
      BY <1>2, <1>q, <2>1 DEF QueueInv
    <3> QED BY <1>4, <3>1 DEF Known
  <2>2. \A i \in DOMAIN queue : i # 1 => queue[i].mount <= cur /\ Known(queue[i], ed'[queue[i].mount])
    BY <1>3, <1>o, <2>1 DEF QueueInv, e
  <2>3. \A i \in DOMAIN queue' : queue'[i].mount <= cur /\ Known(queue'[i], ed'[queue'[i].mount])
    BY <1>q, <2>2
  <2>4. \A i, j \in DOMAIN queue' :
          queue'[i].mount = queue'[j].mount /\ queue'[i].kind = queue'[j].kind => i + 1 = j + 1
    <3> TAKE i, j \in DOMAIN queue'
    <3>1. i + 1 \in DOMAIN queue /\ j + 1 \in DOMAIN queue /\ queue'[i] = queue[i + 1] /\ queue'[j] = queue[j + 1]
      BY <1>q
    <3> QED BY <3>1 DEF QueueInv
  <2>5. \A i, j \in DOMAIN queue' : i + 1 = j + 1 => i = j
    BY <1>q
  <2>6. ASSUME NEW k \in Mounts, ed'[k].inFlight # NoText PROVE ops(queue', k, "write") # {}
    <3>1. ed[k].inFlight # NoText
      BY <1>3, <1>4, <2>6 DEF e
    <3>2. PICK i \in ops(queue, k, "write") : TRUE
      BY <3>1 DEF QueueInv
    <3>3. i # 1 /\ i \in DOMAIN queue /\ queue[i].mount = k /\ queue[i].kind = "write"
      BY <1>2, <3>2 DEF ops
    <3>4. i - 1 \in ops(queue', k, "write")
      BY <1>q, <3>3 DEF ops
    <3> QED BY <3>4
  <2> QED BY <1>0, <2>3, <2>4, <2>5, <2>6 DEF QueueInv
<1>8. SlotInv'
  BY <1>0 DEF SlotInv, Running
<1>9. OrderInv'
  <2>1. landed <= edits /\ \A i \in DOMAIN queue' : Stamped(queue'[i], landed, edits)
    BY <1>q DEF OrderInv
  <2>2. \A i, j \in DOMAIN queue' : i < j => i + 1 < j + 1
    BY <1>q
  <2>3. \A i, j \in DOMAIN queue' :
          i < j /\ queue'[i].kind # "get" /\ queue'[j].kind # "get" => queue'[i].stamp <= queue'[j].stamp
    <3> TAKE i, j \in DOMAIN queue'
    <3>1. i + 1 \in DOMAIN queue /\ j + 1 \in DOMAIN queue /\ queue'[i] = queue[i + 1] /\ queue'[j] = queue[j + 1]
      BY <1>q
    <3> QED BY <2>2, <3>1 DEF OrderInv
  <2> QED BY <1>0, <2>1, <2>3 DEF OrderInv
<1>10. LatestInv'
  BY <1>0, <1>1, <1>3, <1>4 DEF LatestInv, e
<1>11. PendingInv'
  <2> SUFFICES ASSUME NEW j \in Mounts, NEW k \in Mounts, j < k, k <= cur, ed'[j].pending
              PROVE  Ahead(queue', j, k)
    BY <1>0 DEF PendingInv
  <2>1. ed[j].pending
    BY <1>3, <1>4 DEF e
  <2>2. PICK a \in ops(queue, j, "write"), b \in ops(queue, k, "get") : a < b
    BY <2>1 DEF PendingInv, Ahead
  <2>3. a \in DOMAIN queue /\ b \in DOMAIN queue /\ a # 1
    BY <1>2, <2>2 DEF ops
  <2>4. b # 1
    BY <1>q, <2>2, <2>3
  <2>5. a - 1 \in ops(queue', j, "write") /\ b - 1 \in ops(queue', k, "get")
    BY <1>q, <2>2, <2>3, <2>4 DEF ops
  <2>6. a - 1 < b - 1
    BY <1>q, <2>2, <2>3
  <2> QED BY <2>5, <2>6 DEF Ahead
<1>12. CoveredInv'
  <2> SUFFICES ASSUME NEW k \in Mounts, ed'[k].phase = "open", isDirty(ed'[k]), "disarmed" \notin slips'
              PROVE  Covered(ed'[k], queue', k)
    BY DEF CoveredInv
  <2>1. k # m
    BY <1>4 DEF e
  <2>2. ed'[k] = ed[k] /\ "disarmed" \notin slips
    BY <1>3, <1>s, <2>1
  <2>3. Covered(ed[k], queue, k)
    BY <2>2 DEF CoveredInv
  <2>4. Backed(queue, k, ed[k].value) => Backed(queue', k, ed[k].value)
    BY <1>0, <1>2, <1>q, <2>1, BackedRemoved
  <2> QED BY <2>2, <2>3, <2>4 DEF Covered
<1>k. KeptInv'
  <2> SUFFICES ASSUME ~visible, ~skipped, NEW k \in Mounts, ed'[k].phase = "open", isDirty(ed'[k])
              PROVE  Kept(ed'[k], queue', k)
    BY <1>0 DEF KeptInv
  <2>1. k # m
    BY <1>4 DEF e
  <2>2. ed'[k] = ed[k]
    BY <1>3, <2>1
  <2>3. Kept(ed[k], queue, k)
    BY <2>2 DEF KeptInv
  <2>4. Backed(queue, k, ed[k].value) => Backed(queue', k, ed[k].value)
    BY <1>0, <1>2, <1>q, <2>1, BackedRemoved
  <2> QED BY <2>2, <2>3, <2>4 DEF Kept
<1>13. HiddenInv'
  BY <1>0, <1>3, <1>4 DEF HiddenInv, e
<1>14. OpenInv'
  <2> SUFFICES ASSUME slips' = {}, NEW k \in Mounts, ed'[k].phase = "open" PROVE Alone(k)'
    BY DEF OpenInv
  <2>0. slips = {} /\ \A j \in Mounts : j < m => ~Outstanding(j)
    BY <1>s
  <2>1. CASE k = m
    <3>1. /\ ~isDirty(e) /\ e.value = db /\ m = cur /\ ed[m].phase = "loading"
          /\ e.inFlight = NoText /\ ~e.background /\ ~e.pending
      BY <1>4, <1>l, <2>1 DEF e
    <3>2. \A i \in DOMAIN queue : queue[i].mount = m
      <4> SUFFICES ASSUME NEW i \in DOMAIN queue, queue[i].mount # m PROVE FALSE
        OBVIOUS
      <4>1. queue[i].mount \in Mounts /\ queue[i].mount < m
        <5>1. queue[i].mount \in Mounts /\ queue[i].mount <= cur
          BY <1>o DEF QueueInv
        <5> QED BY <3>1, <5>1, Newest DEF Mounts
      <4>2. i \in 1 .. Len(queue)
        BY <1>q
      <4>3. Outstanding(queue[i].mount)
        BY <4>2 DEF Outstanding
      <4> QED BY <2>0, <4>1, <4>3
    <3>3. \A i \in DOMAIN queue : queue[i].kind = "get"
      <4> TAKE i \in DOMAIN queue
      <4>1. Known(queue[i], ed[m])
        BY <3>2 DEF QueueInv
      <4> QED BY <1>o, <1>l, <3>1, <4>1, TextsAssumption DEF Known
    <3>4. \A i \in DOMAIN queue : i = 1
      BY <1>2, <1>q, <3>2, <3>3 DEF QueueInv
    <3>5. DOMAIN queue' = {}
      BY <1>q, <3>4
    <3>6. queue' = <<>>
      BY <1>q, <3>5, Emptied
    <3>7. \A j \in Mounts : ~ed[j].pending
      <4> TAKE j \in Mounts
      <4>1. j < m \/ j = m \/ j > cur
        BY <3>1, Newest
      <4>2. j < m => ~ed[j].pending
        BY <2>0 DEF Outstanding
      <4> QED BY <1>l, <3>1, <4>1, <4>2, Newest
    <3>8. Closed
      BY <3>1, Newest DEF Closed
    <3>9. ~Coming /\ ~\E j \in Mounts : FlushAsked(j)
      BY <3>3, <3>7 DEF Coming, Final, FlushAsked
    <3>10. db = typed
      BY <2>0, <3>8, <3>9 DEF ClosedInv, Stored
    <3>11. \A j \in Mounts : j < k => ~ed'[j].pending
      BY <1>3, <1>4, <3>7 DEF e
    <3>12. UNCHANGED <<db, typed>>
      BY <1>0
    <3> QED BY <2>1, <3>1, <3>6, <3>10, <3>11, <3>12 DEF Alone, e
  <2>2. CASE k # m
    <3>1. ed'[k] = ed[k] /\ Alone(k)
      BY <1>3, <2>0, <2>2 DEF OpenInv
    <3> QED BY <1>2, <1>q, <2>2, <3>1 DEF Alone
  <2> QED BY <2>1, <2>2
<1>15. ClosedInv'
  <2> SUFFICES ASSUME slips' = {}, Closed'
              PROVE  (Stored \/ Coming \/ \E k \in Mounts : FlushAsked(k))'
    BY DEF ClosedInv
  <2>1. slips = {} /\ Closed
    <3>1. ed[m].phase # "open" /\ \A k \in Mounts : k # m => ed[k].phase # "open"
      BY <1>2, <1>3 DEF Closed
    <3> QED BY <1>s, <3>1 DEF Closed
  <2>2. NonePending => NonePending'
    BY <1>3, <1>4 DEF NonePending, e
  <2>3. Stored => Stored'
    BY <1>0, <1>q, <2>2 DEF Stored, Rest
  <2>4. ASSUME Coming PROVE Coming'
    <3>1. PICK i \in DOMAIN queue : Final(queue, i, typed)
      BY <2>4 DEF Coming
    <3>2. i # 1
      BY <1>2, <3>1 DEF Final
    <3>3. i - 1 \in DOMAIN queue' /\ queue'[i - 1] = queue[i]
      BY <1>q, <3>2
    <3>4. \A j \in DOMAIN queue' : j > i - 1 => j + 1 > i
      BY <1>q
    <3>5. Final(queue', i - 1, typed)
      BY <1>q, <3>1, <3>3, <3>4 DEF Final
    <3> QED BY <1>0, <2>2, <2>4, <3>3, <3>5 DEF Coming
  <2>5. ASSUME NEW k \in Mounts, FlushAsked(k) PROVE FlushAsked(k)'
    BY <1>0, <1>3, <1>4, <2>5 DEF FlushAsked, e
  <2>6. Stored \/ Coming \/ \E k \in Mounts : FlushAsked(k)
    BY <2>1 DEF ClosedInv
  <2> QED BY <2>3, <2>4, <2>5, <2>6
<1> QED BY <1>5, <1>6, <1>7, <1>8, <1>9, <1>10, <1>11, <1>12, <1>k, <1>13, <1>14, <1>15 DEF Inv

\* What the outcome of a write does to its mount, whatever is drained afterwards.
LEMMA Applied ==
  ASSUME NEW e \in Editor, NEW ok \in BOOLEAN, Sound(e), e.inFlight \in Texts, NEW a, a = applyOutcome(e, ok)
  PROVE  /\ a \in Editor /\ a.phase = e.phase /\ a.value = e.value /\ a.stamp = e.stamp
         /\ a.pending = e.pending /\ a.flushPending = e.flushPending /\ a.background = e.background
         /\ a.saveTimer = e.saveTimer /\ a.inFlight = NoText
         /\ e.retryTimer => a.retryTimer
         /\ a.phase # "open" => ~a.retryTimer
         /\ e.phase # "gone" /\ isDirty(a) => isDirty(e)
         /\ e.phase # "gone" /\ isDirty(a) /\ e.value = e.inFlight => a.retryTimer
         /\ e.phase # "gone" /\ isDirty(e) /\ ~isDirty(a) => ok /\ e.value = e.inFlight
         /\ e.phase # "gone" /\ e.value # e.inFlight =>
              a.saveState = e.saveState /\ a.retryTimer = e.retryTimer
         /\ e.phase = "gone" => a.saveState = e.saveState /\ a.retryTimer = e.retryTimer
<1> DEFINE r == [e EXCEPT !.inFlight = NoText, !.flushOutcome = FALSE]
<1>r. /\ r \in Editor /\ r.phase = e.phase /\ r.value = e.value /\ r.stamp = e.stamp
      /\ r.pending = e.pending /\ r.flushPending = e.flushPending /\ r.background = e.background
      /\ r.saveTimer = e.saveTimer /\ r.inFlight = NoText /\ r.retryTimer = e.retryTimer
      /\ r.lastSaved = e.lastSaved /\ r.saveState = e.saveState
  BY DEF Editor
<1>1. CASE e.phase = "gone"
  <2>1. a = [r EXCEPT !.lastSaved = IF ok /\ e.flushOutcome THEN e.inFlight ELSE r.lastSaved]
    BY <1>1, <1>r DEF applyOutcome, cancelled
  <2> HIDE DEF r
  <2> QED BY <1>1, <1>r, <2>1 DEF Editor, Sound
<1>2. CASE e.phase # "gone" /\ e.value # e.inFlight
  <2>1. a = r
    BY <1>2, <1>r DEF applyOutcome, cancelled
  <2> HIDE DEF r
  <2> QED BY <1>2, <1>r, <2>1 DEF Editor, Sound, isDirty
<1>3. CASE e.phase # "gone" /\ e.value = e.inFlight /\ ok
  <2>1. a = [r EXCEPT !.lastSaved = e.inFlight, !.saveState = "saved"]
    BY <1>3, <1>r DEF applyOutcome, cancelled
  <2> HIDE DEF r
  <2> QED BY <1>3, <1>r, <2>1 DEF Editor, Sound, isDirty, SaveStates
<1>4. CASE e.phase # "gone" /\ e.value = e.inFlight /\ ~ok
  <2>1. a = [r EXCEPT !.saveState = "error", !.retryTimer = TRUE]
    BY <1>4, <1>r DEF applyOutcome, cancelled
  <2>2. e.phase = "open"
    BY <1>4, TextsAssumption DEF Sound, Editor
  <2> HIDE DEF r
  <2>3. /\ a \in Editor /\ a.phase = r.phase /\ a.value = r.value /\ a.stamp = r.stamp
        /\ a.pending = r.pending /\ a.flushPending = r.flushPending /\ a.background = r.background
        /\ a.saveTimer = r.saveTimer /\ a.inFlight = r.inFlight /\ a.retryTimer
        /\ a.lastSaved = r.lastSaved
    BY <1>r, <2>1 DEF Editor, SaveStates
  <2>4. isDirty(a) <=> isDirty(e)
    BY <1>r, <2>3 DEF isDirty
  <2> QED BY <1>4, <1>r, <2>2, <2>3, <2>4
<1> QED BY <1>1, <1>2, <1>3, <1>4

LEMMA SettleWriteStep ==
  ASSUME TypeInv, MountInv, QueueInv, SlotInv, OrderInv, LatestInv, PendingInv, CoveredInv,
         HiddenInv, KeptInv, OpenInv, ClosedInv, SettleWrite
  PROVE  Inv'
<1>m. PICK m : m = Head(queue).mount
  OBVIOUS
<1>k. PICK ok : ok = (slot.state = "ok")
  OBVIOUS
<1>a. PICK a : a = applyOutcome(ed[m], ok)
  OBVIOUS
<1>t. PICK t : t = Tail(queue)
  OBVIOUS
<1>0. /\ queue # <<>> /\ slot.state # "running" /\ Head(queue).kind = "write"
      /\ drain(m, a, t)
      /\ slips' = slips \cup {f \in {"flushFailed"} : cancelled(ed[m]) /\ ~ok}
                        \cup {f \in {"overtaken"} : ~dirty(a) /\ ed[m].background}
      /\ slot' = Running
      /\ UNCHANGED <<db, cur, visible, edits, hides, typed, landed, skipped>>
  BY <1>m, <1>k, <1>a, <1>t DEF SettleWrite, drain, startWrite
<1>q. queue \in Seq(Op) /\ Head(queue) = queue[1] /\ 1 \in DOMAIN queue
  <2>1. queue \in Seq(Op)
    BY DEF TypeInv
  <2> QED BY <1>0, <2>1, Removed
<1>1. m \in Mounts /\ ed[m] \in Editor /\ Sound(ed[m]) /\ ok \in BOOLEAN
  <2>1. ed \in [Mounts -> Editor] /\ m \in Mounts
    BY <1>m, <1>q, QueuedOps DEF TypeInv
  <2> QED BY <1>k, <2>1 DEF MountInv
<1>2. Head(queue).text = ed[m].inFlight /\ ed[m].inFlight \in Texts /\ slot.text = ed[m].inFlight
  <2>1. Known(queue[1], ed[m]) /\ Head(queue).kind # "get"
    BY <1>0, <1>m, <1>q DEF QueueInv
  <2> QED BY <1>0, <1>q, <2>1 DEF Known, SlotInv
<1>3. PICK e : e = ed[m]
  OBVIOUS
<1>4. /\ a \in Editor /\ a.phase = e.phase /\ a.value = e.value /\ a.stamp = e.stamp
      /\ a.pending = e.pending /\ a.flushPending = e.flushPending /\ a.background = e.background
      /\ a.saveTimer = e.saveTimer /\ a.inFlight = NoText
      /\ e.retryTimer => a.retryTimer
      /\ a.phase # "open" => ~a.retryTimer
      /\ e.phase # "gone" /\ isDirty(a) => isDirty(e)
      /\ e.phase # "gone" /\ isDirty(a) /\ e.value = e.inFlight => a.retryTimer
      /\ e.phase # "gone" /\ isDirty(e) /\ ~isDirty(a) => ok /\ e.value = e.inFlight
  BY <1>1, <1>2, <1>3, <1>a, Applied
<1>5. slips \subseteq slips' /\ slips' \subseteq Slips
  <2>1. \A f \in slips' : f \in slips \/ f = "flushFailed" \/ f = "overtaken"
    BY <1>0
  <2>2. \A f \in slips : f \in slips'
    BY <1>0
  <2> QED BY <2>1, <2>2 DEF TypeInv, Slips
<1>6. slips' = {} => /\ e.phase = "gone" => ok
                     /\ ~isDirty(a) => ~e.background
  <2>1. cancelled(ed[m]) /\ ~ok => "flushFailed" \in slips'
    BY <1>0
  <2>2. ~dirty(a) /\ ed[m].background => "overtaken" \in slips'
    BY <1>0
  <2> QED BY <1>1, <1>3, <2>1, <2>2 DEF cancelled, dirty, isDirty, Editor
<1> DEFINE i == [a EXCEPT !.pending = FALSE, !.flushPending = FALSE]
<1>i. /\ i \in Editor /\ i.phase = a.phase /\ i.value = a.value /\ i.stamp = a.stamp
      /\ i.background = a.background /\ i.saveTimer = a.saveTimer /\ i.inFlight = NoText
      /\ i.retryTimer = a.retryTimer /\ i.lastSaved = a.lastSaved /\ ~i.pending /\ ~i.flushPending
  BY <1>4 DEF Editor
<1>7. IF a.pending /\ (a.flushPending \/ dirty(a))
      THEN startWrite(m, i, a.value, a.flushPending, t)
      ELSE ed' = [ed EXCEPT ![m] = i] /\ queue' = t
  BY <1>0 DEF drain, dirty
<1>8. isDirty(i) <=> isDirty(a)
  BY <1>i DEF isDirty
<1> HIDE DEF i
<1>9. CASE a.pending /\ (a.flushPending \/ dirty(a))
  <2> DEFINE f == [i EXCEPT !.inFlight = a.value, !.flushOutcome = a.flushPending]
  <2>1. /\ f \in Editor /\ f.phase = a.phase /\ f.value = a.value /\ f.stamp = a.stamp
        /\ f.background = a.background /\ f.saveTimer = a.saveTimer /\ f.inFlight = a.value
        /\ f.retryTimer = a.retryTimer /\ f.lastSaved = a.lastSaved /\ ~f.pending /\ ~f.flushPending
    BY <1>4, <1>i DEF Editor
  <2>2. /\ ed' = [ed EXCEPT ![m] = f] /\ queue' = Append(t, operation(m, "write", f.value, f.stamp))
    BY <1>7, <1>9, <1>i, <2>1 DEF startWrite
  <2> HIDE DEF f
  <2>3. f.phase = "open" => isDirty(f) /\ isDirty(e)
    <3>1. f.phase = "open" => ~a.flushPending
      BY <1>1, <1>3, <1>4, <2>1 DEF Sound
    <3>2. isDirty(f) <=> isDirty(a)
      BY <2>1 DEF isDirty
    <3> QED BY <1>4, <1>9, <2>1, <3>1, <3>2 DEF dirty, isDirty
  <2>4. Rewrites(ed[m], f)
    BY <1>3, <1>4, <1>9, <2>1, <2>3 DEF Rewrites
  <2> QED BY <1>0, <1>m, <1>t, <1>5, <2>1, <2>2, <2>4, RewriteStep
<1>10. CASE ~(a.pending /\ (a.flushPending \/ dirty(a)))
  <2>1. ed' = [ed EXCEPT ![m] = i] /\ queue' = t
    BY <1>7, <1>10
  <2>2. Releases(ed[m], i, "write")
    BY <1>3, <1>4, <1>8, <1>i DEF Releases
  <2>3. ASSUME i.phase = "open", isDirty(i), "disarmed" \notin slips' PROVE Covered(i, queue', m)
    <3>1. Covered(e, queue, m)
      BY <1>1, <1>3, <1>4, <1>5, <1>8, <1>i, <2>3 DEF CoveredInv
    <3>2. ~e.pending
      BY <1>4, <1>8, <1>10, <2>3 DEF dirty, isDirty
    <3>3. e.inFlight = e.value => i.retryTimer
      BY <1>4, <1>8, <1>i, <2>3
    <3>4. Backed(queue, m, e.value) => Backed(queue', m, e.value)
      BY <1>0, <1>q, <1>t, <2>1, BackedRemoved
    <3> QED BY <1>4, <1>i, <3>1, <3>2, <3>3, <3>4 DEF Covered
  <2>k. ASSUME ~visible, ~skipped, i.phase = "open", isDirty(i) PROVE Kept(i, queue', m)
    <3>1. Kept(e, queue, m)
      BY <1>1, <1>3, <1>4, <1>8, <1>i, <2>k DEF KeptInv
    <3>2. e.inFlight = e.value => i.retryTimer
      BY <1>4, <1>8, <1>i, <2>k
    <3>3. e.inFlight # NoText
      BY <1>2, <1>3, TextsAssumption
    <3>4. Backed(queue, m, e.value) => Backed(queue', m, e.value)
      BY <1>0, <1>q, <1>t, <2>1, BackedRemoved
    <3> QED BY <1>4, <1>i, <3>1, <3>2, <3>3, <3>4 DEF Kept
  <2>4. ASSUME slips' = {}, i.phase = "open", ~isDirty(i)
        PROVE  i.inFlight = NoText /\ ~i.background /\ db = i.value
    <3>1. Alone(m) /\ e.phase = "open"
      BY <1>1, <1>3, <1>4, <1>5, <1>i, <2>4 DEF OpenInv
    <3>2. isDirty(e)
      BY <1>0, <1>3, <3>1 DEF Alone
    <3>3. ok /\ e.value = e.inFlight
      BY <1>4, <1>8, <2>4, <3>1, <3>2
    <3>4. db = e.value
      BY <1>0, <1>2, <1>3, <1>k, <3>3 DEF SlotInv
    <3> QED BY <1>4, <1>6, <1>8, <1>i, <2>4, <3>4
  <2>5. ASSUME slips' = {}, i.phase = "gone"
        PROVE  slot.state = "ok" /\ ~(ed[m].pending /\ ed[m].flushPending)
    BY <1>3, <1>4, <1>6, <1>10, <1>i, <1>k, <2>5
  <2> QED BY <1>0, <1>i, <1>m, <1>t, <1>5, <2>1, <2>2, <2>3, <2>k, <2>4, <2>5, ReleaseStep
<1> QED BY <1>9, <1>10

LEMMA SettleBackgroundStep ==
  ASSUME TypeInv, MountInv, QueueInv, SlotInv, OrderInv, LatestInv, PendingInv, CoveredInv,
         HiddenInv, KeptInv, OpenInv, ClosedInv, SettleBackground
  PROVE  Inv'
<1>m. PICK m : m = Head(queue).mount
  OBVIOUS
<1>e. PICK e : e = ed[m]
  OBVIOUS
<1> DEFINE r == [e EXCEPT !.background = FALSE]
           f == IF cancelled(e) THEN r
                ELSE IF slot.state = "failed"
                THEN [r EXCEPT !.saveState = "error", !.retryTimer = TRUE]
                ELSE IF e.inFlight = NoText /\ e.value = slot.text
                THEN [r EXCEPT !.lastSaved = slot.text, !.saveState = "saved"]
                ELSE r
<1>0. /\ queue # <<>> /\ slot.state # "running" /\ Head(queue).kind = "background"
      /\ ed' = [ed EXCEPT ![m] = f] /\ queue' = Tail(queue) /\ slot' = Running
      /\ UNCHANGED <<db, cur, visible, edits, hides, typed, landed, slips, skipped>>
  BY <1>m, <1>e DEF SettleBackground
<1>q. queue \in Seq(Op) /\ Head(queue) = queue[1] /\ 1 \in DOMAIN queue
  <2>1. queue \in Seq(Op)
    BY DEF TypeInv
  <2> QED BY <1>0, <2>1, Removed
<1>1. m \in Mounts /\ e \in Editor /\ Sound(e)
  <2>1. ed \in [Mounts -> Editor] /\ m \in Mounts
    BY <1>m, <1>q, QueuedOps DEF TypeInv
  <2> QED BY <1>e, <2>1 DEF MountInv
<1>2. e.background /\ slot.text = queue[1].text /\ slot.text \in Texts /\ e.phase \in {"open", "gone"}
  <2>1. Known(queue[1], e) /\ queue[1].kind = "background"
    BY <1>0, <1>e, <1>m, <1>q DEF QueueInv
  <2>2. slot.text = queue[1].text
    BY <1>0, <1>q, <2>1 DEF SlotInv
  <2> QED BY <1>1, <2>1, <2>2 DEF Known, Sound, Editor
<1>r. /\ r \in Editor /\ r.phase = e.phase /\ r.value = e.value /\ r.stamp = e.stamp
      /\ r.pending = e.pending /\ r.flushPending = e.flushPending /\ ~r.background
      /\ r.saveTimer = e.saveTimer /\ r.inFlight = e.inFlight /\ r.retryTimer = e.retryTimer
      /\ r.lastSaved = e.lastSaved
  BY <1>1 DEF Editor
<1> HIDE DEF r
<1>f. /\ f \in Editor /\ f.phase = e.phase /\ f.value = e.value /\ f.stamp = e.stamp
      /\ f.pending = e.pending /\ f.flushPending = e.flushPending /\ ~f.background
      /\ f.saveTimer = e.saveTimer /\ f.inFlight = e.inFlight
      /\ e.retryTimer => f.retryTimer
      /\ f.phase # "open" => ~f.retryTimer
      /\ f.phase = "open" /\ isDirty(f) => isDirty(e)
      /\ f.phase = "open" /\ isDirty(f) =>
           (slot.state = "failed" /\ f.retryTimer) \/ ~(e.inFlight = NoText /\ e.value = slot.text)
      /\ f.phase = "open" /\ isDirty(e) /\ ~isDirty(f) =>
           e.inFlight = NoText /\ e.value = slot.text /\ slot.state # "failed"
  <2>1. CASE e.phase = "gone"
    <3>1. f = r
      BY <2>1 DEF cancelled
    <3> HIDE DEF f
    <3> QED BY <1>1, <1>r, <2>1, <3>1 DEF Sound
  <2>2. CASE e.phase = "open" /\ slot.state = "failed"
    <3>1. f = [r EXCEPT !.saveState = "error", !.retryTimer = TRUE]
      BY <2>2 DEF cancelled
    <3> HIDE DEF f
    <3> QED BY <1>r, <2>2, <3>1 DEF Editor, SaveStates, isDirty
  <2>3. CASE e.phase = "open" /\ slot.state # "failed" /\ e.inFlight = NoText /\ e.value = slot.text
    <3>1. f = [r EXCEPT !.lastSaved = slot.text, !.saveState = "saved"]
      BY <2>3 DEF cancelled
    <3> HIDE DEF f
    <3> QED BY <1>r, <1>2, <2>3, <3>1 DEF Editor, SaveStates, isDirty
  <2>4. CASE e.phase = "open" /\ slot.state # "failed" /\ ~(e.inFlight = NoText /\ e.value = slot.text)
    <3>1. f = r
      BY <2>4 DEF cancelled
    <3> HIDE DEF f
    <3> QED BY <1>r, <2>4, <3>1 DEF isDirty
  <2> QED BY <1>2, <2>1, <2>2, <2>3, <2>4
<1> HIDE DEF f
<1>3. Releases(ed[m], f, "background")
  BY <1>e, <1>f DEF Releases
<1>b. ASSUME f.phase = "open", isDirty(f), Backed(queue, m, e.value) PROVE f.retryTimer /\ e.inFlight = NoText
  <2>1. PICK i \in ops(queue, m, "background") :
               queue[i].text = e.value /\ \A j \in ops(queue, m, "write") : j < i
    BY <1>b DEF Backed
  <2>2. i = 1
    BY <1>0, <1>m, <1>q, <2>1 DEF QueueInv, ops
  <2>3. \A j \in ops(queue, m, "write") : FALSE
    <3>1. \A j \in ops(queue, m, "write") : j \in Nat /\ 1 <= j /\ j < 1
      BY <1>q, <2>1, <2>2, Removed DEF ops
    <3> QED BY <3>1
  <2>4. e.inFlight = NoText
    BY <1>1, <1>e, <2>3 DEF QueueInv
  <2> QED BY <1>2, <1>b, <1>f, <2>1, <2>2, <2>4
<1>4. ASSUME f.phase = "open", isDirty(f), "disarmed" \notin slips' PROVE Covered(f, queue', m)
  <2>1. Covered(e, queue, m)
    BY <1>0, <1>1, <1>e, <1>f, <1>4 DEF CoveredInv
  <2> QED BY <1>b, <1>f, <1>4, <2>1 DEF Covered
<1>k. ASSUME ~visible, ~skipped, f.phase = "open", isDirty(f) PROVE Kept(f, queue', m)
  <2>1. Kept(e, queue, m)
    BY <1>0, <1>1, <1>e, <1>f, <1>k DEF KeptInv
  <2> QED BY <1>b, <1>f, <1>k, <2>1 DEF Kept
<1>5. ASSUME slips' = {}, f.phase = "open", ~isDirty(f)
      PROVE  f.inFlight = NoText /\ ~f.background /\ db = f.value
  <2>1. Alone(m)
    BY <1>0, <1>1, <1>e, <1>f, <1>5 DEF OpenInv
  <2>2. isDirty(e)
    BY <1>0, <1>e, <2>1 DEF Alone
  <2>3. e.inFlight = NoText /\ e.value = slot.text /\ slot.state # "failed"
    BY <1>f, <1>5, <2>2
  <2>4. slot.state = "ok"
    BY <1>0, <2>3 DEF TypeInv, Outcomes
  <2> QED BY <1>0, <1>f, <2>3, <2>4 DEF SlotInv
<1>6. slips' \subseteq Slips /\ slips \subseteq slips'
  BY <1>0 DEF TypeInv
<1> QED BY <1>0, <1>m, <1>f, <1>3, <1>4, <1>k, <1>5, <1>6, ReleaseStep

LEMMA KillStep ==
  ASSUME TypeInv, MountInv, OrderInv, LatestInv, Kill
  PROVE  Inv'
<1>0. /\ cur # 0 /\ queue' = <<>> /\ slot' = Running /\ visible' = TRUE /\ typed' = db /\ slips' = {}
      /\ skipped' = FALSE
      /\ ed' = [m \in Mounts |-> IF m <= cur THEN mounted("gone", db) ELSE ed[m]]
      /\ UNCHANGED <<db, cur, edits, hides, landed>>
  BY DEF Kill
<1>1. ed \in [Mounts -> Editor] /\ db \in Texts
  BY DEF TypeInv
<1>2. ASSUME NEW m \in Mounts
      PROVE  /\ ed'[m] \in Editor /\ Sound(ed'[m]) /\ ~ed'[m].pending /\ ed'[m].inFlight = NoText
             /\ ~ed'[m].saveTimer /\ ed'[m].phase # "open"
             /\ m > cur <=> ed'[m].phase = "unborn"
             /\ m < cur => ed'[m].phase = "gone"
  <2>1. m \in Nat /\ cur \in Nat
    BY BoundsAssumption DEF Mounts, TypeInv
  <2>2. CASE m <= cur
    <3>1. ed'[m] = mounted("gone", db) /\ ~(m > cur)
      BY <1>0, <2>1, <2>2
    <3> QED BY <1>1, <3>1, Mounted
  <2>3. CASE m > cur
    <3>1. ed'[m] = ed[m] /\ ~(m < cur) /\ ed[m].phase = "unborn" /\ Sound(ed[m])
      BY <1>0, <2>1, <2>3 DEF MountInv
    <3> QED BY <1>1, <2>3, <3>1 DEF Sound
  <2> QED BY <2>1, <2>2, <2>3
<1>3. TypeInv'
  <2>1. slot' \in Outcomes /\ queue' \in Seq(Op) /\ slips' \subseteq Slips
    BY <1>0 DEF Outcomes, Running
  <2>2. ed' \in [Mounts -> Editor]
    BY <1>0, <1>2
  <2> QED BY <1>0, <2>1, <2>2 DEF TypeInv
<1>4. MountInv'
  BY <1>0, <1>2 DEF MountInv
<1>5. DOMAIN queue' = {}
  BY <1>0
<1>6. QueueInv' /\ SlotInv' /\ OrderInv'
  BY <1>0, <1>2, <1>5 DEF QueueInv, SlotInv, OrderInv, Running
<1>7. LatestInv' /\ PendingInv' /\ CoveredInv' /\ HiddenInv' /\ KeptInv' /\ OpenInv'
  BY <1>0, <1>2 DEF LatestInv, PendingInv, CoveredInv, HiddenInv, KeptInv, OpenInv
<1>8. ClosedInv'
  BY <1>0, <1>2, <1>5 DEF ClosedInv, Stored, NonePending, Rest
<1> QED BY <1>3, <1>4, <1>6, <1>7, <1>8 DEF Inv

\* A step that changes neither the editors nor the queue nor what they store.
LEMMA QuietStep ==
  ASSUME TypeInv, MountInv, QueueInv, SlotInv, OrderInv, LatestInv, PendingInv, CoveredInv,
         HiddenInv, KeptInv, OpenInv, ClosedInv, visible' \in BOOLEAN, ~visible' => ~visible,
         skipped' \in BOOLEAN, ~visible' => skipped' = skipped,
         UNCHANGED <<db, queue, slot, ed, cur, edits, hides, typed, landed, slips>>
  PROVE  Inv'
<1>1. TypeInv' /\ HiddenInv' /\ KeptInv'
  BY DEF TypeInv, HiddenInv, KeptInv
<1>2. MountInv' /\ QueueInv' /\ SlotInv' /\ OrderInv' /\ LatestInv' /\ PendingInv' /\ CoveredInv'
  BY DEF MountInv, QueueInv, SlotInv, OrderInv, LatestInv, PendingInv, CoveredInv
<1>3. OpenInv' /\ ClosedInv'
  BY DEF OpenInv, Alone, ClosedInv, Closed, Stored, Coming, FlushAsked, NonePending
<1> QED BY <1>1, <1>2, <1>3 DEF Inv

-----------------------------------------------------------------------------
(* The theorems *)

LEMMA Initially == Init => Inv
<1> SUFFICES ASSUME Init PROVE Inv
  OBVIOUS
<1>1. /\ db \in Texts /\ queue = <<>> /\ slot = Running /\ ed = [m \in Mounts |-> mounted("unborn", db)]
      /\ cur = 0 /\ visible = TRUE /\ edits = 0 /\ hides = 0 /\ typed = db /\ landed = 0 /\ slips = {}
      /\ skipped = FALSE
  BY DEF Init
<1>2. ASSUME NEW m \in Mounts
      PROVE  /\ ed[m] \in Editor /\ Sound(ed[m]) /\ ed[m].phase = "unborn" /\ ~ed[m].pending
             /\ ed[m].inFlight = NoText /\ ~ed[m].saveTimer
             /\ m > cur /\ ~(m < cur)
  <2>1. ed[m] = mounted("unborn", db)
    BY <1>1
  <2>2. m > 0 /\ ~(m < 0)
    BY BoundsAssumption DEF Mounts
  <2> QED BY <1>1, <2>1, <2>2, Mounted
<1>3. TypeInv
  <2>1. slot \in Outcomes /\ queue \in Seq(Op) /\ slips \subseteq Slips /\ ed \in [Mounts -> Editor]
    <3>1. slot \in Outcomes /\ queue \in Seq(Op) /\ slips \subseteq Slips
      BY <1>1 DEF Outcomes, Running
    <3>2. ed \in [Mounts -> Editor]
      BY <1>1, <1>2
    <3> QED BY <3>1, <3>2
  <2>2. visible \in BOOLEAN /\ skipped \in BOOLEAN
    BY <1>1
  <2>3. cur \in 0 .. MaxMounts /\ edits \in 0 .. MaxEdits /\ hides \in 0 .. MaxHides /\ landed \in 0 .. MaxEdits
    BY <1>1, BoundsAssumption
  <2> QED BY <1>1, <2>1, <2>2, <2>3 DEF TypeInv
<1>4. DOMAIN queue = {}
  BY <1>1
<1>5. MountInv
  BY <1>2 DEF MountInv
<1>6. QueueInv /\ SlotInv /\ OrderInv
  BY <1>1, <1>2, <1>4 DEF QueueInv, SlotInv, OrderInv, Running
<1>7. LatestInv /\ PendingInv /\ CoveredInv /\ HiddenInv /\ KeptInv /\ OpenInv
  BY <1>1, <1>2 DEF LatestInv, PendingInv, CoveredInv, HiddenInv, KeptInv, OpenInv
<1>8. ClosedInv
  BY <1>1, <1>2, <1>4 DEF ClosedInv, Stored, NonePending, Rest
<1> QED BY <1>3, <1>5, <1>6, <1>7, <1>8 DEF Inv

LEMMA Preserved == Inv /\ [Next]_vars => Inv'
<1> SUFFICES ASSUME Inv, [Next]_vars PROVE Inv'
  OBVIOUS
<1>1. /\ TypeInv /\ MountInv /\ QueueInv /\ SlotInv /\ OrderInv /\ LatestInv /\ PendingInv /\ CoveredInv
      /\ HiddenInv /\ KeptInv /\ OpenInv /\ ClosedInv
  BY DEF Inv
<1>2. CASE OpenDate
  BY <1>1, <1>2, OpenDateStep
<1>3. CASE Execute
  BY <1>1, <1>3, ExecuteStep
<1>4. CASE SettleGet
  BY <1>1, <1>4, SettleGetStep
<1>5. CASE SettleWrite
  BY <1>1, <1>5, SettleWriteStep
<1>6. CASE SettleBackground
  BY <1>1, <1>6, SettleBackgroundStep
<1>7. ASSUME NEW t \in Texts, Type(t) PROVE Inv'
  BY <1>1, <1>7, TypeStep
<1>8. CASE SaveTimerFires \/ RetryTimerFires
  BY <1>1, <1>8, TimerSteps
<1>9. CASE Hide
  BY <1>1, <1>9, HideStep
<1>10. CASE Show
  <2>1. /\ visible' = TRUE /\ skipped' = FALSE
        /\ UNCHANGED <<db, queue, slot, ed, cur, edits, hides, typed, landed, slips>>
    BY <1>10 DEF Show
  <2> QED BY <1>1, <2>1, QuietStep
<1>11. CASE Leave
  BY <1>1, <1>11, LeaveStep
<1>12. CASE Kill
  BY <1>1, <1>12, KillStep
<1>13. CASE UNCHANGED vars
  <2>1. visible' = visible /\ UNCHANGED <<db, queue, slot, ed, cur, edits, hides, typed, landed, slips, skipped>>
    BY <1>13 DEF vars
  <2> QED BY <1>1, <2>1, QuietStep DEF TypeInv
<1> QED BY <1>2, <1>3, <1>4, <1>5, <1>6, <1>7, <1>8, <1>9, <1>10, <1>11, <1>12, <1>13 DEF Next

\* The typed, inductive invariant of the editor over the storage queue.
THEOREM InductiveInvariant == Spec => []Inv
<1> QED BY Initially, Preserved, PTL DEF Spec

\* An operation that failed, settled late or was overtaken leaves the next save of
\* a dirty editor armed: JournalEditor.tsx's early returns lose no text.
THEOREM SavesStayArmed == Spec => []DirtyIsArmed
<1>1. Inv => DirtyIsArmed
  <2> SUFFICES ASSUME Inv, Open, dirty(ed[cur]), "disarmed" \notin slips PROVE Armed(cur)
    BY DEF DirtyIsArmed
  <2>1. cur \in Mounts /\ ed[cur] \in Editor
    BY Newest, BoundsAssumption DEF Inv, Open, TypeInv, Mounts
  <2>2. Covered(ed[cur], queue, cur)
    BY <2>1 DEF Inv, CoveredInv, Open, dirty, isDirty
  <2>3. ed[cur].inFlight = ed[cur].value => ed[cur].inFlight # NoText
    BY <2>1, TextsAssumption DEF Editor
  <2>4. Backed(queue, cur, ed[cur].value) => ed[cur].background
    <3>1. \A i \in ops(queue, cur, "background") : Known(queue[i], ed[cur]) /\ queue[i].kind = "background"
      BY DEF Inv, QueueInv, ops
    <3> QED BY <3>1 DEF Backed, Known
  <2> QED BY <2>2, <2>3, <2>4 DEF Covered, Armed, Busy
<1> QED BY <1>1, InductiveInvariant, PTL

\* At rest the row holds what was typed last, over any number of mounts of the
\* date, failed saves and trips to the background, unless a known slip happened.
THEOREM TypedIsStored == Spec => []LastTypedIsStored
<1>1. Inv => LastTypedIsStored
  <2> SUFFICES ASSUME Inv, queue = <<>>, Open => ~Armed(cur), slips = {}
              PROVE  db = typed /\ (Open => ed[cur].value = db)
    BY DEF LastTypedIsStored
  <2>0. TypeInv /\ MountInv /\ QueueInv /\ CoveredInv /\ OpenInv /\ ClosedInv /\ DOMAIN queue = {}
    BY DEF Inv
  <2>1. CASE Open
    <3>1. cur \in Mounts /\ ed[cur] \in Editor
      BY <2>0, <2>1, Newest, BoundsAssumption DEF Open, TypeInv, Mounts
    <3>2. Alone(cur)
      BY <2>0, <2>1, <3>1 DEF OpenInv, Open
    <3>3. ~isDirty(ed[cur])
      <4>1. ed[cur].inFlight # ed[cur].value /\ ~Backed(queue, cur, ed[cur].value)
        BY <2>0, <2>1, <3>1, TextsAssumption DEF Armed, Busy, Backed, ops, Editor
      <4>2. ~Covered(ed[cur], queue, cur)
        BY <2>1, <4>1 DEF Armed, Busy, Covered
      <4> QED BY <2>0, <2>1, <3>1, <4>2 DEF CoveredInv, Open
    <3> QED BY <3>2, <3>3 DEF Alone
  <2>2. CASE ~Open
    <3>1. Closed
      <4>1. \A m \in Mounts : ed[m].phase = "open" => m = cur /\ cur # 0
        BY <2>0, Newest DEF Mounts
      <4> QED BY <2>2, <4>1 DEF Closed, Open
    <3>2. ~Coming
      BY <2>0 DEF Coming
    <3>3. ASSUME NEW m \in Mounts, FlushAsked(m) PROVE FALSE
      BY <2>0, <3>3 DEF FlushAsked, MountInv, Sound, QueueInv, ops
    <3> QED BY <2>0, <2>2, <3>1, <3>2, <3>3 DEF ClosedInv, Stored
  <2> QED BY <2>1, <2>2
<1> QED BY <1>1, InductiveInvariant, PTL

\* While the app is hidden the unsaved text of the open editor is in one of its
\* queued storage operations or in a failed save whose retry is armed, never only
\* in a timer or a flag of JavaScript, unless hiding found an earlier background
\* write unsettled and queued nothing (skipped, JournalEditor.tsx:276).
THEOREM HiddenTextIsSafe == Spec => []HiddenIsDurable
<1>1. Inv => HiddenIsDurable
  <2> SUFFICES ASSUME Inv, ~visible, Open, dirty(ed[cur]), ~skipped
              PROVE  \/ ed[cur].retryTimer
                     \/ \E i \in DOMAIN queue : queue[i].mount = cur /\ queue[i].text = ed[cur].value
    BY DEF HiddenIsDurable
  <2>0. TypeInv /\ MountInv /\ QueueInv /\ KeptInv
    BY DEF Inv
  <2>1. cur \in Mounts /\ ed[cur] \in Editor
    BY <2>0, Newest, BoundsAssumption DEF Open, TypeInv, Mounts
  <2>2. Kept(ed[cur], queue, cur)
    BY <2>0, <2>1 DEF KeptInv, Open, dirty, isDirty
  <2>3. ASSUME ed[cur].inFlight = ed[cur].value
        PROVE  \E i \in DOMAIN queue : queue[i].mount = cur /\ queue[i].text = ed[cur].value
    <3>1. ops(queue, cur, "write") # {}
      BY <2>0, <2>1, <2>3, TextsAssumption DEF QueueInv, Editor
    <3>2. PICK i \in DOMAIN queue : queue[i].mount = cur /\ queue[i].kind = "write"
      BY <3>1 DEF ops
    <3>3. queue[i].text = ed[cur].inFlight
      BY <2>0, <3>2 DEF QueueInv, Known
    <3> QED BY <2>3, <3>2, <3>3
  <2>4. ASSUME Backed(queue, cur, ed[cur].value)
        PROVE  \E i \in DOMAIN queue : queue[i].mount = cur /\ queue[i].text = ed[cur].value
    BY <2>4 DEF Backed, ops
  <2> QED BY <2>2, <2>3, <2>4 DEF Kept
<1> QED BY <1>1, InductiveInvariant, PTL

\* The storage queue applies the writes of all mounts in the order the user typed
\* their texts, whatever fails and whoever leaves in between.
THEOREM RowMovesForward == Spec => OlderNeverLands
<1>1. Inv /\ [Next]_vars => [landed' >= landed]_vars
  <2> SUFFICES ASSUME Inv, Next PROVE landed' >= landed
    OBVIOUS
  <2>0. TypeInv /\ OrderInv /\ landed \in Nat
    BY BoundsAssumption DEF Inv, TypeInv
  <2>1. CASE Execute
    <3>1. queue # <<>> /\ (UNCHANGED landed \/ (Head(queue).kind # "get" /\ landed' = Head(queue).stamp))
      BY <2>1 DEF Execute
    <3>2. 1 \in DOMAIN queue /\ Head(queue) = queue[1] /\ queue[1].stamp \in Nat
      BY <2>0, <3>1, Removed, QueuedOps DEF TypeInv
    <3>3. queue[1].kind # "get" => landed <= queue[1].stamp
      BY <2>0, <3>2 DEF OrderInv, Stamped
    <3> QED BY <2>0, <3>1, <3>2, <3>3
  <2>2. ~Execute => UNCHANGED landed
    BY DEF Next, OpenDate, SettleGet, SettleWrite, SettleBackground, Type, SaveTimerFires,
           RetryTimerFires, Hide, Show, Leave, Kill
  <2> QED BY <2>0, <2>1, <2>2
<1> QED BY <1>1, InductiveInvariant, PTL DEF Spec, OlderNeverLands

\* The outcome of a write whose text is no longer the editor's is not shown.
THEOREM StaleOutcomesAreSilent == Spec => StaleWriteIsSilent
<1>1. Inv /\ [Next]_vars => [SettleWrite /\ Stale(Head(queue)) => Unpainted(Head(queue).mount)]_vars
  <2> SUFFICES ASSUME Inv, SettleWrite, Stale(Head(queue)) PROVE Unpainted(Head(queue).mount)
    OBVIOUS
  <2>0. TypeInv /\ MountInv /\ QueueInv
    BY DEF Inv
  <2>m. PICK m : m = Head(queue).mount
    OBVIOUS
  <2>k. PICK ok : ok = (slot.state = "ok")
    OBVIOUS
  <2>a. PICK a : a = applyOutcome(ed[m], ok)
    OBVIOUS
  <2>t. PICK t : t = Tail(queue)
    OBVIOUS
  <2>1. queue # <<>> /\ Head(queue).kind = "write" /\ drain(m, a, t)
    BY <2>m, <2>k, <2>a, <2>t DEF SettleWrite, drain, startWrite
  <2>q. queue \in Seq(Op) /\ Head(queue) = queue[1] /\ 1 \in DOMAIN queue
    <3>1. queue \in Seq(Op)
      BY <2>0 DEF TypeInv
    <3> QED BY <2>1, <3>1, Removed
  <2>2. ed \in [Mounts -> Editor] /\ m \in Mounts /\ ed[m] \in Editor /\ Sound(ed[m]) /\ ok \in BOOLEAN
    <3>1. ed \in [Mounts -> Editor] /\ m \in Mounts
      BY <2>0, <2>m, <2>q, QueuedOps DEF TypeInv
    <3> QED BY <2>0, <2>k, <3>1 DEF MountInv
  <2>3. Head(queue).text = ed[m].inFlight /\ ed[m].inFlight \in Texts
    <3>1. Known(queue[1], ed[m])
      BY <2>0, <2>m, <2>q DEF QueueInv
    <3> QED BY <2>1, <2>q, <3>1 DEF Known
  <2>4. ed[m].phase = "gone" \/ ed[m].value # ed[m].inFlight
    BY <2>3, <2>m DEF Stale, cancelled
  <2>5. /\ a \in Editor /\ a.value = ed[m].value /\ a.saveState = ed[m].saveState
        /\ a.retryTimer = ed[m].retryTimer
    BY <2>2, <2>3, <2>4, <2>a, Applied
  <2>6. ed'[m].value = a.value /\ ed'[m].saveState = a.saveState /\ ed'[m].retryTimer = a.retryTimer
    BY <2>1, <2>2, <2>5 DEF drain, startWrite, Editor
  <2> QED BY <2>5, <2>6, <2>m DEF Unpainted
<1> QED BY <1>1, InductiveInvariant, PTL DEF Spec, StaleWriteIsSilent

=============================================================================
