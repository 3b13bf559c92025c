----------------------------- MODULE JournalPages -----------------------------
(***************************************************************************)
(* The screens that show which days have entries, while entries change:    *)
(* Today and Journal (JournalView), Archive, and Weekly Review, over the   *)
(* storage queue and a day that ends.  A date is a day record of Calendar, *)
(* an entry is present or absent; when the editor writes is JournalEditor, *)
(* here it may write whenever it is dirty.                                 *)
(***************************************************************************)
EXTENDS Calendar

CONSTANTS
  Starts,     \* the days the walk may begin on
  Entries,    \* the days that may have an entry
  Targets,    \* the days a link may name
  Busy,       \* numbers of the days on which the app is used
  Ends,       \* numbers of the days a walk ends on
  MaxVisits,  \* bound on the screens opened
  MaxEdits    \* bound on the user's changes

\* Dates are days of the calendar, and a walk ends with it at the latest.
ASSUME DatesAssumption ==
  /\ Entries # {}
  /\ \A t \in Starts \cup Entries \cup Targets : isDay(t)
  /\ LastNumber \in Ends

\* No screen is opened on a day whose weeks, the current and the last, are not in
\* the calendar.
ASSUME BusyAssumption == \A n \in Busy : inRange(n - 12) /\ inRange(n + 6)
ASSUME BoundsAssumption == MaxVisits \in Nat /\ MaxEdits \in Nat

VARIABLES
  day,     \* today in the saved time zone
  rows,    \* the days with a row
  queue,   \* storage operations, the running one first
  slot,    \* how the running one ended: "running", "ok" or "failed", and what it read
  page,    \* the screen: kind, of (the day it was made for), phase, shown (entry days)
  editor,  \* JournalView's editor: phase, value, saved, inFlight, pending
  visits, edits,  \* used up bounds
  silent   \* history: days whose change was reported to no screen since its last read

vars == <<day, rows, queue, slot, page, editor, visits, edits, silent>>

-----------------------------------------------------------------------------
Running == [state |-> "running", days |-> {}, landed |-> FALSE]
NoEditor == [phase |-> "none", value |-> FALSE, saved |-> FALSE, inFlight |-> FALSE, pending |-> FALSE]

open(kind, t) == [kind |-> kind, of |-> t, phase |-> "loading", shown |-> {}]

\* An operation.  live: the screen that asked still waits for just this answer,
\* or, for a write, the JournalView it came from is still there.  then: what the
\* left editor of a write still flushes after it.
operation(kind, days) ==
  [kind |-> kind, days |-> days, live |-> TRUE,
   text |-> FALSE, flush |-> FALSE, left |-> FALSE, then |-> {}]

writing(days, text, flush) ==
  [operation("write", days) EXCEPT !.text = text, !.flush = flush, !.left = flush]

\* A generation or a cancelled flag moves on: answers of these kinds come too late.
superseded(q, kinds) ==
  [i \in DOMAIN q |-> IF q[i].kind \in kinds THEN [q[i] EXCEPT !.live = FALSE] ELSE q[i]]

\* The first and the last date a screen lists.
weekStart(t) == mondayOfWeek(t.date)

listedFrom(p) ==
  CASE p.kind = "archive" -> monthFirst(p.of.date)
    [] p.kind = "weekly"  -> reviewMonday(p.of.date)
    [] OTHER -> weekStart(p.of)

listedTo(p) ==
  CASE p.kind = "archive" -> monthLast(p.of.date)
    [] p.kind = "weekly"  -> reviewSunday(p.of.date)
    [] OTHER -> addDays(weekStart(p.of), 6)

listing(p) ==
  operation("list", {e \in Entries : /\ earlierOrSame(listedFrom(p), e.date)
                                     /\ earlierOrSame(e.date, listedTo(p))})

Init ==
  /\ day \in Starts
  /\ rows \in IF day.number \in Busy THEN SUBSET Entries ELSE {{}}
  /\ queue = <<>> /\ slot = Running
  /\ page = open("none", CHOOSE t \in Entries : TRUE)
  /\ editor = NoEditor
  /\ visits = 0 /\ edits = 0
  /\ silent = {}

-----------------------------------------------------------------------------
\* Midnight.  Days on which the app is not used only pass before its first use.
Midnight ==
  /\ day.number \notin Ends
  /\ day.number + 1 \in Busy \/ (visits = 0 /\ rows = {})
  /\ day' = nextDay(day)
  /\ UNCHANGED <<rows, queue, slot, page, editor, visits, edits, silent>>

\* The unmount effect of the editor: flush what is dirty, after the write in flight.
flushed(q) ==
  IF editor.phase # "open" THEN q
  ELSE LET dirty == editor.value # editor.saved
           after(op) == [op EXCEPT !.left = TRUE, !.then = IF dirty THEN {editor.value} ELSE {}]
       IN  IF editor.inFlight
           THEN [i \in DOMAIN q |->
                   IF q[i].kind = "write" /\ ~q[i].left THEN after(q[i]) ELSE q[i]]
           ELSE IF dirty THEN Append(q, writing({page.of}, editor.value, TRUE)) ELSE q

\* Another screen replaces this one: everything it waited for is dropped.
arrive(p, q) ==
  /\ page' = p
  /\ queue' = superseded(flushed(queue), {"list", "get", "write"}) \o q
  /\ UNCHANGED <<day, rows, slot, edits, silent>>

mountToday ==
  /\ day.number \in Busy /\ visits < MaxVisits
  /\ arrive(open("today", day), <<listing(open("today", day)), operation("get", {day})>>)
  /\ editor' = [NoEditor EXCEPT !.phase = "loading"]
  /\ visits' = visits + 1

OpenToday ==
  /\ page.kind # "today"
  /\ mountToday

OpenArchive ==
  /\ day.number \in Busy /\ visits < MaxVisits
  /\ page.kind # "archive"
  /\ arrive(open("archive", day), <<listing(open("archive", day))>>)
  /\ editor' = NoEditor
  /\ visits' = visits + 1

OpenWeekly ==
  /\ day.number \in Busy /\ visits < MaxVisits
  /\ page.kind # "weekly"
  /\ arrive(open("weekly", day), <<listing(open("weekly", day))>>)
  /\ editor' = NoEditor
  /\ visits' = visits + 1

\* The same JournalView gets another date: the entry is read anew, the markers
\* only when the week is another one.
turnTo(t) ==
  LET sameWeek == weekStart(t) = weekStart(page.of)
      left == superseded(flushed(queue), IF sameWeek THEN {"get"} ELSE {"get", "list"})
      next == IF sameWeek THEN [page EXCEPT !.of = t] ELSE open(page.kind, t)
  IN  /\ page' = next
      /\ queue' = left \o (IF sameWeek THEN <<>> ELSE <<listing(next)>>) \o <<operation("get", {t})>>
      /\ editor' = [NoEditor EXCEPT !.phase = "loading"]
      /\ UNCHANGED <<day, rows, slot, edits, silent>>

\* A link to a day: from another route Journal is mounted, on its own route it is
\* kept; a day whose week is out of range goes to Today, which is left and mounted
\* again when the link is on Today.
OpenJournal(t) ==
  /\ day.number \in Busy /\ visits < MaxVisits
  /\ page.kind \in {"today", "journal", "archive"}
  /\ renderable(t.date)
  /\ page.kind = "journal" => page.of # t
  /\ IF page.kind = "journal" THEN turnTo(t)
     ELSE /\ arrive(open("journal", t), <<listing(open("journal", t)), operation("get", {t})>>)
          /\ editor' = [NoEditor EXCEPT !.phase = "loading"]
  /\ visits' = visits + 1

RedirectToToday(t) ==
  /\ ~renderable(t.date)
  /\ mountToday

\* Today computes its date when it renders, and has no timer of its own.
TodayRenders ==
  /\ page.kind = "today" /\ page.of # day
  /\ turnTo(day)
  /\ UNCHANGED visits

\* Archive turns a page; an error has taken the grid, and its buttons, away.
TurnMonth(delta) ==
  LET month == shiftMonth(page.of.date, delta)
  IN  /\ page.kind = "archive" /\ page.phase # "error"
      /\ visits < MaxVisits
      /\ month # OutOfRange
      /\ LET next == open("archive", [page.of EXCEPT !.date = month])
         IN  /\ page' = next
             /\ queue' = Append(superseded(queue, {"list"}), listing(next))
      /\ visits' = visits + 1
      /\ UNCHANGED <<day, rows, slot, editor, edits, silent>>

\* Weekly Review looks at the clock every minute and when it becomes visible.
WeeklyNotices ==
  /\ page.kind = "weekly" /\ page.of # day
  /\ page' = open("weekly", day)
  /\ queue' = Append(superseded(queue, {"list"}), listing(open("weekly", day)))
  /\ UNCHANGED <<day, rows, slot, editor, visits, edits, silent>>

-----------------------------------------------------------------------------
\* The user writes or clears the entry.
Type ==
  /\ editor.phase = "open" /\ edits < MaxEdits
  /\ editor' = [editor EXCEPT !.value = ~@]
  /\ edits' = edits + 1
  /\ UNCHANGED <<day, rows, queue, slot, page, visits, silent>>

\* Debounce or retry: saveLatest().  Going to the background is taken for the same;
\* the code then queues a second write beside one in flight, whose landing may be
\* reported to no page (it would be silent) and is left out.
Save ==
  /\ editor.phase = "open" /\ editor.value # editor.saved
  /\ IF editor.inFlight
     THEN editor' = [editor EXCEPT !.pending = TRUE] /\ UNCHANGED queue
     ELSE /\ editor' = [editor EXCEPT !.inFlight = TRUE]
          /\ queue' = Append(queue, writing({page.of}, editor.value, FALSE))
  /\ UNCHANGED <<day, rows, slot, page, visits, edits, silent>>

\* The running operation meets the database; a write that fails may have landed.
\* What a screen reads for itself makes up for what it was not told.
Execute ==
  /\ queue # <<>> /\ slot.state = "running"
  /\ LET op == Head(queue)
         ended(state, days, landed) == [state |-> state, days |-> days, landed |-> landed]
     IN  \/ /\ op.kind # "write"
            /\ slot' \in {ended("ok", rows \cap op.days, FALSE), ended("failed", {}, FALSE)}
            /\ silent' = IF op.kind = "list" /\ op.live /\ slot'.state = "ok" THEN {} ELSE silent
            /\ UNCHANGED rows
         \/ /\ op.kind = "write"
            /\ rows' = IF op.text THEN rows \cup op.days ELSE rows \ op.days
            /\ slot' \in {ended(s, {}, TRUE) : s \in {"ok", "failed"}}
            /\ UNCHANGED silent
         \/ /\ op.kind = "write"
            /\ slot' = ended("failed", {}, FALSE)
            /\ UNCHANGED <<rows, silent>>
  /\ UNCHANGED <<day, queue, page, editor, visits, edits>>

\* A list arrives; only the latest one asked for is shown.
SettleList ==
  /\ queue # <<>> /\ slot.state # "running" /\ Head(queue).kind = "list"
  /\ page' = IF ~Head(queue).live THEN page
             ELSE [page EXCEPT !.phase = IF slot.state = "ok" THEN "ready" ELSE "error",
                               !.shown = slot.days]
  /\ queue' = Tail(queue) /\ slot' = Running
  /\ UNCHANGED <<day, rows, editor, visits, edits, silent>>

\* The entry arrives; a failed read mounts no editor.
SettleGet ==
  /\ queue # <<>> /\ slot.state # "running" /\ Head(queue).kind = "get"
  /\ editor' = IF ~Head(queue).live THEN editor
               ELSE IF slot.state = "failed" THEN [NoEditor EXCEPT !.phase = "error"]
               ELSE LET text == slot.days # {}
                    IN  [NoEditor EXCEPT !.phase = "open", !.value = text, !.saved = text]
  /\ queue' = Tail(queue) /\ slot' = Running
  /\ UNCHANGED <<day, rows, page, visits, edits, silent>>

\* Mutant: a flush that lands is not reported to the JournalView.
reportedMountedOnly(op) ==
  slot.state = "ok" /\ op.live /\ ~op.left /\ editor.value = op.text

\* onSaved and onFlush: the success of a write is reported when it is still the
\* mounted editor's text, or the flush of a left editor.  Texts are present or absent
\* here: a write of another text that is present too is reported, where the code
\* says nothing and its day would be silent.
reported(op) ==
  slot.state = "ok" /\ op.live /\ (IF op.left THEN op.flush ELSE editor.value = op.text)

\* loadDates() again for the week in view
reloaded(q, report) == IF report THEN Append(superseded(q, {"list"}), listing(page)) ELSE q

\* A write settles: report it, then run what was asked for or left behind meanwhile.
SettleWrite ==
  /\ queue # <<>> /\ slot.state # "running" /\ Head(queue).kind = "write"
  /\ LET op == Head(queue)
         \* what the history goes by, whatever the screen is told
         told == /\ slot.state = "ok" /\ op.live
                 /\ IF op.left THEN op.flush ELSE editor.value = op.text
         rest == reloaded(Tail(queue), reported(op))
         clean == [editor EXCEPT !.inFlight = FALSE, !.pending = FALSE,
                     !.saved = IF slot.state = "ok" /\ editor.value = op.text THEN op.text ELSE @]
         again == editor.pending /\ clean.value # clean.saved
     IN  /\ page' = IF reported(op) THEN open(page.kind, page.of) ELSE page
         /\ silent' = IF slot.landed /\ ~told THEN silent \cup op.days ELSE silent
         /\ IF op.left
            THEN /\ queue' = IF op.then = {} THEN rest
                             ELSE Append(rest, [writing(op.days, TRUE \in op.then, TRUE) EXCEPT !.live = op.live])
                 /\ UNCHANGED editor
            ELSE /\ queue' = IF again THEN Append(rest, writing(op.days, editor.value, FALSE)) ELSE rest
                 /\ editor' = [clean EXCEPT !.inFlight = again]
  /\ slot' = Running
  /\ UNCHANGED <<day, rows, visits, edits>>

Next ==
  \/ Midnight \/ OpenToday \/ OpenArchive \/ OpenWeekly
  \/ \E t \in Targets : OpenJournal(t) \/ RedirectToToday(t)
  \/ TodayRenders \/ (\E delta \in {-1, 1} : TurnMonth(delta)) \/ WeeklyNotices
  \/ Type \/ Save
  \/ Execute \/ SettleList \/ SettleGet \/ SettleWrite

Spec == Init /\ [][Next]_vars

-----------------------------------------------------------------------------
(* Properties.                                                             *)

\* The civil-date helpers agree with counting the days one by one: day numbers,
\* week days, the Monday and the Sunday of a week, the months beside a month, and
\* which weeks and months lie outside the years 0000 to 9999.
CalendarAgrees == AgreesOn(day)

\* The days a screen is about, counted from the day it was made for.
about(e) ==
  LET t == page.of
  IN  CASE page.kind = "archive" -> e.date.year = t.date.year /\ e.date.month = t.date.month
        [] page.kind = "weekly"  -> e.number - (t.number - (t.weekday % 7)) \in -6 .. 0
        [] OTHER -> e.number - (t.number - (t.weekday - 1)) \in 0 .. 6

\* A screen never shows days of another week or month.  When storage has nothing
\* left to do, no screen is still loading, and one that shows its days shows
\* exactly those of its own week or month that have an entry - whatever was
\* navigated, written, flushed or answered late before - except days changed by a
\* write that no screen was told of.
PageShowsItsDates ==
  /\ page.phase = "ready" => \A e \in page.shown : about(e)
  /\ queue = <<>> =>
    /\ page.kind # "none" => page.phase # "loading"
    /\ page.phase = "ready" =>
         \A e \in Entries \ silent : e \in page.shown <=> e \in rows /\ about(e)
=============================================================================
