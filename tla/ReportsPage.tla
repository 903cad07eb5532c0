---------------------------- MODULE ReportsPage ----------------------------
(***************************************************************************)
(* The list of archived matches (frontend pages/ReportsPage.tsx): filters, *)
(* sorting and pages are the server's, so that every control begins a      *)
(* request and any of them may answer late; rows stay selected from page   *)
(* to page; a deletion goes out in chunks, and goes on while the operator  *)
(* turns to something else.                                                *)
(***************************************************************************)
EXTENDS Naturals, SequencesExt

CONSTANTS
  Boards,       \* the operator's overlays
  Modes, Days,  \* what a list can be filtered by
  Matches,      \* archived matches, numbered as they ended
  Info,         \* of each, its board, mode, day and length
  Linked,       \* ?oid= of the address
  PageSize,     \* PAGE_SIZE
  Chunk,        \* BULK_DELETE_CHUNK
  MaxEvents,    \* bound on what the operator does
  MaxFailures,  \* bound on requests that fail
  None          \* null, and no filter

ReportsAssumption ==
  /\ Matches \subseteq Nat
  /\ Info \in [Matches -> [board : Boards, mode : Modes, day : Days, length : Nat]]
  /\ PageSize \in Nat \ {0} /\ Chunk \in Nat \ {0} /\ MaxEvents \in Nat /\ MaxFailures \in Nat
  /\ None \notin Boards \cup Modes \cup Days

VARIABLES
  archive,   \* server: the matches that are kept
  overlays,  \* whether the boards are "loading", "ready" or "failed"
  ctl,       \* oid, modeFilter, day, sortKey, sortDir, page
  rows,      \* matches
  total,
  days,      \* matchDays
  selected,  \* sel
  loading,
  failed,    \* error
  lists,     \* listReports requests that somebody waits for
  dayLists,  \* listReportDays requests
  job,       \* the deletion: asked for, sent, or refreshing what it changed
  events, failures,
  past       \* history, see below

controls == <<ctl, selected>>
table == <<rows, total, loading, failed>>
vars == <<archive, overlays, controls, table, days, lists, dayLists, job, events, failures, past>>

\* past.strayed: rows were selected that are not of the scope chosen, as a failed
\* request leaves the rows before it on the screen.  past.skipped: a deletion ended
\* after the controls had been changed, and nothing has been read since.

NoJob == [stage |-> "none"]
DaysScope(c) == <<c.oid, c.mode>>

-----------------------------------------------------------------------------
(* What the server answers *)

Passes(filter, mark) == filter = None \/ filter = mark

InScope(c) ==
  {m \in Matches : /\ Info[m].board = c.oid
                   /\ Passes(c.mode, Info[m].mode) /\ Passes(c.day, Info[m].day)}

Key(m, key) == IF key = "ended" THEN m ELSE Info[m].length

Sorted(s, c) ==
  LET under(m, n) == Key(m, c.key) < Key(n, c.key) \/ (Key(m, c.key) = Key(n, c.key) /\ m < n)
  IN  SetToSortSeq(s, LAMBDA m, n : IF c.dir = "asc" THEN under(m, n) ELSE under(n, m))

Lesser(i, j) == IF i < j THEN i ELSE j

Listing(c) ==
  LET all == Sorted(archive \cap InScope(c), c) IN
  [rows  |-> SubSeq(all, c.page * PageSize + 1, Lesser((c.page + 1) * PageSize, Len(all))),
   total |-> Len(all)]

DaysOf(c) == {Info[m].day : m \in archive \cap InScope([c EXCEPT !.day = None])}

Request(c, mine) == [ctl |-> c, newest |-> TRUE, mine |-> mine, answer |-> None]
Supersede(requests) == {[r EXCEPT !.newest = FALSE] : r \in requests}

-----------------------------------------------------------------------------
(* Loads.  A new one makes those before it superseded; mine is one that the *)
(* deletion waits for.  A superseded request for the days that nobody waits  *)
(* for changes nothing, and is forgotten.                                   *)

Load(c, mine) ==
  IF c.oid = None
  THEN lists' = Supersede(lists) /\ rows' = <<>> /\ total' = 0 /\ UNCHANGED <<loading, failed>>
  ELSE /\ lists' = Supersede(lists) \cup {Request(c, mine)}
       /\ loading' = TRUE /\ failed' = FALSE
       /\ UNCHANGED <<rows, total>>

LoadDays(c, mine) ==
  IF c.oid = None
  THEN dayLists' = {r \in Supersede(dayLists) : r.mine} /\ days' = {}
  ELSE /\ dayLists' = {r \in Supersede(dayLists) : r.mine} \cup {Request(c, mine)}
       /\ UNCHANGED days

\* The controls become c; what depends on them is loaded.
Turn(c) ==
  /\ ctl' = c
  /\ IF c = ctl THEN UNCHANGED <<table, lists>> ELSE Load(c, FALSE)
  /\ IF DaysScope(c) = DaysScope(ctl) THEN UNCHANGED <<days, dayLists>> ELSE LoadDays(c, FALSE)
  /\ past' = [past EXCEPT !.skipped = @ /\ c = ctl]

LandsAnyway(r) == TRUE   \* Mutant: a slower earlier response repopulates the table

Lands(r) == r.newest

Mine(r) == r.mine /\ job.stage = "reloading"

\* What a deletion does when the list is there: the days, if they are still asked for.
GoOn(c) ==
  IF DaysScope(c) = DaysScope(job.ctl)
  THEN job' = [job EXCEPT !.stage = "days"] /\ LoadDays(c, TRUE)
  ELSE job' = NoJob /\ UNCHANGED <<days, dayLists>>

Continue(r, c) == IF Mine(r) THEN GoOn(c) ELSE UNCHANGED <<job, days, dayLists>>

LastPage(n) == IF n = 0 THEN 0 ELSE (n - 1) \div PageSize

\* A page that is no longer there is left for the last one, which is loaded.
Land(r) ==
  /\ r.answer # None
  /\ IF ~Lands(r)
     THEN /\ lists' = lists \ {r}
          /\ UNCHANGED <<ctl, table, past>> /\ Continue(r, ctl)
     ELSE LET last == LastPage(r.answer.total)
              c == [ctl EXCEPT !.page = IF @ > last THEN last ELSE @] IN
          /\ rows' = r.answer.rows /\ total' = r.answer.total
          /\ ctl' = c
          /\ IF c = ctl THEN loading' = FALSE /\ lists' = lists \ {r}
                        ELSE loading' = TRUE /\ lists' = Supersede(lists \ {r}) \cup {Request(c, FALSE)}
          /\ failed' = (failed /\ c = ctl)
          /\ past' = [past EXCEPT !.skipped = @ /\ c = ctl]
          /\ Continue(r, c)
  /\ UNCHANGED <<archive, overlays, selected, events, failures>>

Fail(r) ==
  /\ failures < MaxFailures /\ failures' = failures + 1
  /\ lists' = lists \ {r}
  /\ IF Lands(r) THEN failed' = TRUE /\ loading' = FALSE ELSE UNCHANGED <<failed, loading>>
  /\ Continue(r, ctl)
  /\ UNCHANGED <<archive, overlays, controls, rows, total, events, past>>

Answer(r) ==
  /\ r.answer = None
  /\ lists' = (lists \ {r}) \cup {[r EXCEPT !.answer = Listing(r.ctl)]}
  /\ UNCHANGED <<archive, overlays, controls, table, days, dayLists, job, events, failures, past>>

\* The days were the last thing a deletion does.
EndDays(r, found) ==
  /\ dayLists' = dayLists \ {r}
  /\ days' = IF r.newest THEN found ELSE days
  /\ job' = IF r.mine /\ job.stage = "days" THEN NoJob ELSE job
  /\ UNCHANGED <<archive, overlays, controls, table, lists, events, past>>

LandDays(r) == EndDays(r, DaysOf(r.ctl)) /\ UNCHANGED failures
FailDays(r) == failures < MaxFailures /\ failures' = failures + 1 /\ EndDays(r, {})

\* The first request of the page: its boards, one of which is chosen.
OverlaysReady ==
  /\ overlays = "loading" /\ overlays' = "ready"
  /\ \E b \in Boards : /\ Linked \in Boards => b = Linked
                       /\ Turn([ctl EXCEPT !.oid = b])
  /\ UNCHANGED <<archive, selected, job, events, failures>>

OverlaysFail ==
  /\ overlays = "loading" /\ overlays' = "failed"
  /\ failures < MaxFailures /\ failures' = failures + 1
  /\ failed' = TRUE
  /\ UNCHANGED <<archive, controls, rows, total, loading, days, lists, dayLists, job, events, past>>

-----------------------------------------------------------------------------
(* The operator.  A question that is open covers the page; the table is not *)
(* there while it loads.                                                    *)

Acts ==
  /\ overlays = "ready" /\ job.stage # "asking"
  /\ events < MaxEvents /\ events' = events + 1
  /\ UNCHANGED <<archive, overlays, failures>>

Filtered == ctl.mode # None \/ ctl.day # None
FiltersShown == ~loading /\ (total > 0 \/ Filtered)
TableShown == FiltersShown /\ rows # <<>>

Choose(c) == Acts /\ c # ctl /\ Turn(c) /\ selected' = {} /\ UNCHANGED job

ChooseBoard == \E b \in Boards : Choose([ctl EXCEPT !.oid = b, !.day = None, !.mode = None, !.page = 0])

ChooseMode ==
  /\ FiltersShown
  /\ \E m \in Modes \cup {None} : Choose([ctl EXCEPT !.mode = m, !.day = None, !.page = 0])

\* The calendar offers the days that have matches, and to show all of them again.
ChooseDay ==
  /\ FiltersShown
  /\ \E d \in days \cup {None} : Choose([ctl EXCEPT !.day = d, !.page = 0])

Opposite(dir) == IF dir = "asc" THEN "desc" ELSE "asc"

ToggleSort ==
  /\ TableShown
  /\ \E k \in {"ended", "duration"} :
       Choose([ctl EXCEPT !.page = 0, !.key = k,
                          !.dir = IF k = ctl.key THEN Opposite(@) ELSE "desc"])

\* Turning the page keeps what is selected.
TurnPage ==
  /\ FiltersShown /\ Acts
  /\ \E p \in {ctl.page - 1, ctl.page + 1} \cap (0..LastPage(total)) : Turn([ctl EXCEPT !.page = p])
  /\ UNCHANGED <<selected, job>>

Strayed(s) == past' = [past EXCEPT !.strayed = @ \/ ~(s \subseteq selected \cup InScope(ctl))]

SelectsTo(s) ==
  /\ TableShown /\ Acts /\ selected' = s /\ Strayed(s)
  /\ UNCHANGED <<ctl, table, days, lists, dayLists, job>>

Toggle == \E m \in Range(rows) :
  SelectsTo(IF m \in selected THEN selected \ {m} ELSE selected \cup {m})

TogglePage ==
  SelectsTo(IF Range(rows) \subseteq selected THEN selected \ Range(rows) ELSE selected \cup Range(rows))

\* deleteIds keeps the controls of the render in which the question was asked.
Ask(ids) ==
  /\ FiltersShown /\ job = NoJob /\ Acts
  /\ ids # {}
  /\ job' = [stage |-> "asking", ids |-> ids, todo |-> ids, sent |-> {}, ctl |-> ctl]
  /\ Strayed(ids)
  /\ UNCHANGED <<controls, table, days, lists, dayLists>>

AskSelected == Ask(selected)
AskOne == TableShown /\ \E m \in Range(rows) : Ask({m})

-----------------------------------------------------------------------------
(* A deletion *)

\* The next chunk is under way; without one the list is refreshed.
Chunks(todo) == IF Cardinality(todo) <= Chunk THEN {todo} ELSE kSubset(Chunk, todo)

Confirm ==
  /\ job.stage = "asking"
  /\ \E c \in Chunks(job.ids) : job' = [job EXCEPT !.stage = "sent", !.sent = c, !.todo = @ \ c]
  /\ UNCHANGED <<archive, overlays, controls, table, days, lists, dayLists, events, failures, past>>

Cancel ==
  /\ job.stage = "asking" /\ job' = NoJob
  /\ UNCHANGED <<archive, overlays, controls, table, days, lists, dayLists, events, failures, past>>

Delete ==
  /\ job.stage = "sent" /\ job' = [job EXCEPT !.stage = "answered"]
  /\ archive' = archive \ job.sent
  /\ UNCHANGED <<overlays, controls, table, days, lists, dayLists, events, failures, past>>

NextChunk ==
  /\ job.stage = "answered" /\ job.todo # {}
  /\ \E c \in Chunks(job.todo) : job' = [job EXCEPT !.stage = "sent", !.sent = c, !.todo = @ \ c]
  /\ UNCHANGED <<archive, overlays, controls, table, days, lists, dayLists, events, failures, past>>

\* refreshStillActiveScopes.  The list that is asked for is that of the controls as
\* they were, so it is asked for only if they are; from another page one goes to the
\* first, which loads it without being waited for.
Refresh ==
  /\ selected' = {}
  /\ IF ctl # job.ctl
     THEN GoOn(ctl) /\ past' = [past EXCEPT !.skipped = TRUE] /\ UNCHANGED <<ctl, table, lists>>
     ELSE IF ctl.page # 0
     THEN LET c == [ctl EXCEPT !.page = 0] IN ctl' = c /\ Load(c, FALSE) /\ GoOn(c) /\ UNCHANGED past
     ELSE /\ Load(ctl, TRUE) /\ job' = [job EXCEPT !.stage = "reloading"]
          /\ UNCHANGED <<ctl, days, dayLists, past>>
  /\ UNCHANGED <<archive, overlays, events>>

Deleted == job.stage = "answered" /\ job.todo = {} /\ Refresh /\ UNCHANGED failures

\* A chunk is refused, or its answer is lost; those before it are deleted.
DeleteFails ==
  /\ failures < MaxFailures /\ failures' = failures + 1
  /\ job.stage \in {"sent", "answered"} /\ Refresh

-----------------------------------------------------------------------------
Init ==
  /\ archive = Matches /\ overlays = "loading"
  /\ ctl = [oid |-> None, mode |-> None, day |-> None, key |-> "ended", dir |-> "desc", page |-> 0]
  /\ rows = <<>> /\ total = 0 /\ loading = FALSE /\ failed = FALSE
  /\ days = {} /\ selected = {} /\ lists = {} /\ dayLists = {} /\ job = NoJob
  /\ events = 0 /\ failures = 0
  /\ past = [strayed |-> FALSE, skipped |-> FALSE]

Network ==
  \/ OverlaysReady \/ OverlaysFail
  \/ \E r \in lists : Answer(r) \/ Land(r) \/ Fail(r)
  \/ \E r \in dayLists : LandDays(r) \/ FailDays(r)
  \/ Delete \/ NextChunk \/ Deleted \/ DeleteFails

Operator ==
  \/ ChooseBoard \/ ChooseMode \/ ChooseDay \/ ToggleSort \/ TurnPage
  \/ Toggle \/ TogglePage \/ AskSelected \/ AskOne \/ Confirm \/ Cancel

Next == Network \/ Operator
Spec == Init /\ [][Next]_vars

-----------------------------------------------------------------------------
(* Properties *)

Newest == {r \in lists : r.newest}

\* The spinner turns exactly while the newest request is out; with nothing under way
\* and no error, the table is what the server has for the controls as they stand,
\* whatever was superseded, deleted or refused before.  One case is left out by name:
\* a deletion that ends after the controls were changed refreshes nothing.
ReportsAgree ==
  /\ loading <=> Newest # {}
  /\ overlays = "ready" /\ ~loading /\ ~failed /\ job = NoJob /\ ~past.skipped =>
       [rows |-> rows, total |-> total] = Listing(ctl)

\* What is selected, and so what a bulk deletion takes, is of the board, type and day
\* the operator has chosen, on whichever page it was selected.
SelectionInScope ==
  ~past.strayed => /\ selected \subseteq InScope(ctl)
                   /\ job # NoJob => job.ids \subseteq InScope(job.ctl)

=============================================================================
