----------------------------- MODULE OperatorTab -----------------------------
(***************************************************************************)
(* One operator's tab (frontend App.tsx and its hooks): the board on its   *)
(* screen, which can be changed for another in place; the queue that sends *)
(* the tab's changes one at a time; the configuration panel and its staged *)
(* edits; and the recap that is raised by itself when a set ends.  Answers *)
(* come late: after the board was changed, after another controller scored,*)
(* after the operator typed on.                                            *)
(*                                                                         *)
(* What a controller sees of its points before they are acknowledged is in *)
(* RevisionProtocol, and the log on the screen in AuditFeed.               *)
(***************************************************************************)
EXTENDS Naturals, Sequences

CONSTANTS
  Boards,      \* the operator's boards
  LastSet,     \* sets of a match; every set is to two points
  Starts,      \* per board, the set its match is in at first
  MaxEvents,   \* bound on what happens to the tab
  None         \* null

Looks == [of : Boards, edited : BOOLEAN]
Panels == [model : Looks, dirty : BOOLEAN, saving : BOOLEAN]
Kinds == {"point", "show", "hide", "save", "sync"}
Hands == {"hand", "tab", "locale"}
Ops == [board : Boards, kind : Kinds, by : Hands, model : Looks \cup {None}]
Requests == [op : Ops, retry : BOOLEAN, rev : Nat \cup {None}]

ASSUME TabAssumption ==
  /\ LastSet \in Nat \ {0} /\ MaxEvents \in Nat
  /\ Starts \subseteq [Boards -> 0..LastSet - 1]
  /\ None \notin [of : Boards, sets : Nat, points : Nat]
  /\ None \notin Panels /\ None \notin Requests

VARIABLES
  match,     \* server, per board: the sets and points played
  recap,     \* server, per board: set_summary
  look,      \* server, per board: the customization, and whose it was
  rev,       \* server, per board: state_revision
  oid,       \* the board of the tab
  screen,    \* confirmedState and the state the next request is based on
  custom,    \* customization
  loading,   \* what initialize awaits: "session", "custom", "no" or "failed"
  queue,     \* mutationQueueRef
  running,   \* the request under way
  reads,     \* refreshCustomization calls under way, per board
  panel,     \* the configuration panel, or None
  enabled,   \* the operator wants recaps to be raised
  seen,      \* prevTotalSets and prevCurrentScore
  unseen,    \* a rendered state the recap's effect has not run for
  delay,     \* delayTimer: "off", or what it will announce: "set" or "match"
  dismiss,   \* dismissTimer is set
  events,    \* counts against MaxEvents
  past       \* history, see below

server == <<match, recap, look, rev>>
session == <<oid, screen, custom, loading>>
hook == <<enabled, seen, unseen, delay, dismiss>>
vars == <<server, session, queue, running, reads, panel, hook, events, past>>

Look(b, edited) == [of |-> b, edited |-> edited]

\* past is what the properties remember: what became of one of the operator's
\* edits, "none" before it is made; on which boards the tab's own recap is up; and
\* what went wrong on the way.

Happens == events < MaxEvents /\ events' = events + 1

-----------------------------------------------------------------------------
(* The server *)

Over(b) == match[b].sets = LastSet

\* A match that is over stays in its last set, with that set's score.
AfterPoint(b) ==
  LET m == match[b] IN
  IF m.points = 0 THEN [m EXCEPT !.points = 1]
  ELSE [sets |-> m.sets + 1, points |-> IF m.sets + 1 = LastSet THEN 2 ELSE 0]

AfterUndo(b) ==
  LET m == match[b] IN
  IF m.points = 1 THEN [m EXCEPT !.points = 0] ELSE [sets |-> m.sets - 1, points |-> 1]

State(b) == [of |-> b, sets |-> match[b].sets, points |-> match[b].points,
             over |-> Over(b), recap |-> recap[b], rev |-> rev[b]]

\* A request's effect on its board; the revision counts changes.
ScorePoint(b) ==
  /\ match' = [match EXCEPT ![b] = AfterPoint(b)]
  /\ rev' = [rev EXCEPT ![b] = @ + 1]
  /\ UNCHANGED <<recap, look>>

SetRecap(b, on) ==
  /\ recap' = [recap EXCEPT ![b] = on]
  /\ rev' = IF recap[b] = on THEN rev ELSE [rev EXCEPT ![b] = @ + 1]
  /\ UNCHANGED <<match, look>>

SaveLook(b, l) ==
  /\ look' = [look EXCEPT ![b] = l]
  /\ rev' = IF look[b] = l THEN rev ELSE [rev EXCEPT ![b] = @ + 1]
  /\ UNCHANGED <<match, recap>>

\* The locale is written, and may have been there already.
SaveLocale(b) ==
  /\ rev' \in {rev, [rev EXCEPT ![b] = @ + 1]}
  /\ UNCHANGED <<match, recap, look>>

\* Another controller of the board.
RivalScores(b) ==
  /\ Happens /\ ~Over(b) /\ ScorePoint(b)
  /\ UNCHANGED <<session, queue, running, reads, panel, hook, past>>

RivalUndoes(b) ==
  /\ Happens /\ (match[b].points > 0 \/ match[b].sets > 0)
  /\ match' = [match EXCEPT ![b] = AfterUndo(b)]
  /\ rev' = [rev EXCEPT ![b] = @ + 1]
  /\ UNCHANGED <<recap, look, session, queue, running, reads, panel, hook, past>>

-----------------------------------------------------------------------------
(* States on the screen *)

\* applyState, for an authoritative state: an older one is ignored.
Apply(state) ==
  IF screen # None /\ state.rev < screen.rev
  THEN UNCHANGED <<screen, unseen>>
  ELSE screen' = state /\ unseen' = TRUE

\* setCustomization: the panel's effect takes the new one for its model.
SetCustomization(l) ==
  /\ custom' = l
  /\ panel' = IF panel = None THEN None ELSE [panel EXCEPT !.model = l, !.dirty = FALSE]

\* initialize, in two steps: the session's state, then its customization.
SessionReady ==
  /\ loading = "session" /\ loading' = "custom"
  /\ Apply(State(oid))
  /\ UNCHANGED <<server, oid, custom, queue, running, reads, panel,
                 enabled, seen, delay, dismiss, events, past>>

CustomReady ==
  /\ loading = "custom" /\ loading' = "no"
  /\ SetCustomization(look[oid])
  /\ UNCHANGED <<server, oid, screen, queue, running, reads, hook, events, past>>

LoadFails ==
  /\ Happens /\ loading \in {"session", "custom"} /\ loading' = "failed"
  /\ UNCHANGED <<server, oid, screen, custom, queue, running, reads, panel, hook, past>>

\* A push, or the state the hub sends when the socket is opened again.  The states
\* the screen skips were lost with a socket or not rendered by React.
Push ==
  /\ loading = "no" /\ screen.rev < rev[oid]
  /\ Apply(State(oid))
  /\ UNCHANGED <<server, oid, custom, loading, queue, running, reads, panel,
                 enabled, seen, delay, dismiss, events, past>>

-----------------------------------------------------------------------------
(* The queue *)

Op(b, kind, by, model) == [board |-> b, kind |-> kind, by |-> by, model |-> model]
Request(kind, by) == Op(oid, kind, by, None)

\* handleAction: the board is the one the operator is looking at.
Enqueue(op) == queue' = Append(queue, op)

Point ==
  /\ Happens /\ screen # None /\ ~screen.over
  /\ Enqueue(Request("point", "hand"))
  /\ UNCHANGED <<server, session, running, reads, panel, hook, past>>

ToggleRecap ==
  /\ Happens /\ screen # None
  /\ Enqueue(Request(IF screen.recap THEN "hide" ELSE "show", "hand"))
  /\ UNCHANGED <<server, session, running, reads, panel, hook, past>>

\* A save that ends without success leaves its error in the panel.
SaveEnds(op) ==
  panel' = IF op.kind = "save" /\ op.board = oid /\ panel # None
           THEN [panel EXCEPT !.saving = FALSE]
           ELSE panel

\* drainMutationQueue takes the next one; it is not sent for a board that is no
\* longer on the screen, and is sent with the revision the screen now shows.
Send ==
  LET op == Head(queue) IN
  /\ running = None /\ queue # <<>> /\ queue' = Tail(queue)
  /\ IF op.board = oid
     THEN /\ running' = [op |-> op, retry |-> op.kind = "sync",
                         rev |-> IF screen = None THEN None ELSE screen.rev]
          /\ UNCHANGED panel
     ELSE running' = None /\ SaveEnds(op)
  /\ UNCHANGED <<server, session, reads, hook, events, past>>

Conflict == running.rev # None /\ running.rev # rev[running.op.board]

\* What the server does with a request it takes.
Serve(op) ==
  CASE op.kind = "point" -> IF Over(op.board) THEN UNCHANGED server ELSE ScorePoint(op.board)
    [] op.kind = "show"  -> SetRecap(op.board, TRUE)
    [] op.kind = "hide"  -> SetRecap(op.board, FALSE)
    [] op.kind = "save"  -> SaveLook(op.board, op.model)
    [] op.kind = "sync"  -> SaveLocale(op.board)

TabRaises(op) == op.kind = "show" /\ op.by = "tab"
Remember(op) ==
  past' = CASE op.kind \in {"show", "hide"} ->
                 [past EXCEPT !.raised[op.board] = TabRaises(op)]
            [] op.kind = "save" -> [past EXCEPT !.edit = IF op.model.edited THEN "saved" ELSE @]
            [] OTHER -> past

\* Success: the answer is applied if its board is still on the screen; a saved
\* panel is clean again; a save and a locale are read back, whatever the screen.
\* Mutant: every answer is applied.
AcceptedAnywhere(op) ==
  /\ Serve(op) /\ Remember(op)
  /\ running' = None
  /\ screen' = State(op.board)' /\ unseen' = TRUE
  /\ panel' = IF op.kind = "save" /\ op.board = oid /\ panel # None
              THEN [panel EXCEPT !.dirty = FALSE] ELSE panel
  /\ reads' = IF op.kind \in {"save", "sync"} THEN [reads EXCEPT ![op.board] = @ + 1] ELSE reads
  /\ UNCHANGED queue

Accepted(op) ==
  /\ Serve(op) /\ Remember(op)
  /\ running' = None
  /\ IF op.board = oid THEN Apply(State(op.board)') ELSE UNCHANGED <<screen, unseen>>
  /\ panel' = IF op.kind = "save" /\ op.board = oid /\ panel # None
              THEN [panel EXCEPT !.dirty = FALSE] ELSE panel
  /\ reads' = IF op.kind \in {"save", "sync"} THEN [reads EXCEPT ![op.board] = @ + 1] ELSE reads
  /\ UNCHANGED queue

\* 409: the latest state is loaded; only a locale is sent once more.
Refused(op) ==
  /\ IF op.board = oid
     THEN /\ Apply(State(oid))
          /\ running' = IF running.retry THEN [running EXCEPT !.retry = FALSE, !.rev = rev[oid]]
                                         ELSE None
     ELSE UNCHANGED <<screen, unseen>> /\ running' = None
  /\ SaveEnds(op)
  /\ past' = [past EXCEPT !.abandoned = @ \/ op.by = "tab"]
  /\ UNCHANGED <<server, reads, queue>>

Answer ==
  /\ running # None
  /\ \E op \in {running.op} : IF Conflict THEN Refused(op) ELSE Accepted(op)
  /\ UNCHANGED <<oid, custom, loading, enabled, seen, delay, dismiss, events>>

\* A request that does not arrive: a banner, and nothing else.
Lost ==
  /\ Happens /\ running # None /\ running' = None
  /\ SaveEnds(running.op)
  /\ past' = [past EXCEPT !.abandoned = @ \/ running.op.by = "tab"]
  /\ UNCHANGED <<server, session, queue, reads, hook>>

-----------------------------------------------------------------------------
(* The configuration panel *)

OpenPanel ==
  /\ Happens /\ panel = None /\ screen # None
  /\ panel' = [model |-> IF custom = None THEN Look(oid, FALSE) ELSE custom,
               dirty |-> FALSE, saving |-> FALSE]
  /\ UNCHANGED <<server, session, queue, running, reads, hook, past>>

\* An answer is on its way that will replace the panel's model or mark it clean.
Writes == {"save", "sync"}
Traffic ==
  \/ \E b \in Boards : reads[b] > 0
  \/ \E i \in DOMAIN queue : queue[i].kind \in Writes
  \/ running # None /\ running.op.kind \in Writes
  \/ loading # "no"

\* The properties follow one edit, whichever the operator makes.
Edit ==
  /\ Happens /\ panel # None
  /\ \/ /\ past.edit = "none"
        /\ past' = [past EXCEPT !.edit = IF Traffic THEN "raced" ELSE "typed"]
        /\ panel' = [panel EXCEPT !.model.edited = TRUE, !.dirty = TRUE]
     \/ panel' = [panel EXCEPT !.dirty = TRUE] /\ UNCHANGED past
  /\ UNCHANGED <<server, session, queue, running, reads, hook>>

Save ==
  /\ panel # None /\ panel.dirty /\ ~panel.saving
  /\ Enqueue(Op(oid, "save", "hand", panel.model))
  /\ panel' = [panel EXCEPT !.saving = TRUE]
  /\ UNCHANGED <<server, session, running, reads, hook, events, past>>

\* useUnsavedChangesGuard: whatever leaves a dirty panel asks first; agreeing
\* gives the edits up.
GivesUp == panel # None /\ panel.dirty /\ panel.model.edited

\* Mutant: a panel whose save is under way is left without a question.
LeavingUnlessSaving ==
  past' = [past EXCEPT !.edit = IF GivesUp /\ ~panel.saving THEN "dropped" ELSE @]

Leaving == past' = [past EXCEPT !.edit = IF GivesUp THEN "dropped" ELSE @]

ClosePanel ==
  /\ panel # None /\ Leaving /\ panel' = None
  /\ UNCHANGED <<server, session, queue, running, reads, hook, events>>

\* The answer to refreshCustomization: nobody asks which board is on the screen.
ReadBack(b) ==
  /\ reads[b] > 0 /\ reads' = [reads EXCEPT ![b] = @ - 1]
  /\ custom' = look[b]
  /\ panel' = IF panel = None THEN None
              ELSE [panel EXCEPT !.model = look[b], !.dirty = FALSE,
                                 !.saving = @ /\ b # oid]
  /\ past' = [past EXCEPT !.strayed = @ \/ b # oid]
  /\ UNCHANGED <<server, oid, screen, loading, queue, running, hook, events>>

ReadBackFails(b) ==
  /\ Happens /\ reads[b] > 0 /\ reads' = [reads EXCEPT ![b] = @ - 1]
  /\ panel' = IF panel = None THEN None ELSE [panel EXCEPT !.saving = @ /\ b # oid]
  /\ UNCHANGED <<server, session, queue, running, hook, past>>

\* The recap that the tab raised, or is raising, on the board that is left.
RecapLeft ==
  \/ past.raised[oid] \/ (running # None /\ TabRaises(running.op))
  \/ \E i \in DOMAIN queue : TabRaises(queue[i])

\* Another board in place, from the panel's list or after a failed load.  The
\* tab is not mounted again: the recap's timers and baseline stay.
Switch(b) ==
  /\ Happens /\ b # oid
  /\ panel # None \/ loading = "failed"
  /\ past' = [past EXCEPT !.edit = IF GivesUp THEN "dropped" ELSE @,
                          !.carried = delay # "off", !.abandoned = @ \/ RecapLeft]
  /\ oid' = b
  /\ screen' = None /\ custom' = None /\ panel' = None
  /\ loading' = "session" /\ unseen' = FALSE
  /\ Enqueue(Op(b, "sync", "locale", None))
  /\ UNCHANGED <<server, running, reads, enabled, seen, delay, dismiss>>

-----------------------------------------------------------------------------
(* useAutoSetSummary, with both of its times set *)

Quiet == delay' = "off" /\ dismiss' = FALSE
Keep == UNCHANGED <<delay, dismiss, queue>>

\* The sets went back: nothing pending, and no recap.
SetUndone == Quiet /\ Enqueue(Request("hide", "tab"))

SetWon ==
  /\ delay' = (IF screen.over THEN "match" ELSE "set")
  /\ dismiss' = FALSE
  /\ UNCHANGED queue

\* Mutant: a point hides the recap and leaves a pending one alone.
PlayResumedShown ==
  IF dismiss THEN dismiss' = FALSE /\ Enqueue(Request("hide", "tab")) /\ UNCHANGED delay
  ELSE Keep

\* Mutant: a point suppresses a pending recap and leaves a visible one to its time.
PlayResumedPending ==
  IF delay # "off" THEN delay' = "off" /\ UNCHANGED <<dismiss, queue>> ELSE Keep

PlayResumed ==
  IF delay # "off" THEN delay' = "off" /\ UNCHANGED <<dismiss, queue>>
  ELSE IF dismiss THEN dismiss' = FALSE /\ Enqueue(Request("hide", "tab")) /\ UNCHANGED delay
  ELSE Keep

SeenNow == [of |-> screen.of, sets |-> screen.sets, points |-> screen.points]

RunEffect ==
  /\ unseen /\ unseen' = FALSE
  /\ seen' = SeenNow
  /\ CASE ~enabled -> Quiet /\ UNCHANGED queue
       [] enabled /\ seen = None -> Keep
       [] enabled /\ seen # None /\ screen.sets < seen.sets -> SetUndone
       [] enabled /\ seen # None /\ screen.sets > seen.sets -> SetWon
       [] enabled /\ seen # None /\ screen.sets = seen.sets ->
            IF screen.points > seen.points THEN PlayResumed ELSE Keep
  /\ past' = IF seen = None THEN past
             ELSE [past EXCEPT
               !.carried = @ \/ (seen.of # screen.of /\ screen.sets > seen.sets),
               !.merged = @ \/ (screen.sets > seen.sets /\ screen.points = 1),
               !.abandoned = @ \/ (screen.sets > seen.sets /\ dismiss)]
  /\ UNCHANGED <<server, session, running, reads, panel, enabled, events>>

\* The recap is posted for the board that is on the screen by then.
DelayEnds ==
  /\ delay # "off"
  /\ Enqueue(Request("show", "tab"))
  /\ delay' = "off" /\ dismiss' = (delay = "set")
  /\ UNCHANGED <<server, session, running, reads, panel, enabled, seen, unseen, events, past>>

TimeToHide ==
  /\ dismiss /\ dismiss' = FALSE
  /\ Enqueue(Request("hide", "tab"))
  /\ UNCHANGED <<server, session, running, reads, panel, enabled, seen, unseen, delay, events, past>>

ToggleAuto ==
  /\ Happens /\ enabled' = ~enabled /\ unseen' = (screen # None)
  /\ past' = [past EXCEPT !.abandoned = @ \/ enabled]
  /\ UNCHANGED <<server, session, queue, running, reads, panel, seen, delay, dismiss>>

-----------------------------------------------------------------------------
Init ==
  /\ \E start \in Starts :
       match = [b \in Boards |-> [sets |-> start[b], points |-> 1]]
  /\ recap = [b \in Boards |-> FALSE]
  /\ look = [b \in Boards |-> Look(b, FALSE)]
  /\ rev = [b \in Boards |-> 0]
  /\ oid \in Boards
  /\ screen = None /\ custom = None /\ loading = "session"
  /\ queue = <<Op(oid, "sync", "locale", None)>> /\ running = None
  /\ reads = [b \in Boards |-> 0]
  /\ panel = None
  /\ enabled = TRUE /\ seen = None /\ unseen = FALSE /\ delay = "off" /\ dismiss = FALSE
  /\ events = 0
  /\ past = [edit |-> "none", raised |-> [b \in Boards |-> FALSE],
             strayed |-> FALSE, carried |-> FALSE, merged |-> FALSE, abandoned |-> FALSE]

Next ==
  \/ \E b \in Boards :
       RivalScores(b) \/ RivalUndoes(b) \/ Switch(b) \/ ReadBack(b) \/ ReadBackFails(b)
  \/ SessionReady \/ CustomReady \/ LoadFails \/ Push
  \/ Point \/ ToggleRecap \/ Send \/ Answer \/ Lost
  \/ OpenPanel \/ Edit \/ Save \/ ClosePanel
  \/ RunEffect \/ DelayEnds \/ TimeToHide \/ ToggleAuto

Spec == Init /\ [][Next]_vars

-----------------------------------------------------------------------------
\* The score and the look on the screen are the chosen board's, unless a look was
\* being read back for another board when the operator changed to this one.
ScreenIsOfTheBoard ==
  /\ screen # None => screen.of = oid
  /\ custom # None /\ ~past.strayed => custom.of = oid

\* The tab raises a recap between two sets or after the match, as far as it has
\* seen, and for the board the set was won on: unless the end of the set and a
\* point of the next came in one rendering, or the recap, or the count of sets it
\* is decided by, was carried over from another board.
RaisesNow == Len(queue') > Len(queue) /\ queue'[Len(queue')] = Request("show", "tab")
RecapsAreBetweenSets ==
  [][RaisesNow /\ ~past.merged /\ ~past.carried
       => /\ seen.of = oid /\ seen.sets > 0
          /\ seen.points = 0 \/ seen.sets = LastSet]_vars

\* When nothing is pending a recap that the tab raised is not up over a set in
\* play, unless one of the tab's own requests was refused or lost, or the operator
\* told the tab to leave recaps alone or left the board of a recap, or a whole set
\* went by under one, or a recap came late for the first of the reasons above.
AtRest ==
  /\ queue = <<>> /\ running = None /\ loading = "no" /\ ~unseen
  /\ screen # None /\ screen.rev = rev[oid]
RecapYieldsToPlay ==
  AtRest /\ ~past.abandoned /\ ~past.merged
    => ~(recap[oid] /\ past.raised[oid] /\ match[oid].points = 1)

\* An edit that was typed while no answer was on its way stays in the panel, marked
\* as not saved, until the server has it or the operator gives it up: no request
\* that fails or is refused, and no other answer, takes it away.
EditsAreNotLost ==
  past.edit = "typed" => panel # None /\ panel.dirty /\ panel.model.edited
=============================================================================
