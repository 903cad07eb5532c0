# volley-overlay-control: specifications

TLA+ models, model-checking runs and proofs for the volleyball scoreboard
control server and its browser clients.  The code is the reference: every
definition says in `PROJECT.json` ("map") which lines it stands for, and what
the models leave out is said below.

Run a check with `tlc -config obs.cfg ObsBroadcast`, the proofs with
`tlapm ScoreboardProofs.tla` (and RevisionProofs, ExecutorProofs, ObsProofs,
LifecycleProofs, TabProofs, ListProofs, PagesProofs).

## 1. The system

One Python process (FastAPI) serves many *boards*, each keyed by a storage key
`<user_id>:<oid>`.  Operators score in browser tabs (React); spectators and OBS
browser sources show an overlay page.  Request handlers run in worker threads or
on the event loop; everything of one board that a client can change is
serialised by one `asyncio.Lock` per session, and most of what can go wrong
happens around that lock: before it is taken, after it is released, in another
thread, in another process after a restart, or in a browser.  A browser does not
run two handlers at once either; there it is answers, pushes, timers and animations
that end in an order nobody chose.

| Part | Keeps | Operations | Meets | Hard because |
|---|---|---|---|---|
| Scoring session (`game_manager.py`, `state.py`, `api/game_actions.py`) | board, rules, current set, start and end stamps | add point / set / timeout, serve, undo, edits, rules, start, reset, init | the log, the save | long legal sequences; two undo paths; derived fields recomputed by each handler for itself |
| Audit log (`api/action_log.py`, `game_rapid_pair.py`, `game_audit_hooks.py`) | JSONL files per board, rotated; tombstones; a cached count of undoable forwards; a cache of the last tap per team | append, pop, tombstone, restore, rotate, clear | session, live statistics, audit feed | writes that fail, rotation, undo records that hide records |
| Revision protocol (`api/dependencies.py`, `game_state_presenter.py`, `game_broadcast.py`, `session_manager.py`) | revision and fingerprint, in memory and in the session meta | accept or refuse a mutation, present, save, restore, expire | operator screens, files | restart between any two writes, retries of lost responses |
| Operator screen (`frontend/src/hooks/useGameState.ts`) | shown and confirmed state, queue of actions, socket | tap, predict, roll back, refetch, reconnect | REST, control hub | responses and pushes race |
| Operator tab (`App.tsx`, `useGameState.ts`, `useAutoSetSummary.ts`, `useConfigModel.ts`, `ConfigPanel.tsx`) | the board on the screen, its customization, staged edits, two timers of the recap | load, switch boards, queue requests, edit and save, raise and dismiss the recap | REST, control hub, other controllers | everything it awaits may answer for another board |
| Operator board (`TeamPanel.tsx`, `PointsHistoryStrip.tsx`, `useRecentEvents.ts`, ...) | nothing but a cache of set scores | show scores, alert, strip | screen, feed | figures derived a second time, from the log |
| Board controls (`useDoubleTap.ts`, `useScoreActions.ts`, `useSetValueDialog.ts`, `useKeyboardShortcuts.ts`, `PointTypePicker.tsx`) | two timers per button, the dialog that is open | tap, double tap, long press, key, dialog | operator screen | timers, presses and pushes in any order |
| Board chrome (`useHudVisibility.ts`, `useIndoorMidpointAlert.ts`, `ConnectionStatus.tsx`, `useConfigOptions.ts`) | bar shown or hidden, an alert, the group of the settings | show, hide, alert, pick | screen, team groups | effects that run a render later than what they are about |
| Control hub (`api/ws_hub.py`, `routes/websocket.py`) | sockets per board, presence, last seen | connect, broadcast, heartbeat, sweep, evict | screens | sends that time out, sweeps after an await |
| Overlay executor (`overlay_executor.py`) | queues per board, ready and busy boards, permits | submit, run, barrier, shutdown | saves, deletions | locks, condition, semaphore |
| Overlay lifecycle (`overlay_lifecycle.py`, `api/routes/overlays.py`, `session.py`, `admin_users.py`) | claims per board, rows, session registry, files | create, open, use, delete, delete the account | all of the above | five kinds of thread, four kinds of lock, transactions that roll back |
| OBS broadcast (`overlay/broadcast.py`, `state_store.py`, `routes.py`, `overlay_static/js/app.js`) | overlay state in memory and on disk, sources, one broadcast task per board | change, persist, debounce, push, connect | executor, pages | cancelling, snapshots and pushes that overtake each other |
| Overlay page (`overlay_static/js/app.js`) | the last push, what is on the screen, animations under way | difference, full render, flip, fade, recap, alerts | OBS broadcast | animations outlive the push that began them |
| Follow page and recap (`overlay_static/js/spectator.js`, `set_summary.js`, `api/live_stats.py`) | the last payload | statistics of the log, figures by set and team, swap | OBS broadcast, audit log | the same figure in several shapes, each swapped and cut by set on its own |
| Audit feed (`api/audit_broadcast.py`, `useAuditFeed.ts`) | a version of the log; a client's copy of its tail | push, extend, invalidate, read again | log, hub | gaps, late reads, counters that start again |
| Webhooks (`api/webhooks.py`, `webhook_dead_letter.py`, `admin_users.py`) | targets, a pool's backlog, dead-letter file | deliver, retry, dead-letter, replay, reconfigure by a restart | session events | a file rewritten after a long wait |
| Accounts (`auth/`, `AuthContext.tsx`, the pages that sign in and out, `AdminPage.tsx`) | users, login sessions, a tab's cookie and context | register, log in and out, claim the administrator, change password or role, delete | lifecycle, every page | check-then-act; reads of the context that overtake each other |
| Account pages (`ReportsPage.tsx`, `OverlaysPage.tsx`, `TeamsPage.tsx`, `AdminTeamsPage.tsx`, `PresetsPage.tsx`, `components/icons`, `components/teams`) | lists read page by page, ticks, editors, filters | list, filter, tick, edit, delete, import, publish | their services | a reload after each change, in no order |
| Browser storage (`ScopedStorage.tsx`, `useSettings.tsx`, `clientIdentity.ts`, `useScreenWakeLock.ts`) | settings per account, a tab's identity, a lock on the screen | migrate, write, hear of another tab, request, release | all pages | tabs that share a storage; grants that come late |
| State store content (`overlay/state_store.py`) | nested dictionaries | merge, replace, normalise | OBS | stale keys |
| Match rules, match report, customization store, display, rate limiter, bootstrap, metrics, schemas | mostly rows and pure functions | | | listed in `PROJECT.json` with the reason each is not modelled |

What makes each part correct:

* *Session*: the derived fields (current set, finished stamp, undo count) agree
  with the board and the log; `undo_last` is a stack; nothing is scored past the
  end of the match.
* *Revision protocol and screen*: a gesture counts at most once; a revision names
  one board; a restart takes no revision back that a screen holds; no prediction
  outlives its request; every screen that is connected catches up.
* *Tab and feed*: what is shown is of the board that was chosen; a copy of the log
  is the log at some version; an edit is not lost; a recap does not cover play.
* *Executor*: per-board order, no overlap, exact capacity, no lost wakeup, every
  submitter answered, shutdown returns.
* *Lifecycle*: deletion excludes use; nobody revives a deleted board; a registered
  session can save; every request returns.
* *OBS and pages*: no change is swallowed by the cancelling; nobody is dropped for
  another's fault; files and screens do not go back; at rest a page shows what it was
  last sent; a figure told of a team is that team's, in the set it is told of.

* *Controls and chrome*: every press counts once; the bar can be reached when it is
  needed; an alert is of the score shown.
* *Hub and webhooks*: the registry holds the connections that live, within its cap; a
  delivery is somewhere, once, until it ends.
* *Account pages, sessions and storage*: with nothing under way a list shows what the
  server has and a tab is signed in as its cookie says; what an operation is begun on
  is what was meant; a logo worn exists, an administrator remains, accounts' settings
  stay apart.

The hazards, each with its line and the properties aimed at it, are in
`PROJECT.json`.

## 2. Modules

```
GameManager ─┬─ Scoreboard ── MCScoreboard ── ScoreboardReplay ┈┈> UndoStack
             │                                └─ ScoreboardProofs  (theorems)
             └─ MatchFigures ── MCFigures
RevisionProtocol ─┬─ RevisionProofs ── BoardControls       (theorems)
                  ├─ MCRevision
                  └─ MCTaps ── BoardControls
OperatorTab ─┬─ TabProofs ── ConnectionHub                 (theorems)
             └─ MCTab ── ConnectionHub
OverlayExecutor ─┬─ ExecutorProofs ── Webhooks, AuditFeed  (theorems; run feed)
                 └─ MCExecutor ── Webhooks
                    OverlayExecutor ┈┈> KeyedFifo
OverlayLifecycle ─┬─ LifecycleProofs                       (theorems)
                  └─ MCLifecycle
ObsBroadcast ── ObsProofs                                  (theorems; run obs)
AccountLists ─┬─ ReportsPage
              ├─ OverlaysPage ── PagedList
              ├─ TeamsPage, AdminTeams
              └─ ListProofs ── OverlayPage                 (theorems)
MCPages ─┬─ OverlayPage, AccountLists
         ├─ TeamLibrary, PresetLists, AdminUsers, AccountSession
         ├─ BrowserTabs, WakeLock, OperatorHud, ConfigOptions
         └─ PagesProofs ── ListProofs                      (theorems)
```

(`──` extends or, on the right of an MC or a proof module, is used by it; `┈┈>` implements,
by INSTANCE ... WITH and a PROPERTY.)

**GameManager** has the scoring rules of `GameManager` and `State` as operators on
a board `[sets, score, timeouts, serve, ...]`: add and undo a point, a set, a
timeout, edit, reset, who has won the set, which set is current.

**Scoreboard** is one session with its log.  Its actions are the requests of
`game_actions.py`, each with everything the handler does: the mutation, the
recomputed current set, the finished stamp, the save, the audit write and the
cached count, the rapid-pair cache.  The session's lock makes each one atomic, so
the model has no smaller steps; what it has instead is every outcome of the log's
writes (`AppendOutcomes`, `ClearOutcomes`), of rotation (`RotationDrops`) and of
timing (`RapidTaps`, `PairExpires`).  A record is its action, team, tag and
whether a tombstone hides it; its position is its time stamp.

**UndoStack** is what an undo promises: doing pushes what was shown, undoing pops
it.  **ScoreboardReplay** maps the scoreboard to it by replaying the log's standing
records from an empty board; `UndoRestoresTheTally` is the refinement,
proved in ScoreboardProofs.

**RevisionProtocol** abstracts the match to the sequence of gestures applied, and
has the protocol in full: the tab's queue, prediction, rollback and refetch; the
check of `X-Expected-State-Revision` under the lock; `_apply_state_revision` with
its fingerprint; the order of the durable writes (log, meta, board, meta), each a
step of its own between which the process may stop; restoring, expiry; sockets
that are registered before their snapshot, pushes, evictions.

**OverlayExecutor** has one action per critical section and per step outside one:
acquiring a permit (waiting, or failing at once on the event loop), enqueuing,
dispatching, running, releasing the permit *before* the bookkeeping, retiring,
shutdown with and without waiting and cancelling.  **KeyedFifo** is its promise.

**OverlayLifecycle** has the threads that create, open, score on, delete a board
and delete an account, at the granularity of the claims, transactions, locks and
executor submissions they make.  The executor appears as `KeyedFifo` with eager
dispatch, which is what OverlayExecutor is shown to implement.

**ObsBroadcast** has the writers of the state store under the persistence lock, the
announcement that crosses from a thread to the loop, the one broadcast task of an
overlay with its debounce, cancelling, sends and dropped clients, and the route
and page: register, accept, read the snapshot in a thread, send, break,
reconnect; and restart from the file.

**OverlayPage** is what an OBS source does with a push: compare it with the one before
and animate the difference, or render everything behind a fold when the teams trade
sides.  What the page was told (`last`) changes at once and what it shows later, so
`RollTime`, `FoldTime`, `ShowTime`, `HideTime` and `ShrinkTime` (the durations in the
code, in tenths of a second) and `Tick` decide what overtakes what.  `overlapped`
remembers that an animation was overtaken in one of the ways section 5 names.

**MatchFigures** plays a match on GameManager's rules and says what three pages tell of
it.  A page's content is a function of what it was last sent, so the columns of the
follow page, the six styles of the recap and the operator's board are operators over
the log and the payload that `live_stats.py` computes from it, each with its own way to
cut a set out and to trade the sides.  The properties compare them with what the log
itself says of each team and set.

**AuditFeed** has the log's versions and pushes on one side, each push outside the log's
lock and so in any order, and the client's copy on the other: the read at mounting, an
append that extends the copy, anything else that has it read again, the read that is
aborted, the effect that runs a render later, reconnection, a change of board, eviction,
and a server that starts its counters again.

**OperatorTab** has what App.tsx and its hooks do around the match: the session's two
loads, the queue and the board each request was meant for, refusals, the configuration
panel with its staged edits and its guard, a switch of boards in place, the recap's two
timers and the render they run in; and, per board, the server's match, look and
revision with a rival who changes them.  The match is abstract: sets of two points.

**BoardControls** is what a press becomes: each button's two timers (a long press, and a
tap that waits for a second one), the handlers behind them, the dialogs, the point-type
picker and the shortcuts, and the board as the server last pushed it.  A call that
leaves is the value of `out`.  A button is held by a set of hands (`grips`): two fingers,
a mouse, a key.  `beginPress` does not ask whether the button is held, nor does
`finishPress`, but for a key, whether a press is under way; so `Press` may come over
another press, which is then `overlaid`, and `Release` may find no press to answer, which
then counts for itself (`way` is "loose").  A finger is heard by the button it came down
on, a mouse by the button that it is over when it is let go.

**ConnectionHub** has the sockets of one board: the endpoint that accepts, registers,
reads and unregisters, a broadcast as its two halves (the targets it takes, the dead it
sweeps after its await), the heartbeat, presence and what every tab shows of it.

**Webhooks** has the events of the game, the pool's backlog, a delivery with its
attempts and pauses, the dead-letter file with its cap, a replay that reads, sends and
rewrites, and a restart with other targets.

**ReportsPage**, **OverlaysPage**, **TeamLibrary**, **TeamsPage**, **AdminTeams**,
**AdminUsers**, **PresetLists** are the pages of an account, each with the server's side
of its requests: what is listed, ticked, edited and filtered, the request a control
sends, the reloads that follow, and the answers in whatever order they come.
**PagedList** is how the overlays are read to their end, page by page.  **AccountSession** is a tab's
context and cookie beside the server's sessions.  **BrowserTabs** has what the tabs of a
browser share (settings by account, the guest's migration, storage events) and what each
has for itself (the client identity that presence uses).  **WakeLock**, **OperatorHud**
and **ConfigOptions** are three of the board's hooks, each with the render and the effect
as two steps.

**AccountLists** gathers the four of them whose operations start from what they list,
under one set of constants and variables; MCPages adds the others.

A run of MCTaps, MCTab, MCExecutor or MCPages is a behaviour of *one* of the models it
names (`part`, `mounted`): they share no state in the code either, or share only a
server that each model has for itself.  The other models' variables stay as they began.

Definitions marked `Mutant:` are plausible bugs of the definition that follows
them.  They are not part of any specification; substituted for it, they show that
a property can fail.

## 3. Runs

| Run | Shows | Instance |
|---|---|---|
| `score_log` | `can_undo` never hides an undo, the rapid-pair cache names the right record, the current set and the finished stamp follow the board, under manual edits, new rules, resets, log writes that fail, rotation and rapid taps | best of 1 or 3, 2 records, 1 point a team, scores edited to 0, sets to 0 or 1 |
| `score_lifo` | driven by `undo_last` the scoreboard implements UndoStack; the count is exact; timeouts stay in the set they were called in | best of 3, 5 records, 3 points; points, sets, timeouts, serve, start, init, reset |
| `rev_taps` | a gesture counts once, where its operator aimed it; revisions name boards; restarts do not fall behind; predictions settle; every press is accounted for | 2 tabs, 2 gestures, 2 requests each, 1 restart or expiry; or three buttons (a score, a timeout, the sets), 3 presses by two fingers, by a mouse or by keys, 1 change by somebody else |
| `rev_reset` | saved points are in the log and screens catch up, when a reset races a tap | 2 tabs, 1 gesture, 1 reset, 1 restart, 1 eviction |
| `tab` | the screen is of the chosen board; a recap comes between sets and yields to play; edits are not lost; the registry of the hub is sound and presence settles | 2 boards (symmetric), 2 sets of two points, one of the matches a set ahead, 4 events; or 3 sockets, two of one tab, for 2 places, 1 fault, 1 payload |
| `feed` | the copy is the log at a version it had; it catches up once the log rests | 2 boards, a window of 2 records, 4 mutations, 2 breaks (failed reads, lost sockets, restarts, switches) |
| `executor` | exact capacity and bookkeeping, no lost wakeup, implementation of KeyedFifo, answers for submitters, shutdown; a webhook delivery is always somewhere and ends | 4 items, 2 keys, 2 workers, 1 queue slot, one caller on the loop; or 2 events, 2 endpoints, 1 worker, 1 retry, a file of 2, 1 replay, 1 restart |
| `lifecycle` | no runtime without a row, sessions that can save, exclusive deletion, everybody returns | 2 boards, one of them scored, opened, created and deleted by a thread each, 1 worker, capacity 2, a creation that may roll back, an account deletion |
| `account_deadlock` | *disagreement*: `EveryoneReturns` fails | 2 scoring requests on one board, the deletion of another, an account deletion |
| `obs` | quiet screens agree, only timeouts drop, screens and file do not go back, screens catch up | 3 sources for 2 places, 2 writers, 2 changes, 1 timeout, 1 cut, 1 restart |
| `pages` | at rest a page shows the board it was last sent, a list what the server has, a tab the account of its cookie; choices are about what is listed; saved records hold together; no step misleads | the overlay: match of 2 won sets, 1 point a team, 3 changes, lost sockets or reloads, fold 3, roll 4, show 8, hide 5, shrink 5 tenths; or one account page: 1 to 4 rows, 2 to 4 events, 1 failure |
| `figures` | the follow page, the six recaps and the operator's board tell of each team what is true of it in the set shown (`FiguresAgree`, of the three together) | sets to four (the decider to three), 5 records, of which at most 1 classified point, 1 serve, timeout or edit (to 4) and 1 undo; sides swapped at any time |

Why these bounds are enough to be worth running: a rule set of `Rules` is small
(sets to two points, won by two, three at most) so that a set, its end, a match of two
won sets and the steps past it all fit in five records; a pair that outlives its
record, a record that is rotated away and a write that fails already meet in two.  Two
tabs are what a race of a retry with somebody else's action needs, and one restart can
fall between any two writes.  Four items on two keys overrun two workers and one slot,
so that blocking, saturation, a ready list of more than one and a busy key with a queue
all occur.  In `lifecycle` each thread is in one section of each lock, and with one
worker and capacity 2 the executor is full as soon as two pieces of work are accepted.
In `obs` a third page meets a full overlay, and two writers have two changes under way
at once.  In `pages` three changes of the overlay overtake each other's animations: a point on a point
that still rolls, a swap during a roll, a push during a fold, a hide during a show; and on an account page
three events and a failure are what a reload that overtakes another needs, one of them
about something that the other has removed.  In
`feed` the log outgrows its window, and two breaks allow a restart and a switch, or a
switch and back, in one behaviour.  In `tab` four events reach a switch and
back with an answer, a timer or an edit under way in each place; a third socket meets the hub's cap of two, while
one of the others dies.  Three presses make a tap, a second one in its window and a third
beside the timers of both; or a finger, another on the same button, and what the second
release makes of the first one's undo.  In `executor` two deliveries, a file of two and one replay
let something reach the file while the replay is sending.  Five records with
sets to four include a set that is won and a point in the next, with an undo across
that boundary or a serve in front of it.

Four bounds hide something: `score_lifo` has no edits because `SetsWithinMatch` is
false under them (below); `score_log` has no `init`, for `CurrentSetTracksSets`;
`account_deadlock` uses the smallest executor the configuration allows; `obs` has
`Punctual = TRUE` (below).  The view of `rev_taps` leaves out `out`, the call of the last
step, on which nothing depends.

`CHECK_DEADLOCK FALSE` stands where the system may stop: all records used, all
requests served, all changes made.

### Fairness

* `rev_reset`: the mutation under way goes on; a board is opened again after a
  restart (somebody has to call `/session/init`: this is an assumption about
  operators, not about code); tabs reconnect with a backoff; `asyncio.Lock` is
  first come first served, so a request that can be served again and again is
  (strong fairness); a request that nobody will answer is seen to fail.  Taps,
  crashes, expiries, evictions are not fair.
* `executor`: every thread that is past its permit goes on, a task ends; a waiter on
  the semaphore is woken once per release, so `Wake` is strongly fair.  Nobody is
  obliged to submit or to shut down.
* `lifecycle`: only that *something* goes on while something can (`WF(Next)`), since
  every step takes a request or a task further; no lock is assumed fair.
* `obs`: threads and the loop go on, a send ends in one of three ways, a closed
  handler leaves.  `Connect` is not fair: a page that always meets a full overlay may
  never get in.
* `feed`: React runs the effect of what was rendered, the server answers a read and the
  answer arrives, a socket that is down is opened again (a timer with a backoff), what
  is in it is delivered.  Mutations, failures, evictions, restarts and switches are not
  fair, and are bounded.

* `executor`, of the webhooks: the pool takes what is queued, an attempt ends (its
  requests have timeouts), and what failed goes on to its next attempt or to the file.
  Events, replays, stops and restarts are not fair.

`pages`, `tab`, `rev_taps`, `figures` and the two scoreboard runs have safety properties
only.

Some properties join what belongs together: `BooksBalance` also asks that no ready key
waits beside a free worker (`WorkIsDispatched`), `DeletionIsExclusive` that a registered
session can save, `NothingGoesBack` speaks of the file and of the screens, `FiguresAgree`
of the follow page, the recaps and the board.  `TypeOK` and `SetsWithinMatch` are proved
and no longer run.

## 4. Proofs

Thirty-nine theorems in eight modules, each for every value of the constants; the runs
show the same properties on small instances.

### Scoreboard

`ScoreboardProofs` proves, for every rule set, bound, tag set and log outcome:

* **TypeCorrect**, `Spec => []TypeOK`.  `TypeOK` says that no score, set count or
  undo count goes negative and that no current set lies outside the arrays of
  `State`.  It is inductive.  The scoring rules are first shown to lead from boards to
  boards (`AddGameType`, `UndoGameType`, `CheckSetWonType`, ...), then each request to
  keep the types; `StepType` collects them.
* **CurrentSetFollows**, `Spec => []CurrentSetTracksSets` where no live session is
  initialised again (`"init" \notin Requests`, item 6 below): the next point is booked
  in the set that the sets won and the limits determine.
* **StampFollows**, `Spec => StampFollowsTheBoard`, and **TimeoutsStay**,
  `Spec => TimeoutsStayInTheirSet`.
* **SetsStayWithin**, `Spec => []SetsWithinMatch` under one set of limits and without
  edits by hand (item 4 below).

  These four rest on `StepPlays`: as far as the match is concerned, each request is one
  of five steps, it plays, resets, changes the rules, initialises or leaves the match
  alone, whatever it does to the log.  What each of the five does to the sets won, the
  current set and the stamp is a lemma; the theorems combine them.

* **UndoStaysReachable**, `Spec => []UndoNeverHidden` where resets do remove the log
  (`ClearOutcomes = {TRUE}`): the cached count from which `can_undo` is answered
  never falls below the number of forwards the log would serve, whatever appends,
  tombstones and restores fail and whatever rotation drops.
* **CountIsExact**, `Spec => []CountMatchesLog` where, besides, the writes succeed and
  nothing is rotated away.
* **PairsStayRight**, `Spec => []PairsNameLatest`, with no such condition: what the
  rapid-pair cache remembers is what an ordinary undo would find in the log.

  None of the three is inductive.  A quick undo hides the record the cache names and
  lowers the count, which is right only if that record is one that is counted; and a
  recovered point is counted again, which is right only if it was not.  The invariant
  is `TypeOK /\ PairsInLog`, with `count >= Cardinality(Counted)`, or the equality,
  added: `Counted` are the visible forwards, those in rotated files included (they can
  still be remembered), and `PairsInLog` says of each remembered record where it is,
  whose, visible or hidden, and that no later record is its team's.  `CountMoves` lists
  what a request may do to the count, and `Concerns` says that it touches the records
  of one team alone; one lemma per request (`AddPointCounts`, `UndoPointCounts`,
  `RetractPointCounts`, `RecoverPointCounts`, ...) establishes both, and
  `CountFollows` and `PairsAfter` draw the consequences.

Its second half proves **UndoRestores**, `PlainUndo => (Spec => UndoRestoresTheTally)`: the
scoreboard implements UndoStack, for a log of any length.  `PlainUndo` is what the run has
too: undos by `undo_last` only, writes that succeed, a log that is kept, limits that stay,
no edits, no rapid pairs, and an odd number of sets (item 44 says why).

* What a log comes to is a recursive function of its length, `Played`.  That it exists
  and obeys its recursion is `RecursionExists`, by an induction over sets of numbers
  (`Induction`, from `LeastNatural`); all that is used of it afterwards is `PlayedSteps`.
* `ReplayInv`: the board shows what the log comes to, and every record that stands was
  played on a board that was not over (`Orderly`).  The second is what makes the log
  worth replaying: on a board that is over a point would count without its set.
* From `Orderly` every position of the replay is `Sound`: nobody has scored in a set that
  is yet to be played or has won the one that is (`ReplayKeepsSound`).  So a set that is won
  moves the match on to an empty one (`AwardMovesOn`), and an undo that finds no point
  there looks for it where it was scored (`UndoFindsThePoint`).
* Hiding the last standing record goes back to the position before it (`RecordHidden`), and
  `UndoTakesBack` says that the board does the same.

### Revisions

`RevisionProofs` proves **RestartsKeepUp**, `Spec => []RestartNeverFallsBehind`: no tab
holds a revision above the one in the session file, whichever two writes a restart
falls between.  What a tab holds came over a socket or in an answer, so the
invariant is about every state on its way as well:

    RevisionInv: a live session and the file agree on the revision; a mutation
    under way has a live session; every answer, every push in a socket and every
    tab's confirmed state is at most the revision on file

`StaysOnFile` is the common part (the file's revision grows, what was below it stays
below); `RefreshStep` is the fact that `_apply_state_revision` persists a revision in
the step that gives it out.

Four theorems more are about a board whose fingerprint is on file
(`Fingerprinted = TRUE`) and share the invariant `TabInv`:

* **RevisionsAreNames**, `Spec => []RevisionNamesOneBoard`.  `Given` are the states the
  server has handed out, wherever one is kept: in a socket, an answer, a request, a
  tab.  `NamesInv` says that two of them under one revision are one state, and that the
  digest of those under the latest is the fingerprint on file.  The two need each
  other: `_apply_state_revision` keeps the revision only if the fingerprint agrees.
* **NoPredictionLingers**, `Spec => []PredictionsSettle`.  `SettledInv`: a tab shows what
  it holds unless it waits for a tap, and then its snapshot is what it holds.  That an
  answer finds the gesture it answers is `AskedInv`: a request is on its way, worked on
  or answered, never two of these, and a tab that refetches awaits nothing.
* **MutationsLand**, `Spec => MutationsLandWhereAimed`, and **GesturesCountOnce**,
  `Spec => []AtMostOnce`, without resets (`MaxResets = 0`).  `LandedInv`: whatever is
  known under the revision on file shows the board on file, and no request carries a tap
  that the board it saw has already; so one that is accepted finds its own tap missing.

**SavedPointsHaveRecords**, `Spec => []SavedPointsAreLogged`, needs neither condition:
`LoggedInv` counts each tap in the log and in the two boards, the live and the saved.

### Presses

`RevisionProofs` proves **TapsCountOnce**, `ControlsSpec => []TapsAreAccounted`, for any
buttons, hands, settings and boards, any number of presses and any two durations of which a double
tap is the shorter.  `TapInv` is one invariant per button, `ButtonInv`, and one for the
point-type picker, since a step is of one button and `OthersOf` shows that the presses of
another are left as they were, or go from one answer of the handlers to another:

    DownOf: only the last press of a button can still be answered
    HookOf: a timer for a long press, or an undo that is pending, is of a press to answer;
      the tap that the hook can still take back has a timer, and no press since then was
      a tap; a second press is pending only if the first can no longer count
    TimersOf, WaitOf: each tap that waits has one timer, which does not run out while a
      second press would be quick
    QuickOf: a press that would be quick comes after one that slid away, that the hook
      can take back, or that an older timer made it forget
    PairsOf: the property's two clauses on undos, with the press that is still down
    LooseOf: until a hand presses a held button, and but for a mouse (`Shared`), one hand
      holds a button and has a press to answer, or has held it for long

`TimersOf` is where the times matter: the window of a double tap is counted from the press
and the timer from the release, with the same `DOUBLE_TAP_MS`, so that the timer is the
later of the two.  That a tap in between is found (`NextPress`) is induction, as the least
element of a set of numbers.

### Executor

`ExecutorProofs` has one invariant, `ExecutorInv`, of which both properties of the run
are consequences, for any number of calls, keys, workers and places:

* **BooksStayBalanced**, `Spec => []BooksBalance`: every permit is held by one item from
  its admission to its release, a key with work is in the ready list once or has one
  worker, and the count that shutdown waits for is exact.
* **DispatchIsPrompt**, `Spec => []WorkIsDispatched`: no ready key waits beside a free
  worker.

They need each other.  That dispatching neither loses nor duplicates an item needs the
ready list to be without repetitions, its keys to have work and no worker; that retiring
an item frees its key needs the item to be the only one of its key with a worker; and
both counts need the queues to hold exactly the queued items.  Because a section
changes the queues before it calls `_dispatch_ready_locked`, `Good` is stated of the
values passed to `Dispatch` rather than of the variables; `DispatchStep` shows that
dispatching keeps it, and `EnqueueGood`, `RetireGood` that what is passed has it.

It proves **KeepsThePromise**, `Spec => ImplementsPromise`: under the
mapping of `Promise` every step is a step of KeyedFifo or invisible.  Dispatching is
invisible (`DispatchLines`: the item moved to a worker is still first in line),
`Enqueue` is an acceptance, `Run` a start, `Complete` an end, a cancelling shutdown a
drop from the back.  That an acceptance finds room follows from the permits.

### Webhooks

`ExecutorProofs` also proves **NothingGoesAstray**, `HooksSpec => []DeliveriesAreAccounted`,
for any occurrences, endpoints and configurations, any number of threads, attempts,
stops and replays at once, and any room in the file.  That every delivery is somewhere
(`Covered`) is seldom what could break; that it is in the file once is, because a
replay rewrites the file from what it read.  So `HooksInv` says where a delivery is not:

* `QueuedOnce`: the backlog repeats nothing and holds nothing that a thread is at;
* `LeftThePool`: what is in the file, or in the hands of a replay, is no longer with the
  pool, and never comes back to it, so a thread writes what is not yet written;
* `ReplaysHold`: what a replay keeps, has seen fail and has still to send are three lists
  that share nothing and together fit the file, and whatever it read it still holds, or it
  has an end.  So the file that it leaves behind repeats nothing, is not too long, and
  lacks only what was delivered and what came while it was out (`overtaken`).

`Only`, the filter by which a replay divides the file, is a recursive function;
`OnlyKeeps` and `OnlyAndTheRest` say of it, by the induction that the scoreboard's proofs
use too, that what it takes and what it leaves are all of the file, each record once.

### Broadcasts

`ObsProofs` proves, for any number of sources, writers, changes, failed writes,
timeouts and restarts:

* **FileMovesForward**, `Spec => FileNeverGoesBack`.  The invariant `FileInv`: at most one
  snapshot is on its way to the file, no older than the file and no newer than the
  memory.
* **DropsHaveTimedOut**, `Spec => []OnlyTimeoutsDrop`.  The failed sends are remembered
  until the broadcast ends, so `DropInv` speaks of them too: such a socket is gone or
  has timed out, and the next socket of the same page is not among them.
* **QuietScreensShowTheState**, `Punctual => (Spec => []QuietScreensAgree)`.  `AgreeInv`:
  a screen that is behind has a change on its way to it (`UnderWay`), or a broadcast
  asleep (`Asleep`), which cannot have begun without it; and a source whose snapshot is
  out of date is known to that broadcast, so that a punctual one does not outlast it.
  The hypothesis is the assumption of item 13.
* **BroadcastsMoveForward**, `Spec => ScreensNeverGoBack`, without it.  `OrderInv`: no
  screen shows what was never there, and one that is ahead of the memory shows what a
  restart has taken back.  **NothingReturns**, `Spec => NothingGoesBack`, is this and
  the first together.

### The overlay page

`ListProofs` proves, for any match format, pushes, lost sockets and reloads, and for
any times of the animations below the two seconds of a reconnection:

* **PagesSettle**, `PageSpec => []PageAgrees`.  `SettleInv` says it of a page that is not
  at rest: unless it stands behind a fold, where all is rendered anew, or something was
  overtaken, what it *will* show is the state it was last sent.  `PointsToCome`,
  `VisibleToCome`, `InPlace`, `RecapToCome` and `ScaleToCome` are what the animations
  under way will leave, so a push may begin one and a tick may end one without changing
  where the page is heading.  `FlipInv` says that a flip is of a board that is being
  shown, and for how much longer: what would hide the board under an unfold ends first,
  and counts as overtaken.  For that a board must take longer to show than to hide and
  half a flip together (`PageAssumption`: 0.8 s, 0.5 s and 0.28 s in `app.js`).
* **AlertsAreOfTheWinner**, `PageSpec => [][AlertsFollowTheTeam]_pageVars`, the overlay's
  part of `NoStepMisleads`, from the same invariant: the names on the page are those of
  the last state, so a slot whose sets rose is the winner's.

`RanksAreTaken` is the lemma of the cells that close up when others leave: the elements of
a finite set of numbers are counted off in order, every rank by one of them.

### The account pages

`PagesProofs` proves **TheRecordsHold**, `PagesSpec => []RecordsHold`, for any teams, icons,
addresses and quota, any accounts, any tabs and settings, and any number of steps and
failures.  MCPages shows one page at a time, so `RecordsInv` is one invariant for each:

* *The library.*  `LibraryInv` is `LogosAreThere` itself and who the teams are: the server
  refuses to delete an icon that a team wears, and never makes up a logo for one.
* *The settings.*  `ItemsInv`: what is stored under an account was set by it or by the
  guest, and while the storage has refused nothing, the guest's went to one account at
  most, and to none before the marker was set (`GivenOnce`); `MigrationKeeps` is the
  lemma of the loop that may stop half-way.
* *The identities.*  `IdentitiesInv`: a tab that is shown or kept has the identity that
  its session has stored, an identity that was drawn is no larger than the number of
  events, and two such tabs differ unless one was duplicated while its claim was
  released (`loose`, item 43).
* *The administrators.*  `AdminInv`: unless two checks overlapped, whoever has been found
  not to be the last one still has another beside them, which is what the write needs.
  `BusyInv` says that the page does one thing at a time, so that the only second writer is
  the other administrator.
* *The passwords.*  `PasswordInv`: the password on the page is the account's, or a newer
  one has been written and its answer is on its way.

`PagesProofs` also proves **ChoicesStayCurrent**, `PagesSpec => []ChoicesAreCurrent`, for any
matches, boards, groups and teams, any sizes of pages, and any number of operations,
failures and other people's changes: what an operation is begun on is what was meant.
`ListProofs` has an invariant for each of the four pages and shows that their steps keep
it:

* *The reports.*  `ReportsInv`: what is selected lies in the scope of the controls, and
  what is being deleted in that of the controls it was begun under (`DeletionInv`).
  `ReportsGoOn` says that a step which keeps the scope, or empties the selection, keeps
  both; what has to be seen is that *every* step does one or the other.
* *The overlays.*  `EditsAsListed`: unless two reloads overlap, nothing is renamed while a
  list is being read, so that no list comes beneath a description that is open.
* *The groups.*  `TeamsTrusted`: what is listed of a group, or will be by a list under way,
  is so still, or is *vouched* for: the group's own card waits for a change that has been
  made, or for a later list; likewise every group after the deletion of a custom team.
  That a card is freed by its own change and no other is why changes and the lists after
  them are numbered (`TeamsNumbers`).
* *The catalog.*  `CatalogCurrent`: the list, and each list under way, is the catalog, or a
  change has been made that the page has yet to hear of, or a later list is to come.
  `CatalogMarked`: what is ticked or edited is there, under its number, in the catalog and
  in every list under way.  A number is given again only after its team has gone, and the
  page lets go of the teams it has deleted as soon as it is told.

The attempt corrected the models and four properties that were stated too strongly, each of
which a bounded run had let pass: a card of a group can be closed while it is in use;
a paged list can have an overlay twice while the server moves it between two pages; a tick
may outlive its team during a deletion, or on a list that another overtook; and
`LoginHolds` needed no exception for a sign-out elsewhere.  Of the constants the
theorem takes one thing that an instance cannot show: that the names of the
catalog's teams are finitely many.

**StepsDoNotMislead**, `PagesSpec => NoStepMisleads`, is the action property of the pages: what
is proved of the overlay's alerts above, of the catalog and of the session.

* Typing into the filter changes nothing else (`FilterIsAlone`), and the row that is being
  edited is shown whatever is found.
* `SessionInv`: an answer that says "nobody" was about a token that is nobody's now
  (`ReadingTells`, `ErrandTells`), since a token whose session has ended never has one
  again: it is `Issued`, and a new session takes a number that nobody holds yet.  So a tab
  that is told so either asked with the cookie it has, or is told late.

### Lifecycle

`LifecycleProofs` proves, for any boards, any number of requests of each kind, any
capacity and transactions that roll back:

* **DeletionsAreExclusive**, `Spec => []DeletionIsExclusive`.  `GateInv`: the gate's count
  is the number of threads inside, and whoever is inside for a deletion is there alone.
  A step keeps it because each thread that leaves was counted; the lemmas `UserEnters`,
  `UserLeaves`, `DeleterClaims`, `DeleterReturns` are the four ways the count changes.
  A thread that waits for its barrier returns when the executor has run it, so that
  `WorkInv` is needed as well: a barrier belongs to a thread that waits, and to one that
  has no other.
* **SessionsCanSave**, `Spec => []RegisteredCanSave`: a registered session has not been
  shut down.  `SessionInv`: session objects are numbered as they are made, a board's
  current one is not among those shut down, and two boards never share one; that what
  an account deletion removes is one of the boards is `RemovalInv`.
* **NothingIsLeftBehind**, `Spec => []NoRuntimeWithoutOverlay`.  `KeptInv` says of each
  board what a board without a row can still have, and in whose hands that is: a deletion
  that has taken the row and not yet returned, or a rollback.  It needs `RowInv` (whoever
  opens a board has a row to open it for, and an open transaction has its own),
  `KindInv` (which thread can be where), and of the executor that the barrier really is
  the last: `ServeInv` (one board's work never overlaps, and what waits, waits for a
  worker or for its own board's work) and `BarrierInv` (nothing is queued behind a
  barrier).  All of this holds while the account stands; when it is deleted, item 3
  applies.

### Feed

`ExecutorProofs` proves **CopiesAreOfTheirVersion**, `FeedSpec => []CopyIsOfItsVersion`: however
pushes are lost, delayed or reordered, a copy that has a version is the window of that
board's log at that version.  A version names one log only within one process
(`PastNames`); each append on the wire tells how its version came out of the one before
(`WireInv`), a read that was answered is the window of a log there was (`FetchInv`), and
whoever can be told of an append holds a version of the running process (`HeldInv`).
`WindowExtends` is the fact about sequences: cutting an extended window is cutting the
extended log.

### Tab

`TabProofs` proves, for any number of boards, sets and answers on their way:

* **TheScreenIsOfTheBoard**, `Spec => []ScreenIsOfTheBoard`.  For the look this is about
  everything that carries one: the panel, each save in the queue, the request under way
  and the server's own copy (`OwnInv`), which all go wrong together once a look has
  strayed.
* **RaisedBetweenSets**, `Spec => RecapsAreBetweenSets`.  `DelayInv`: while a recap is
  pending, the score last seen is between two sets, or after the match, on the board of
  the tab; it needs that a rendered state is one of the board's (`ScreenInv`) and that
  only the end of a match leaves two points on a board (`MatchInv`).
* **TypedEditsStay**, `Spec => []EditsAreNotLost`.  `TypedInv`: while the edit stands, no
  answer that would overwrite the panel is on its way, and every save in the queue or
  under way carries the edit (`Carries`).
* **TheRecapYields**, `Spec => []RecapYieldsToPlay`.  `FreshInv`: a screen at the board's
  revision shows the board, and what the effect has seen is the screen unless it has yet
  to run.  `RecapInv`: a recap of the tab's own is on the board of the tab, and either
  nothing has been seen of play (`Covered`), or the request to hide it is under way
  (`Yields`).

### Hub

`TabProofs` also proves **TheConnectionsAgree**, `HubSpec => []ConnectionsAgree`, for any finite
number of connections, of any tabs, any cap, and any number of sends that fail and states
composed.  Its two halves:

* `RegistryIsSound` needs `SetsInv` (a set that has left the registry is empty) and
  `TasksInv` (what a broadcast is about to drop is out already, or in the registry's own
  set): together they are why a sweep after the await cannot touch a newer set, nor drop
  anyone unrecorded.  `CapInv` counts the connections being accepted beside those
  registered: each was let in below the cap, so the overrun is who came with it.
* `PresenceSettles` speaks of rest; on the way there every tab shows the count or is
  `Excused`: it has missed a change (the cases the property names), another connection is
  still to announce itself, or a broadcast is about to drop the tab.  Each of these ends
  with everyone told (`AllAreTold`) or with the tab gone.  A count on its way, in a new
  tab's snapshot (`SnapshotInv`) or in a mutation's state (`PayloadInv`), is excused in the
  same way; that no payload is meant for a connection that has no snapshot yet is what
  makes the two agree.

### What the proofs rest on

The named assumptions of the modules, and the conditions that five theorems of the
scoreboard state on its constants (`Requests`, `RuleSets` and the outcomes of writes),
each of which is needed: items 2, 4, 6, 9 and 44 below say what happens without it, and
`score_log` and `score_lifo` are configured by the same conditions.  Those of the
revisions (`Fingerprinted`, `MaxResets`) are items 10 and 11.  The bounds are
constants like the others: no theorem fixes one.

Only model-checked: the other properties of section 3, `PagesAgree` and `FiguresAgree`
among the invariants; all liveness, which is outside
the prover's reach; and the folds by which MatchFigures reads a log, whose definition in
the community modules is recursive.

## 5. Where the code and what it says of itself disagree

Kept as a run (PROJECT.json, "findings"):

1. `account_deadlock`: registry lock, backend lock, executor capacity and deletion
   barrier can wait for each other in a circle, because account deletion removes a
   session in mid-save.  With the default 8 workers and 256 slots this takes 8
   deletions and 256 queued pushes at once.

Met while modelling, reproducible by changing a constant or adding a request:

2. An undo that finds no point to take back (the team stands at zero in both the current
   and the previous set) still hides a record; a quick re-tap restores that record and
   scores a point, so log and board count differently.
3. Deleting an account takes no claim on its boards; a scoring request admitted before
   it writes files after the cleanup has removed them, and they stay.
4. `set_score` awards the set through `check_set_won`, which passes no sets limit to
   `add_set` (`game_manager.py:178`, against `154-156`): edits alone award sets after
   the match is decided.  `SetsWithinMatch` is false with `"set_score"` in `Requests`.
5. Editing the deciding set's score down does not take the set back: the match stays
   finished, although a comment says that setting 25 back to 23 re-opens it
   (`game_actions.py:507-511`, against `490`).
6. `set_rules` may make the match finished or unfinished without touching the finished
   stamp; re-initialising a live session changes the limits and leaves `current_set`.
   So `score_log` asks that the stamp follows the board, step by step, rather than that
   the two agree, and has no `"init"`.
7. A third timeout in a set is refused by the board and logged all the same; its undo
   takes back the second.
8. An undo of one type (`undo: true` on `add_point`) with zero points in both candidate
   sets pops a record and changes nothing on the board.
9. A failed undo append after a successful pop leaves the count too high, which shows
   an undo button that does nothing; a failed removal of the log at reset zeroes the
   count although the old forwards are still there.
10. A board for which no mutation has been saved has no fingerprint in its meta.  A tap
    that slips in between the session's creation and its first snapshot is then
    presented at the old revision, and its retry is accepted: with
    `Fingerprinted = FALSE` in `rev_taps`, `AtMostOnce`, `RevisionNamesOneBoard` and
    `PredictionsSettle` are false.  The runs check boards
    that have been mutated once.
11. `reset` saves the blank board before its revision.  After a crash in between, a tap
    made on the old board is accepted on the blank one: `MutationsLandWhereAimed` is
    false with a reset, two requests and a crash, and is checked of taps.
12. A push that times out removes a socket from the hub (control or OBS) and leaves it
    open; pings are still answered, so the page never reconnects.  The liveness
    properties leave such screens out by name (`"deaf"`; sources outside `clients`).
13. A source reads its snapshot in a worker thread after it has been registered.  If the
    snapshot takes longer from reading to sending than the debounce of 50 ms, an older
    state may be shown until the next change: `QuietScreensAgree` is false with
    `Punctual = FALSE`.  Even a punctual one may briefly overtake, which is why
    `ScreensNeverGoBack` excepts it.
14. An auto-created board whose transaction fails is discarded without its log and
    without the barrier (`_discard_auto_created_overlay_runtime`, which says it removes
    the "state created before an owner overlay row failed to commit"); a scoring request
    on it at that moment leaves files behind.  `NoRuntimeWithoutOverlay` leaves such a
    board out by name (`early`).
    A crash between commit and cleanup also leaves files.
15. A socket closed with 4004 before it is accepted reaches a browser as 1006, so the
    page's rule not to reconnect after 4004 does not apply; reconnection goes on.

*The overlay page.*  Its animations carry the state they were begun with, and nothing
renders again when they end.  `PageAgrees` leaves out exactly the following, each named
by an operator of the module, and each of them needed:

16. A push handled during the quarter of a second of a fold is overwritten by the view
    the fold was begun with (`app.js:189`); a swap in the middle of another leaves the
    panel at part of its scale; a number still rolling in replaces the one that a fold
    or a full render wrote.  All of them last until the next full render.
17. A hide within 0.3 s of a show ends first, and the board comes back; a hide of the
    recap before the frame that raises its panel leaves the panel up; a cell of the set
    history that is wanted again while it leaves is removed all the same.
18. The alert of a set won in the same push that trades the sides is lost, and an alert
    that is glowing stays on its slot when the sides are traded.
19. `renderLiveStats` colours team 1 as "home" although the view has been swapped; the
    ticker and the player panels share tweens with the board.

*The operator's feed and tab.*

20. `useAuditFeed.ts:46` says that anything but the next append is read again; an append
    that arrives between an invalidation and its effect is applied to the copy that was
    given up (`123`), and a feed at rest may then disagree with the log until the next
    push.  `FeedCatchesUp` leaves this out by name (`slipped`); the copy is still that of
    its version.
21. `refreshCustomization` does not ask after its await whether the board is still the
    same (`useGameState.ts:552`): another board's look may fill the panel, and be saved
    to this one.  `ScreenIsOfTheBoard` says so by `strayed`.
22. The timers of the automatic recap and the score they compare with survive a switch of
    boards in place (`carried`); a set won and the next point that are rendered together
    raise the recap over play (`merged`); a hide that is refused with 409, or lost,
    leaves the recap up, and so do a switch to another board while it is shown and a
    whole set that goes by between two renders (`abandoned`); with a duration of zero no
    point dismisses it.
23. What is typed into the panel while a save or a read-back is under way is overwritten
    by it; a save writes the whole model and so takes back what another controller
    saved meanwhile.
24. The locale is synchronised when the board is mounted or switched, before its
    customization has been loaded, and is not tried again if that fails.  The dialog
    that sets a value writes into the set that is current when it is submitted
    (`useSetValueDialog.ts:82`).
25. The timer of a tap nulls the reference to whichever timer is the latest
    (`useDoubleTap.ts:126-129`): a younger tap can then not be cleared and counts beside
    the undo (`overtaken`).  A cancelled press still counts as the first of a double tap
    (`87-103`); a second press that strays or is held loses the first; what waits when
    the board is left is dropped.
26. The point picker is replaced by another team's tap (`App.tsx:363-369` leaves
    `pointPickerTeam` out, against its comment at 360); Space on a focused score button
    starts the match as well as counting.

*The figures.*

27. The payload's services put the first rally of a new set down to whoever served last
    in the one before (`live_stats.py:258`, which says so); point types are not turned
    by `applySideSwap` (`spectator.js:992`, against the comment at `1513`), and
    `FollowPageAgrees` leaves them out while the sides are swapped.
28. Four of the recaps show the timeouts taken of the *current* set beside the previous
    set's score (`set_summary.js:1246`, against the comment at `1226`); `setFinished` is
    always true there, so that a recap always says "Final" (`435`).
29. A timeout, a serve or an edit breaks a streak in the recap and not on the follow
    page; comebacks are computed from the scores, so that an edit makes one.
30. Edits and changes of serve are broadcast before their record is appended: the page
    is a record behind until the next push.  The record of an edit names the current
    set, whatever set it edits.
31. A follow page that was frozen on a set which then becomes the current one is labelled
    live and does not follow (`spectator.js:522`).
32. The star of a set on the strip floats beside a change of serve that was made between
    the point and its undo; the first record ever that wins a set, which only an edit can
    be, gets no star; an edit of an older set never enters the cache of set scores; and
    the current set of the buttons follows the state one render late (`App.tsx:262`).
33. When the sides are swapped, the colours of the live statistics and of the points strip
    stay as they were (`style.css:305-396`, against `app.js:103-106`).  A comeback at a
    tie counts only for team 1 (`match_report/stats.py:562`).  `_collapse_undos`
    (`match_report/stats.py:145-191`) loses one action more per undo than its docstring
    says; the report is not modelled.

*Hub, webhooks, chrome.*

34. The cap is checked before the socket is accepted and registered (`ws_hub.py:117`):
    sockets accepted at once overrun it (`crowd`).  A sweep removes from the set that
    its broadcast began with, so that a set made meanwhile is not the one it empties, and
    presence may be out of date until the next change.
35. A replay sends from what it read and rewrites the file by what is left: what the pool
    or another replay wrote meanwhile is lost or comes back (`admin_users.py:222`, against
    the docstring of `replay_records`).
36. A hide of the bar by hand is undone at once while a recap is live or the match is over
    (`useHudVisibility.ts:81-88`); the alert of the midpoint outlives a change of the
    target until the next point, and an update of two points may pass it without one
    (`useIndoorMidpointAlert.ts:61-66`).
37. The answer of a retried load overwrites a pick made meanwhile, and two picks may be
    saved in reverse (`useConfigOptions.ts:79-82`, `126-139`; `raced`).

*The account pages.*

38. Reloads are not sequenced on most pages: the older answer may come last and stays
    (`past`, `behind` and the like name it).  On the reports page the rows of an old query
    stay after a load that failed; a paged walk skips or repeats what moved between
    two pages.
39. Ticks survive an import that replaces the catalog and may then be of another team
    under the same number; an editor is closed by the deletion of another team; a filter
    stays in force when its field is hidden (`TeamListToolbar.tsx:4-7`).
40. A blank logo is not cleared (`useTeamDraft.ts:18`, `38`); a batch import overwrites a
    logo that was given meanwhile, and revives an icon that was deleted.  One slot keeps
    the deletion to be confirmed (`pendingDelete`).
41. Whether an administrator is the last is read before the write (`auth/service.py:229`):
    two at once may both pass (`past.overlapped`).  Resetting
    one's own password loses the temporary one.
42. A logout that fails leaves the tab signed in without a word, and a 401 from before a
    login drops the fresh session.
43. A lock on the screen that is granted after the board was left outlives it (`orphans`;
    the comment at `useScreenWakeLock.ts:155-157` says otherwise).  A migration that the
    storage refuses in part gives a guest's settings to two accounts
    (`ScopedStorage.tsx:29-35`); a duplicate of a tab whose claim was released shares its
    client id (`clientIdentity.ts:5-11`); the language hears of no other tab.

*An even number of sets.*

44. Nothing keeps an init request from an even number of sets (`schemas.py:19`).  At one
    set each of two, `_compute_current_set` counts a third and caps it at the second, which
    is won already: the next point of its winner wins it again and ends the match, and
    undoing that point leaves a winning score and takes no set back.
    `UndoRestoresTheTally` is false with two sets; the presets of `match_rules.py` are odd.

*More than one hand on a button.*

45. A second finger on a held button begins a press of its own (`useDoubleTap.ts:76-111`
    and `135-142`; the comment at 77-79 expects it for the long-press timer only), quick
    after the first as a double tap would be.  The first release is then the undo, though
    nothing was tapped before it, and the second finds nothing pending and is a point
    beside it (`114-133`).  `TapsAreAccounted` says just that: an undo may follow a press
    that was `overlaid`, and a release may count for itself once a hand has come "beside"
    another.
46. A mouse button that came down elsewhere and is let go of over a score button is a tap
    on it (`144-156`; only `onKeyUp` asks, at 185, for its `keydown`); dragged from one
    button to another it counts on the second.  For a device with a mouse the property
    does not bound the releases that count for themselves.

## 6. Not modelled

Parts marked `not_modelled` in `PROJECT.json` carry their reason.  Much of the browser's
code is data (`translations.ts`, the generated schema) and layout; it keeps no state that
another part reads.  What a reader should know of the parts left out:

* The limits of an init request are not bounded (`schemas.py:19`); the models take limits
  that `match_rules.py` offers.
* Live statistics are memoised under a version read before the log
  (`live_stats.py:436`), so that a memo may be newer than its version says, and never
  older.

Inside the modelled parts: records of actions the undo path never selects; the text and
layout of anything; time other than as order, windows, timeouts and the length of the
page's animations; the archive row written when the finished stamp is set; webhooks fired
after a request; the file system failing other than in the log and the state file; the
expiry of idle sessions in OverlayLifecycle (RevisionProtocol has it); `cleanup_overlay`
and `broadcast_now`, which have no callers; closing codes that end a reconnection; in the
page the pylons' docked variant of a swap, the compact mode, geometry healing, ticker and
player panels, and the new style, which reloads the page; in the figures the cap of sixty
events, clocks, the badge of a beach switch, rapid pairs, `add_set` and navigation; on
the board the strip's length, its page of the feed and no-op edits; of the controls a
device that has both fingers and a mouse, and with it
`touchActive`, which keeps out the mouse events that browsers make of touches; the picker's
own upload of an icon; of the accounts the closing of registration once an administrator
has been claimed (the model has registration open, as the setting allows); what the other
lookups of the settings panel answer.

## 7. What could come next

In the order in which it would add most:

1. The executor of OverlayLifecycle and the saves of RevisionProtocol in one model, so that
   a restart falls between a deletion's commit and its cleanup.
2. Theorems: what the account pages show at rest (`PagesAgree`), by invariants of the kind
   that ListProofs has.
