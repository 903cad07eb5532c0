----------------------------- MODULE Scoreboard -----------------------------
(***************************************************************************)
(* One board's match as the API drives it: the GameSession, its board, its *)
(* audit log and the undo that reads the log back.  Each action is one     *)
(* request of app/api/game_actions.py; get_mutation_session holds the      *)
(* session's lock for the whole handler, so the requests of all the        *)
(* clients of a board are atomic with respect to each other, and what can  *)
(* go wrong is a sequence of them.                                         *)
(*                                                                         *)
(* The log keeps the records the undo path can select (add_point, add_set, *)
(* add_timeout); records of other actions are skipped by every reader of   *)
(* this module's state.  A record's position stands for its ts, which is   *)
(* strictly increasing.                                                    *)
(***************************************************************************)
EXTENDS GameManager, Sequences, FiniteSets

CONSTANTS
  Requests,        \* the kinds of request the clients of this board make
  RuleSets,        \* the limits an operator may choose
  InitialRules,    \* the limits the session starts with
  ScoreValues,     \* values a manual score edit may write
  SetsValues,      \* values a manual sets-won edit may write
  Tags,            \* classifications of a point
  NoTag,           \* a point scored without one
  RapidTaps,       \* may two taps fall inside RAPID_PAIR_WINDOW_S?
  AppendOutcomes,  \* whether a write to the log succeeds
  ClearOutcomes,   \* whether removing the log files succeeds
  RotationDrops,   \* how many records an append may rotate away
  MaxLog,          \* bound: records of one match
  MaxPoints        \* bound: points of a team in a set

ASSUME ScoreboardAssumption ==
  /\ RuleSets \subseteq Rules /\ InitialRules \in RuleSets
  /\ ScoreValues \subseteq Nat /\ SetsValues \subseteq Nat
  /\ NoTag \in Tags
  /\ RapidTaps \in BOOLEAN
  /\ AppendOutcomes \subseteq BOOLEAN /\ ClearOutcomes \subseteq BOOLEAN
  /\ RotationDrops \subseteq Nat /\ 0 \in RotationDrops
  /\ MaxLog \in Nat /\ MaxPoints \in Nat

VARIABLES
  board,     \* game_manager.main_state
  rules,     \* points_limit, points_limit_last_set, sets_limit
  curSet,    \* current_set
  started,   \* match_started_at is not None
  finished,  \* match_finished_at is not None
  log,       \* the audit log's undoable records, undo records included
  dropped,   \* how many of the oldest ones rotation has discarded
  count,     \* undoable_forward_count, what can_undo is answered from
  rapid      \* rapid_pair_cache

vars == <<board, rules, curSet, started, finished, log, dropped, count, rapid>>
match == <<board, rules, curSet, started, finished>>
trail == <<log, dropped, count>>

-----------------------------------------------------------------------------
\* The log.

Undoable == {"add_point", "add_set", "add_timeout"}

Record == [action : Undoable, team : Team, undo : BOOLEAN, tag : Tags,
           visible : BOOLEAN]

Forward(action, t, tag) == [action |-> action, team |-> t, undo |-> FALSE,
                            tag |-> tag, visible |-> TRUE]
Undo(action, t) == [action |-> action, team |-> t, undo |-> TRUE,
                    tag |-> NoTag, visible |-> TRUE]

\* A _pop tombstone hides a record, a _restore tombstone brings it back.
Tombstone(l, i) == [l EXCEPT ![i].visible = FALSE]
Restore(l, i)   == [l EXCEPT ![i].visible = TRUE]

\* What _apply_tombstones and the loss of rotated files leave of the forwards.
LiveForwards == {i \in DOMAIN log : i > dropped /\ log[i].visible /\ ~log[i].undo}

Latest(S) == IF S = {} THEN 0 ELSE CHOOSE i \in S : \A j \in S : j <= i

LastForward == Latest(LiveForwards)
LastForwardOf(action, t) ==
  Latest({i \in LiveForwards : log[i].action = action /\ log[i].team = t})

\* Any append first rotates the files when they are full.
Rotated(n) == dropped + n
RoomInLog == Len(log) < MaxLog

\* Mutant: an undo is not counted.
CountKept == count

CountDown == IF count > 0 THEN count - 1 ELSE 0

-----------------------------------------------------------------------------
\* The rapid-pair cache.

NoPair == [kind |-> "none", at |-> 0, popped |-> 0, tag |-> NoTag]
Pair == [kind : {"none", "forward", "undo"}, at : Nat, popped : Nat, tag : Tags]

ForwardSeed(at) == [kind |-> "forward", at |-> at, popped |-> 0, tag |-> NoTag]
UndoSeed(at, i) == [kind |-> "undo", at |-> at, popped |-> i,
                    tag |-> IF i = 0 THEN NoTag ELSE log[i].tag]

Seeded(t, seed) == [rapid EXCEPT ![t] = IF RapidTaps THEN seed ELSE NoPair]

\* consume_rapid_pair's conditions, for an undo and for a point tagged tag.
PairsWithForward(t)   == rapid[t].kind = "forward"
PairsWithUndo(t, tag) == rapid[t].kind = "undo" /\ rapid[t].tag = tag

\* Mutant: the cache outlives the request that makes it stale.
RapidPairsKept == UNCHANGED rapid

InvalidateRapidPairs == rapid' = [t \in Team |-> NoPair]

-----------------------------------------------------------------------------
\* What every handler does around its own mutation.

Finished == MatchFinished(board, rules.sets)

\* _sync_match_finished_at: stamp or clear on a change, else leave it alone.
SyncMatchFinishedAt(b) ==
  finished' = IF Finished = MatchFinished(b, rules.sets)
              THEN finished
              ELSE MatchFinished(b, rules.sets)

\* The board b with set as the session's current one, saved.
Commit(b, set) == curSet' = set /\ board' = Save(b, set)

\* Append a forward record; a write that fails leaves no trace and no count.
AuditForward(action, t, tag, ok, n) ==
  /\ RoomInLog
  /\ dropped' = Rotated(n)
  /\ dropped' <= Len(log)
  /\ log' = IF ok THEN Append(log, Forward(action, t, tag)) ELSE log
  /\ count' = IF ok THEN count + 1 ELSE count

\* Mutant: every undo moves the count, also one that popped nothing.
AuditUndoAlwaysCounts(action, t, i, okPop, okAppend, n) ==
  LET hidden == IF okPop /\ i # 0 THEN Tombstone(log, i) ELSE log
  IN  /\ RoomInLog
      /\ dropped' = Rotated(n)
      /\ dropped' <= Len(log)
      /\ log' = IF okAppend THEN Append(hidden, Undo(action, t)) ELSE hidden
      /\ count' = CountDown

\* Hide forward i (0: there was none to pop), then append the undo record.
\* The count moves only once the undo record is written.
AuditUndo(action, t, i, okPop, okAppend, n) ==
  LET popped == IF okPop THEN i ELSE 0
      hidden == IF popped = 0 THEN log ELSE Tombstone(log, popped)
  IN  /\ RoomInLog
      /\ dropped' = Rotated(n)
      /\ dropped' <= Len(log)
      /\ log' = IF okAppend THEN Append(hidden, Undo(action, t)) ELSE hidden
      /\ count' = IF okAppend /\ popped # 0 THEN CountDown ELSE count

\* Any other action's record matters here only for the rotation it may cause.
AuditOther(n) ==
  /\ dropped' = Rotated(n)
  /\ dropped' <= Len(log)
  /\ UNCHANGED <<log, count>>

-----------------------------------------------------------------------------
\* add_point

ScorePoint(t) ==
  LET b == AddGame(board, t, curSet, rules)
  IN  /\ "add_point" \in Requests
      /\ ~Finished
      /\ board.score[t][curSet] < MaxPoints
      /\ Commit(b, IF SetWonBy(b, t, curSet, rules) THEN ComputeCurrentSet(b, rules.sets) ELSE curSet)
      /\ started' = TRUE
      /\ SyncMatchFinishedAt(b)
      /\ UNCHANGED rules

\* A point that stands on its own: recorded, and remembered for a quick undo.
AddPoint(t, tag, ok, n) ==
  /\ ScorePoint(t)
  /\ ~PairsWithUndo(t, tag)
  /\ AuditForward("add_point", t, tag, ok, n)
  /\ rapid' = Seeded(t, IF ok THEN ForwardSeed(Len(log) + 1) ELSE NoPair)

\* A point tapped right after its own undo: the log forgets the undo instead.
RecoverPoint(t, tag, okPop, okRestore, n) ==
  LET pair     == rapid[t]
      forgot   == IF okPop THEN Tombstone(log, pair.at) ELSE log
      restores == okPop /\ okRestore /\ pair.popped # 0
  IN  /\ ScorePoint(t)
      /\ PairsWithUndo(t, tag)
      /\ dropped' = Rotated(n)
      /\ dropped' <= Len(log)
      /\ log' = IF restores THEN Restore(forgot, pair.popped) ELSE forgot
      /\ count' = IF restores THEN count + 1 ELSE count
      /\ rapid' = [rapid EXCEPT ![t] = NoPair]

UnscorePoint(t) ==
  LET b == UndoGame(board, t, curSet, rules)
  IN  /\ Commit(b, IF UnwinsSet(board, t, curSet, rules)
                   THEN ComputeCurrentSet(b, rules.sets)
                   ELSE curSet)
      /\ SyncMatchFinishedAt(b)
      /\ UNCHANGED <<rules, started>>

UndoPoint(t, okPop, okAppend, n) ==
  LET i == LastForwardOf("add_point", t)
  IN  /\ UnscorePoint(t)
      /\ ~PairsWithForward(t)
      /\ AuditUndo("add_point", t, i, okPop, okAppend, n)
      /\ rapid' = Seeded(t, IF okAppend
                            THEN UndoSeed(Len(log) + 1, IF okPop THEN i ELSE 0)
                            ELSE NoPair)

\* An undo right after the point: the log forgets the point instead.
RetractPoint(t, okPop, n) ==
  /\ UnscorePoint(t)
  /\ PairsWithForward(t)
  /\ dropped' = Rotated(n)
  /\ dropped' <= Len(log)
  /\ log' = IF okPop THEN Tombstone(log, rapid[t].at) ELSE log
  /\ count' = IF okPop THEN CountDown ELSE count
  /\ rapid' = [rapid EXCEPT ![t] = NoPair]

\* RAPID_PAIR_WINDOW_S goes by for a tap, and for those older than it.
PairExpires(t) ==
  /\ rapid[t].kind # "none"
  /\ rapid[Rival(t)].kind = "none" \/ rapid[t].at < rapid[Rival(t)].at
  /\ rapid' = [rapid EXCEPT ![t] = NoPair]
  /\ UNCHANGED <<match, trail>>

-----------------------------------------------------------------------------
\* add_set, add_timeout, change_serve

AwardSet(t, ok, n) ==
  LET b == AddSet(board, t, rules.sets)
  IN  /\ "add_set" \in Requests
      /\ ~Finished
      /\ Commit(b, ComputeCurrentSet(b, rules.sets))
      /\ SyncMatchFinishedAt(b)
      /\ AuditForward("add_set", t, NoTag, ok, n)
      /\ InvalidateRapidPairs
      /\ UNCHANGED <<rules, started>>

RevokeSet(t, okPop, okAppend, n) ==
  LET b == UndoSet(board, t)
  IN  /\ Commit(b, ComputeCurrentSet(b, rules.sets))
      /\ SyncMatchFinishedAt(b)
      /\ AuditUndo("add_set", t, LastForwardOf("add_set", t), okPop, okAppend, n)
      /\ InvalidateRapidPairs
      /\ UNCHANGED <<rules, started>>

CallTimeout(t, ok, n) ==
  /\ "add_timeout" \in Requests
  /\ ~Finished
  /\ Commit(AddTimeout(board, t), curSet)
  /\ AuditForward("add_timeout", t, NoTag, ok, n)
  /\ InvalidateRapidPairs
  /\ UNCHANGED <<rules, started, finished>>

CancelTimeout(t, okPop, okAppend, n) ==
  /\ Commit(UndoTimeout(board, t), curSet)
  /\ AuditUndo("add_timeout", t, LastForwardOf("add_timeout", t), okPop, okAppend, n)
  /\ InvalidateRapidPairs
  /\ UNCHANGED <<rules, started, finished>>

ToggleServe(t, n) ==
  /\ "change_serve" \in Requests
  /\ Commit(ChangeServe(board, t, FALSE), curSet)
  /\ AuditOther(n)
  /\ InvalidateRapidPairs
  /\ UNCHANGED <<rules, started, finished>>

-----------------------------------------------------------------------------
\* The two undo entry points: undo=True on a request, and POST /game/undo,
\* which lets the log choose the request.

UndoRequest(action, t, okPop, okAppend, n) ==
  \/ /\ action = "add_point"
     /\ UndoPoint(t, okPop, okAppend, n) \/ RetractPoint(t, okPop, n)
  \/ action = "add_set" /\ RevokeSet(t, okPop, okAppend, n)
  \/ action = "add_timeout" /\ CancelTimeout(t, okPop, okAppend, n)

UndoLast(okPop, okAppend, n) ==
  /\ "undo_last" \in Requests
  /\ LastForward # 0
  /\ UndoRequest(log[LastForward].action, log[LastForward].team, okPop, okAppend, n)

UndoOne(action, t, okPop, okAppend, n) ==
  /\ "undo_one" \in Requests
  /\ action \in Requests
  /\ UndoRequest(action, t, okPop, okAppend, n)

-----------------------------------------------------------------------------
\* Manual edits, rules, start and reset

SetScore(t, set, value, n) ==
  LET edited == SetGameValue(board, t, set, value)
      b == CheckSetWon(edited, t, set, rules)
  IN  /\ "set_score" \in Requests
      /\ set <= rules.sets
      /\ Commit(b, IF SetWonBy(edited, t, set, rules)
                   THEN ComputeCurrentSet(b, rules.sets)
                   ELSE curSet)
      /\ SyncMatchFinishedAt(b)
      /\ AuditOther(n)
      /\ InvalidateRapidPairs
      /\ UNCHANGED <<rules, started>>

\* Mutant: the edit forgets the end-of-match stamp.
SetSetsUnstamped(t, value, n) ==
  LET b == SetSetsValue(board, t, value)
  IN  /\ "set_sets" \in Requests
      /\ Commit(b, ComputeCurrentSet(b, rules.sets))
      /\ AuditOther(n)
      /\ InvalidateRapidPairs
      /\ UNCHANGED <<rules, started, finished>>

SetSets(t, value, n) ==
  LET b == SetSetsValue(board, t, value)
  IN  /\ "set_sets" \in Requests
      /\ Commit(b, ComputeCurrentSet(b, rules.sets))
      /\ SyncMatchFinishedAt(b)
      /\ AuditOther(n)
      /\ InvalidateRapidPairs
      /\ UNCHANGED <<rules, started>>

\* Mutant: new limits leave the current set where it was.
SetRulesInPlace(r, n) ==
  /\ "set_rules" \in Requests
  /\ rules' = r
  /\ AuditOther(n)
  /\ InvalidateRapidPairs
  /\ UNCHANGED <<board, curSet, started, finished>>

SetRules(r, n) ==
  /\ "set_rules" \in Requests
  /\ rules' = r
  /\ Commit(board, ComputeCurrentSet(board, r.sets))
  /\ AuditOther(n)
  /\ InvalidateRapidPairs
  /\ UNCHANGED <<started, finished>>

\* POST /session/init on a live session applies its limits and nothing else.
ReinitSession(r) ==
  /\ "init" \in Requests
  /\ rules' = r
  /\ UNCHANGED <<board, curSet, started, finished, trail, rapid>>

StartMatch(n) ==
  /\ "start_match" \in Requests
  /\ ~started
  /\ started' = TRUE
  /\ finished' = FALSE
  /\ AuditOther(n)
  /\ InvalidateRapidPairs
  /\ UNCHANGED <<board, rules, curSet>>

\* The count is zeroed whether or not the log's files could be removed.
Reset(okClear) ==
  /\ "reset" \in Requests
  /\ Commit(ResetBoard, ComputeCurrentSet(ResetBoard, rules.sets))
  /\ started' = FALSE
  /\ finished' = FALSE
  /\ log' = IF okClear THEN <<>> ELSE log
  /\ dropped' = IF okClear THEN 0 ELSE dropped
  /\ count' = 0
  /\ InvalidateRapidPairs
  /\ UNCHANGED rules

-----------------------------------------------------------------------------
Init ==
  /\ board = ResetBoard
  /\ rules = InitialRules
  /\ curSet = 1
  /\ started = FALSE
  /\ finished = FALSE
  /\ log = <<>>
  /\ dropped = 0
  /\ count = 0
  /\ rapid = [t \in Team |-> NoPair]

Point ==
  \E t \in Team, tag \in Tags, ok1, ok2 \in AppendOutcomes, n \in RotationDrops :
    AddPoint(t, tag, ok1, n) \/ RecoverPoint(t, tag, ok1, ok2, n)

OtherForward ==
  \E t \in Team, ok \in AppendOutcomes, n \in RotationDrops :
    AwardSet(t, ok, n) \/ CallTimeout(t, ok, n) \/ ToggleServe(t, n)

UndoStep ==
  \E ok1, ok2 \in AppendOutcomes, n \in RotationDrops :
    \/ UndoLast(ok1, ok2, n)
    \/ \E action \in Undoable, t \in Team : UndoOne(action, t, ok1, ok2, n)

Edit ==
  \E t \in Team, n \in RotationDrops :
    \/ \E set \in SetNo, value \in ScoreValues : SetScore(t, set, value, n)
    \/ \E value \in SetsValues : SetSets(t, value, n)

Manage ==
  \/ \E r \in RuleSets, n \in RotationDrops : SetRules(r, n)
  \/ \E r \in RuleSets : ReinitSession(r)
  \/ \E n \in RotationDrops : StartMatch(n)
  \/ \E ok \in ClearOutcomes : Reset(ok)

Next ==
  \/ Point \/ OtherForward \/ UndoStep \/ Edit \/ Manage
  \/ \E t \in Team : PairExpires(t)

Spec == Init /\ [][Next]_vars

-----------------------------------------------------------------------------
\* Every variable has its type; in particular no score, set count or undo count
\* goes negative and no set beyond the arrays of State is current.
TypeOK ==
  /\ board \in Board
  /\ rules \in Rules
  /\ curSet \in SetNo
  /\ started \in BOOLEAN
  /\ finished \in BOOLEAN
  /\ log \in Seq(Record)
  /\ dropped \in 0..Len(log)
  /\ count \in Nat
  /\ rapid \in [Team -> Pair]

\* can_undo, answered from the cached count, never hides an undo the log could
\* still serve, whichever log writes fail and whatever rotation discards.
UndoNeverHidden == count >= Cardinality(LiveForwards)

\* The cached count is the number of forwards the log would serve.
CountMatchesLog == count = Cardinality(LiveForwards)

\* A tap remembered for a quick undo is the one an ordinary undo of its team
\* would pop, and a point remembered for recovery is still taken back.
PairsNameLatest ==
  \A t \in Team :
    /\ PairsWithForward(t) /\ rapid[t].at > dropped
         => rapid[t].at = LastForwardOf("add_point", t)
    /\ rapid[t].kind = "undo" /\ rapid[t].popped # 0
         => rapid[t].popped \notin LiveForwards

\* The session's current set is the one its sets won and its limits determine,
\* although each handler decides on its own whether to recompute it.
CurrentSetTracksSets == curSet = ComputeCurrentSet(board, rules.sets)

\* The end-of-match stamp is there exactly while the match is over.
FinishedStampAgrees == finished <=> Finished

\* No play goes on past the set that decides the match.
SetsWithinMatch == \A t \in Team : board.sets[t] <= SoftLimit(rules.sets)

\* A request that changes the board under unchanged rules keeps the end-of-match
\* stamp in agreement with it, in both directions.
StampFollowsTheBoard ==
  [][FinishedStampAgrees /\ board' # board /\ rules' = rules
       => FinishedStampAgrees']_vars

\* A timeout is booked in the set being played: the history of the other sets
\* changes only when the match is reset.
TimeoutsStayInTheirSet ==
  [][board' = ResetBoard \/
     \A t \in Team, set \in SetNo \ {curSet} :
       board'.timeouts[t][set] = board.timeouts[t][set]]_vars
=============================================================================
