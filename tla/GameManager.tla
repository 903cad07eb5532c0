---------------------------- MODULE GameManager ----------------------------
(***************************************************************************)
(* The scoring rules of app/game_manager.py and the mutable match state of *)
(* app/state.py, as operators from a board to the next board.  A board is  *)
(* GameManager.main_state: sets won, per-set points and timeouts, who is   *)
(* serving, and State.current_set (the slot timeouts are booked in, which  *)
(* follows the session's current set only when the board is saved).        *)
(***************************************************************************)
EXTENDS Integers

CONSTANT
  ConfSets  \* conf.sets: the process-wide "best of N" (MATCH_SETS)

ASSUME ConfSetsAssumption == ConfSets \in Nat \ {0}

Team  == {1, 2}
SetNo == 1..7      \* State.MAX_SETS
Serve == 0..2      \* 0 is Serve.NONE

Rival(t) == 3 - t

Board == [sets     : [Team -> Nat],
          score    : [Team -> [SetNo -> Nat]],
          timeouts : [Team -> [SetNo -> 0..2]],
          serve    : Serve,
          setNo    : SetNo]

\* A session's limits: points_limit, points_limit_last_set, sets_limit.
Rules == [points : Nat \ {0}, lastPoints : Nat \ {0}, sets : SetNo]

\* Backend.reset over State.get_reset_model: the board of a new match.
ResetBoard == [sets     |-> [t \in Team |-> 0],
               score    |-> [t \in Team |-> [s \in SetNo |-> 0]],
               timeouts |-> [t \in Team |-> [s \in SetNo |-> 0]],
               serve    |-> 0,
               setNo    |-> 1]

SoftLimit(setsLimit) == setsLimit \div 2 + 1

MatchFinished(b, setsLimit) == \E t \in Team : b.sets[t] >= SoftLimit(setsLimit)

IsWinningScore(score, rival, limit) == score >= limit /\ score - rival > 1

GameLimit(rules, set) ==
  IF set = rules.sets THEN rules.lastPoints ELSE rules.points

SetWonBy(b, t, set, rules) ==
  IsWinningScore(b.score[t][set], b.score[Rival(t)][set], GameLimit(rules, set))

\* Naming team 0, or the team already serving unless forced, clears the serve.
ChangeServe(b, t, force) ==
  [b EXCEPT !.serve = IF t # 0 /\ (force \/ @ # t) THEN t ELSE 0]

AddSet(b, t, setsLimit) ==
  IF MatchFinished(b, setsLimit)
  THEN b
  ELSE ChangeServe([b EXCEPT !.sets[t] = @ + 1], 0, FALSE)

UndoSet(b, t) == [b EXCEPT !.sets[t] = IF @ > 0 THEN @ - 1 ELSE 0]

AddGame(b, t, set, rules) ==
  LET scored == [ChangeServe(b, t, TRUE) EXCEPT !.score[t][set] = @ + 1]
  IN  IF SetWonBy(scored, t, set, rules)
      THEN AddSet(scored, t, rules.sets)
      ELSE scored

\* Mutant: no falling back to the set that the point closed.
UndoTargetStays(b, t, set) == set

\* The set an undo takes its point from: the previous one when the team has
\* none in this one, because a set-winning point has already moved the match on.
UndoTarget(b, t, set) == IF b.score[t][set] = 0 /\ set > 1 THEN set - 1 ELSE set

Unscored(b, t, set) ==
  [ChangeServe(b, t, TRUE) EXCEPT
     !.score[t][UndoTarget(b, t, set)] = IF @ > 0 THEN @ - 1 ELSE 0]

\* add_game(undo=True) returns True: the point taken back had won its set.
UnwinsSet(b, t, set, rules) ==
  LET target == UndoTarget(b, t, set)
  IN  /\ SetWonBy(b, t, target, rules)
      /\ ~SetWonBy(Unscored(b, t, set), t, target, rules)

UndoGame(b, t, set, rules) ==
  IF UnwinsSet(b, t, set, rules)
  THEN UndoSet(Unscored(b, t, set), t)
  ELSE Unscored(b, t, set)

AddTimeout(b, t) == [b EXCEPT !.timeouts[t][b.setNo] = IF @ < 2 THEN @ + 1 ELSE @]

UndoTimeout(b, t) == [b EXCEPT !.timeouts[t][b.setNo] = IF @ > 0 THEN @ - 1 ELSE @]

SetGameValue(b, t, set, value) == [b EXCEPT !.score[t][set] = value]

SetSetsValue(b, t, value) == [b EXCEPT !.sets[t] = value]

\* check_set_won: the award goes through add_set without the session's
\* sets_limit, so it is the process-wide conf.sets that can refuse it.
CheckSetWon(b, t, set, rules) ==
  IF SetWonBy(b, t, set, rules) THEN AddSet(b, t, ConfSets) ELSE b

\* GameSession._compute_current_set
ComputeCurrentSet(b, setsLimit) ==
  LET played == b.sets[1] + b.sets[2]
                  + (IF MatchFinished(b, setsLimit) THEN 0 ELSE 1)
  IN  IF played < 1 THEN 1 ELSE IF played > setsLimit THEN setsLimit ELSE played

\* Mutant: the board keeps the set it was in.
SaveStale(b, set) == b

\* GameManager.save records the session's current set on the board.
Save(b, set) == [b EXCEPT !.setNo = set]
=============================================================================
