-------------------------- MODULE ScoreboardReplay --------------------------
(***************************************************************************)
(* The board as a function of the log: the forwards an undo has not taken  *)
(* back, played again from an empty board.  When the two agree after every *)
(* prefix the scoreboard implements UndoStack.                             *)
(***************************************************************************)
EXTENDS MCScoreboard

\* Point by point, set by set: who serves is not part of what an undo restores
\* (add_game gives the serve to the team whose point it takes back).
Tally(b, set) == [sets |-> b.sets, score |-> b.score, set |-> set]

Tallies == [sets  : [Team -> Nat], score : [Team -> [SetNo -> Nat]], set : SetNo]

\* A board, its current set, and what was shown before each record played so far.
Position == [board : Board, set : SetNo, past : Seq(Tallies)]
Start == [board |-> ResetBoard, set |-> 1, past |-> <<>>]

\* A forward record played on a position, under the limits the session began with.
BoardAfter(p, record) ==
  CASE record.action = "add_point"   -> AddGame(p.board, record.team, p.set, InitialRules)
    [] record.action = "add_set"     -> AddSet(p.board, record.team, InitialRules.sets)
    [] record.action = "add_timeout" -> AddTimeout(p.board, record.team)

Replay(record) ==
  [p \in Position |->
     LET set == ComputeCurrentSet(BoardAfter(p, record), InitialRules.sets)
     IN  [board |-> Save(BoardAfter(p, record), set), set |-> set,
          past |-> Append(p.past, Tally(p.board, p.set))]]

Stands(record) == record.visible /\ ~record.undo

\* The position after each prefix of a log, of which only the records that stand count.
Played(l) ==
  LET after[n \in 0..Len(l)] ==
        IF n = 0 THEN Start
        ELSE IF Stands(l[n]) THEN Replay(l[n])[after[n - 1]] ELSE after[n - 1]
  IN  after

Stack == INSTANCE UndoStack WITH
  Positions <- Tallies,
  Fresh     <- Tally(ResetBoard, 1),
  present   <- Tally(board, curSet),
  past      <- Played(log)[Len(log)].past

\* The scoreboard is an undo stack over its points and sets: what undo_last
\* relies on when it lets the log choose what to take back.
UndoRestoresTheTally == Stack!Spec
=============================================================================
