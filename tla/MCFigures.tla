------------------------------ MODULE MCFigures ------------------------------
(* Best of three to four points, the decider to three. *)
EXTENDS MatchFigures

ToFour == [points |-> 4, lastPoints |-> 3, sets |-> 3]
=============================================================================
