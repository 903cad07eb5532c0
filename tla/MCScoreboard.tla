---------------------------- MODULE MCScoreboard ----------------------------
(* Small instances of Scoreboard: sets to two points, matches of one or    *)
(* three sets, so that deuces, set ends and match ends are a few taps away. *)
EXTENDS Scoreboard

BestOf(n) == [points |-> 2, lastPoints |-> 2, sets |-> n]
BestOf1 == BestOf(1)
BestOf3 == BestOf(3)
BestOf1And3 == {BestOf1, BestOf3}
OnlyBestOf1 == {BestOf1}
OnlyBestOf3 == {BestOf3}
=============================================================================
