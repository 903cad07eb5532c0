------------------------------- MODULE MCTaps -------------------------------
(***************************************************************************)
(* From fingers to boards.  Either two tabs, each with its own gesture, or *)
(* the hands of one operator on three buttons: two fingers, a mouse, or    *)
(* the keys, with the point-type picker; a behaviour is of one of the two, *)
(* and the other stays as it began.                                        *)
(***************************************************************************)
EXTENDS RevisionProtocol, BoardControls, TLC

CONSTANTS c1, c2, p1, p2

VARIABLE part   \* the one that this behaviour is of

TwoOwners == (p1 :> c1) @@ (p2 :> c2)

ThreeButtons == {<<1, "score">>, <<2, "timeout">>, <<2, "sets">>}
ThreeHands ==
  {[track |-> FALSE, extended |-> FALSE, auto |-> TRUE, keys |-> FALSE, hands |-> {"f1", "f2"}],
   [track |-> FALSE, extended |-> FALSE, auto |-> TRUE, keys |-> FALSE, hands |-> {"mouse"}],
   [track |-> TRUE, extended |-> TRUE, auto |-> FALSE, keys |-> TRUE, hands |-> {"key"}]}
TwoStates ==
  {[set |-> 1, finished |-> FALSE, started |-> FALSE, undo |-> FALSE, simple |-> FALSE],
   [set |-> 2, finished |-> TRUE, started |-> TRUE, undo |-> TRUE, simple |-> TRUE]}

\* Nobody has pressed anything.
NoFingers ==
  /\ hooks = None /\ grips = None /\ settings = None /\ board = None /\ tab = None
  /\ modals = None /\ dialog = None /\ asked = None /\ out = None /\ others = None
  /\ overtaken = None /\ picker = None /\ timers = {} /\ presses = <<>>

TapsInit ==
  /\ Init
  /\ \/ part = "tabs" /\ NoFingers
     \/ /\ part = "fingers" /\ ControlsInit
        /\ board.finished = ("key" \in settings.hands)

TapsNext ==
  \/ part = "tabs" /\ Next /\ UNCHANGED <<part, controlVars>>
  \/ part = "fingers" /\ ControlsNext /\ UNCHANGED <<part, vars>>
  \* An operator may rest.
  \/ part = "fingers" /\ UNCHANGED <<part, vars, controlVars>>

TapsSpec == TapsInit /\ [][TapsNext]_<<part, vars, controlVars>>

\* Nothing depends on what the last step has called.
Seen == <<part, vars, hooks, grips, timers, settings, board, tab, modals, dialog, picker, asked, others, presses, overtaken>>
=============================================================================
