----------------------------- MODULE UndoStack -----------------------------
(***************************************************************************)
(* What an undo promises its operator: every action can be taken back, in  *)
(* reverse order, and taking it back restores what was there before it.    *)
(***************************************************************************)
EXTENDS SequencesExt

CONSTANTS Positions,  \* what the board can show
          Fresh       \* what it shows when a match starts

VARIABLES present,  \* what it shows now
          past      \* what it showed before each action not yet undone

Init == present = Fresh /\ past = <<>>

Do == /\ past' = Append(past, present)
      /\ present' \in Positions

Undo == /\ past # <<>>
        /\ present' = Last(past)
        /\ past' = Front(past)

Clear == present' = Fresh /\ past' = <<>>

Next == Do \/ Undo \/ Clear

Spec == Init /\ [][Next]_<<present, past>>
=============================================================================
