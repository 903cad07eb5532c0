--------------------------- MODULE BoardControls ---------------------------
(***************************************************************************)
(* How an operator's fingers become calls: the buttons of the board, which *)
(* tell a tap from two and from a long press (frontend hooks/              *)
(* useDoubleTap.ts), the handlers behind them (useScoreActions.ts,         *)
(* useSetValueDialog.ts), the dialogs those open, and the keyboard         *)
(* shortcuts beside them (useKeyboardShortcuts.ts, App.tsx).  Calls leave  *)
(* through out; the board is what the server has last pushed.  Time is     *)
(* counted in ticks, within which anything may come first.                 *)
(*                                                                         *)
(* A button may be held by several hands at once: fingers, a mouse, a key. *)
(* A device has fingers or a mouse: touchActive, which keeps out the mouse *)
(* events that browsers make of touches, is left out.                      *)
(***************************************************************************)
EXTENDS Naturals, Sequences, FiniteSets

CONSTANTS
  None,
  Buttons,       \* <<team, kind>>, the kinds being "score", "timeout" and "sets"
  Fingers,       \* the hands that are fingers; the others are "mouse" and "key"
  DoubleTap,     \* DOUBLE_TAP_MS in ticks
  LongPress,     \* LONG_PRESS_MS in ticks
  AllSettings,   \* the settings that operators have chosen
  BoardStates,   \* the states of the board
  MaxPresses,    \* bound on presses, and on releases that count for themselves
  MaxOthers      \* bound on what happens beside presses

Pickers == [team : {b[1] : b \in Buttons}, press : Nat, step : {"main", "error"}]

\* None is nothing that it stands beside.
ASSUME ControlsAssumption ==
  /\ DoubleTap \in Nat /\ LongPress \in Nat /\ 1 < DoubleTap /\ DoubleTap < LongPress
  /\ MaxPresses \in Nat /\ MaxOthers \in Nat
  /\ \A b \in Buttons : b[2] \in {"score", "timeout", "sets"}
  /\ Fingers \cap {"mouse", "key"} = {}
  /\ \A s \in AllSettings :
       /\ s.hands \subseteq Fingers \cup {"mouse", "key"}
       /\ "mouse" \in s.hands => s.hands \cap Fingers = {}
  /\ None \notin Nat /\ None \notin Buttons /\ None \notin Pickers

VARIABLES
  hooks,      \* of each button, what its useDoubleTap remembers
  grips,      \* the hands that hold a button down, a key being keyActive
  timers,     \* taps that wait for a second one
  settings,   \* trackPointTypes, extendedErrorTracking, autoSimple, keyboardShortcuts; the hands
  board,      \* the state shown
  tab,        \* "scoreboard" or "config"
  modals,     \* the dialogs that own the focus
  dialog,     \* what the value dialog is about
  picker,     \* pointPickerTeam and the picker's step
  asked,      \* stalePromptFiredRef
  out,        \* what the last step has called
  others,     \* what has happened beside presses
  presses,    \* history: of each press, its button, how it came and what came of it
  overtaken   \* history: taps that an older tap's timer made the hook forget

shown == <<settings, board, tab, asked>>
opened == <<modals, dialog, picker>>
past == <<others, presses, overtaken>>
controlVars == <<hooks, grips, timers, shown, opened, out, past>>

Doubles(b) == b[2] \in {"score", "timeout"}
Longs(b) == b[2] \in {"score", "sets"}

\* lastTapTime as the time since, which beyond DoubleTap is all one.
FreshHook == [press |-> None, long |-> FALSE, since |-> DoubleTap, pending |-> FALSE, single |-> None]

\* A dialog covers the page and takes the focus.
Covered == modals # {} \/ picker # None

Call(op, team) == [op |-> op, team |-> team]

-----------------------------------------------------------------------------
(* What came of a press *)

Mark(ps, i, fate) == IF i \in DOMAIN ps THEN [ps EXCEPT ![i].fate = fate] ELSE ps
Comes(ps, b, way) == Append(ps, [button |-> b, way |-> way, fate |-> "down", strayed |-> FALSE])

\* The press of the button that has not been answered.
Down(b) == {i \in DOMAIN presses : presses[i].button = b /\ presses[i].fate = "down"}
Resolve(b, fate) == [i \in DOMAIN presses |-> IF i \in Down(b) THEN [presses[i] EXCEPT !.fate = fate] ELSE presses[i]]

\* A press while a hand is still on the button is its latest from then on.
Begun(b) == Comes(Resolve(b, "overlaid"), b, IF grips[b] = {} THEN "plain" ELSE "beside")

-----------------------------------------------------------------------------
(* The handlers *)

\* commitPoint
Point(team) ==
  {Call("point", team)} \cup
  (IF settings.auto /\ ~board.simple THEN {Call("simple on", None)} ELSE {})

\* Of handleAddTimeout and handleAddSet, and of a point that is not asked about.
Forward(b) ==
  CASE b[2] = "score" -> Point(b[1])
    [] b[2] = "timeout" -> {Call("timeout", b[1])} \cup
         (IF settings.auto /\ board.simple THEN {Call("simple off", None)} ELSE {})
    [] b[2] = "sets" -> {Call("set", b[1])}

\* onClick, when it fires: the handlers read the latest state, not that of the press.
Tapped(b, i, ps) ==
  \/ /\ board.finished
     /\ presses' = Mark(ps, i, "void") /\ out' = {} /\ UNCHANGED picker
  \/ /\ ~board.finished /\ b[2] = "score" /\ settings.track
     /\ picker' = [team |-> b[1], press |-> i, step |-> IF picker = None THEN "main" ELSE picker.step]
     /\ presses' = Mark(IF picker = None THEN ps ELSE Mark(ps, picker.press, "replaced"), i, "asked")
     /\ out' = {}
  \/ /\ ~board.finished /\ ~(b[2] = "score" /\ settings.track)
     /\ out' = Forward(b)
     /\ presses' = Mark(ps, i, "sent") /\ UNCHANGED picker

\* handleDoubleTapScore and handleDoubleTapTimeout
Undo(b) == {Call(IF b[2] = "score" THEN "undo point" ELSE "undo timeout", b[1])}

\* handleLongPressScore and handleLongPressSet
Ask(b) ==
  /\ modals' = modals \cup {"value"}
  /\ dialog' = [team |-> b[1], sets |-> b[2] = "sets"]

-----------------------------------------------------------------------------
(* The press gestures of useDoubleTap *)

\* Whether the press is quick: gap > 0 is of milliseconds, of which a tick has many.
Quick(b) == Doubles(b) /\ hooks[b].since < DoubleTap
Haste(b) == {q \in BOOLEAN : (q => Quick(b)) /\ (~q => ~Quick(b) \/ hooks[b].since = 0)}

\* Mutant: the first tap of two goes on waiting.
BeginKeeping(b, q) ==
  /\ hooks' = [hooks EXCEPT ![b] = [@ EXCEPT !.press = IF Longs(b) THEN LongPress ELSE None, !.long = FALSE,
                                             !.since = 0, !.pending = q]]
  /\ presses' = Begun(b) /\ UNCHANGED timers

\* beginPress, which does not ask whether the button is held already.
Begin(b, q) ==
  LET h == hooks[b]
      cleared == {t \in timers : q /\ t.mounted /\ t.button = b /\ t.press = h.single}
  IN /\ hooks' = [hooks EXCEPT ![b] = [press   |-> IF Longs(b) THEN LongPress ELSE None,
                                       long    |-> FALSE,
                                       since   |-> 0,
                                       pending |-> q,
                                       single  |-> IF q THEN None ELSE h.single]]
     /\ timers' = timers \ cleared
     /\ presses' = IF cleared = {} THEN Begun(b) ELSE Mark(Begun(b), h.single, "half")

Pressable(b) == tab = "scoreboard" /\ ~Covered /\ Len(presses) < MaxPresses

\* A hand is in one place; a mouse has several buttons.
Within(hand, b) == \A c \in Buttons : hand \in grips[c] => hand = "mouse" /\ c = b

Takes(b, hand) == grips' = [grips EXCEPT ![b] = @ \cup {hand}]
LetsGo(b, hand) == grips' = [grips EXCEPT ![b] = @ \ {hand}]

\* touchstart and mousedown on a button, which a swipe does not begin on.
Press(b, hand) ==
  /\ hand \in settings.hands \ {"key"} /\ Pressable(b) /\ Within(hand, b)
  /\ Takes(b, hand)
  /\ \E q \in Haste(b) : Begin(b, q)
  /\ out' = {} /\ UNCHANGED <<shown, opened, overtaken>>

Listening == settings.keys /\ modals = {} /\ tab = "scoreboard"

\* keydown of Enter or Space, of which the other may be down: the shortcut of Space
\* hears it too.
KeyDown(b, space) ==
  /\ "key" \in settings.hands /\ Pressable(b)
  /\ Takes(b, "key")
  /\ \E q \in Haste(b) : Begin(b, q)
  /\ out' = IF space /\ Listening /\ ~board.started THEN {Call("start", None)} ELSE {}
  /\ UNCHANGED <<shown, opened, overtaken>>

\* cancelPress
Cancelled(b) == hooks' = [hooks EXCEPT ![b].press = None, ![b].pending = FALSE]
Slid(b) == [i \in DOMAIN presses |-> [presses[i] EXCEPT !.strayed = @ \/ i \in Down(b)]]

\* touchmove: the release is still to come.
Stray(b, hand) ==
  /\ hand \in Fingers \cap grips[b]
  /\ Cancelled(b) /\ presses' = Slid(b)
  /\ out' = {} /\ UNCHANGED <<grips, timers, shown, opened, overtaken>>

\* touchcancel, or mouseleave, with a button of the mouse down or without.
Gone(b, hand) ==
  /\ \/ hand \in Fingers \cap grips[b]
     \/ hand = "mouse" /\ hand \in settings.hands /\ tab = "scoreboard" /\ Within(hand, b)
  /\ LetsGo(b, hand)
  /\ Cancelled(b)
  /\ presses' = IF grips[b] \ {hand} = {} THEN Resolve(b, "cancelled") ELSE Slid(b)
  /\ out' = {} /\ UNCHANGED <<timers, shown, opened, overtaken>>

\* A dialog has opened under the mouse: the button does not hear of its release.  Nor of
\* that of a key, which keyActive goes on remembering.
Unheard(b) ==
  /\ "mouse" \in grips[b] /\ Covered /\ LetsGo(b, "mouse")
  /\ out' = {} /\ UNCHANGED <<hooks, timers, presses, shown, opened, overtaken>>

\* A release is of the press that has not been answered; without one it counts for itself.
Heard(b) == IF Down(b) = {} THEN Comes(presses, b, "loose") ELSE presses
HeardAt(b) == IF Down(b) = {} THEN Len(presses) + 1 ELSE CHOOSE i \in Down(b) : TRUE

Released(h) == [h EXCEPT !.press = None, !.pending = FALSE, !.since = DoubleTap]

\* finishPress
FinishPress(b) ==
  LET h == hooks[b]
      ps == Heard(b)
      i == HeardAt(b)
      still == [h EXCEPT !.press = None]
  IN \/ /\ h.long
        /\ hooks' = [hooks EXCEPT ![b] = still]
        /\ out' = {} /\ UNCHANGED <<timers, presses, picker>>
     \/ /\ ~h.long /\ h.pending
        /\ hooks' = [hooks EXCEPT ![b] = Released(h)]
        /\ out' = Undo(b) /\ presses' = Mark(ps, i, "undo") /\ UNCHANGED <<timers, picker>>
     \/ /\ ~h.long /\ ~h.pending /\ Doubles(b)
        /\ hooks' = [hooks EXCEPT ![b] = [still EXCEPT !.single = i]]
        /\ timers' = timers \cup {[button |-> b, press |-> i, left |-> DoubleTap, mounted |-> TRUE]}
        /\ out' = {} /\ presses' = Mark(ps, i, "waiting") /\ UNCHANGED picker
     \/ /\ ~h.long /\ ~h.pending /\ ~Doubles(b)
        /\ hooks' = [hooks EXCEPT ![b] = still]
        /\ Tapped(b, i, ps) /\ UNCHANGED timers

\* touchend, mouseup and keyup.  A finger is heard by the button that it came down on and
\* a key if keyActive; a mouse by the button that it is over, wherever it came down.
Release(b, hand) ==
  /\ \/ hand \in Fingers \cap grips[b]
     \/ hand = "mouse" /\ hand \in settings.hands /\ Within(hand, b) /\ tab = "scoreboard" /\ ~Covered
     \/ hand = "key" /\ hand \in grips[b] /\ ~Covered
  /\ hooks[b].long \/ Len(Heard(b)) <= MaxPresses
  /\ LetsGo(b, hand)
  /\ FinishPress(b)
  /\ UNCHANGED <<shown, modals, dialog, overtaken>>

\* singleTapTimer runs out, and clears the reference to whichever is the latest.
TapFires(t) ==
  LET single == hooks[t.button].single IN
  /\ t.left = 0 /\ timers' = timers \ {t}
  /\ hooks' = IF t.mounted THEN [hooks EXCEPT ![t.button].single = None] ELSE hooks
  /\ overtaken' = IF t.mounted THEN overtaken \cup ({single} \ {None, t.press}) ELSE overtaken
  /\ Tapped(t.button, t.press, presses)
  /\ UNCHANGED <<grips, shown, modals, dialog>>

\* pressTimer runs out.
LongFires(b) ==
  LET h == hooks[b] IN
  /\ h.press = 0
  /\ hooks' = [hooks EXCEPT ![b] = [press |-> None, long |-> TRUE, since |-> DoubleTap,
                                    pending |-> FALSE, single |-> None]]
  /\ timers' = {t \in timers : ~(t.mounted /\ t.button = b /\ t.press = h.single)}
  /\ presses' = Mark(Resolve(b, "long"), h.single, "half")
  /\ Ask(b) /\ out' = {}
  /\ UNCHANGED <<grips, shown, picker, overtaken>>

Later(n) == IF n = None THEN None ELSE n - 1

Tick ==
  /\ \A t \in timers : t.left # 0
  /\ \A b \in Buttons : hooks[b].press # 0
  /\ \E b \in Buttons : hooks[b].press # None \/ hooks[b].since < DoubleTap \/ timers # {}
  /\ timers' = {[t EXCEPT !.left = @ - 1] : t \in timers}
  /\ hooks' = [b \in Buttons |->
       [hooks[b] EXCEPT !.press = Later(@), !.since = IF @ < DoubleTap THEN @ + 1 ELSE @]]
  /\ out' = {} /\ UNCHANGED <<grips, shown, opened, presses, overtaken>>

-----------------------------------------------------------------------------
(* Dialogs *)

\* handleDialogSubmit: the set is the one that is being played by now.
Submit ==
  /\ "value" \in modals /\ modals' = modals \ {"value"} /\ dialog' = None
  /\ out' = {IF dialog.sets THEN Call("set sets", dialog.team)
             ELSE [op |-> "set score", team |-> dialog.team, set |-> board.set]}
  /\ UNCHANGED <<hooks, grips, timers, shown, picker, presses, overtaken>>

\* The OK of the two that ask for a reset.
ConfirmReset ==
  /\ \E m \in modals \cap {"reset", "stale"} : modals' = modals \ {m}
  /\ out' = {Call("reset", None)}
  /\ UNCHANGED <<hooks, grips, timers, shown, dialog, picker, presses, overtaken>>

Cancel ==
  /\ \E m \in modals : modals' = modals \ {m} /\ dialog' = IF m = "value" THEN None ELSE dialog
  /\ out' = {} /\ UNCHANGED <<hooks, grips, timers, shown, picker, presses, overtaken>>

\* PointTypePicker: a point, typed or not; the causes of an error come a step later.
Pick ==
  /\ picker # None /\ picker' = None
  /\ out' = Point(picker.team) /\ presses' = Mark(presses, picker.press, "sent")
  /\ UNCHANGED <<hooks, grips, timers, shown, modals, dialog, overtaken>>

Step ==
  /\ picker # None /\ settings.extended
  /\ picker' = [picker EXCEPT !.step = IF @ = "main" THEN "error" ELSE "main"]
  /\ out' = {} /\ UNCHANGED <<hooks, grips, timers, shown, modals, dialog, presses, overtaken>>

\* Escape closes every dialog, each of which listens for it; the backdrop one.
Escape ==
  /\ Covered /\ picker' = None
  /\ \/ modals' = {} /\ dialog' = None
     \/ picker # None /\ UNCHANGED <<modals, dialog>>
  /\ presses' = IF picker = None THEN presses ELSE Mark(presses, picker.press, "closed")
  /\ out' = {} /\ UNCHANGED <<hooks, grips, timers, shown, overtaken>>

-----------------------------------------------------------------------------
(* Shortcuts, the bar of buttons, the tabs and the server *)

\* A, B, Q and P.  The point-type picker is no dialog that stops them.
Shortcut(b) ==
  /\ Listening /\ b[2] # "sets" /\ Len(presses) < MaxPresses
  /\ Tapped(b, Len(presses) + 1, Comes(presses, None, "plain"))
  /\ UNCHANGED <<hooks, grips, timers, shown, modals, dialog, overtaken>>

\* The other shortcuts, and the buttons that do the same.
Operate ==
  /\ tab = "scoreboard" /\ (Listening \/ ~Covered)
  /\ \/ board.undo /\ out' = {Call("undo", None)} /\ UNCHANGED modals
     \/ ~board.started /\ out' = {Call("start", None)} /\ UNCHANGED modals
     \/ out' = {Call(IF board.simple THEN "simple off" ELSE "simple on", None)} /\ UNCHANGED modals
     \/ modals' = modals \cup {"help"} /\ out' = {}
  /\ UNCHANGED <<hooks, grips, timers, shown, dialog, picker, presses, overtaken>>

\* handleReset, the face of the start button once there is something to reset.
AskReset ==
  /\ tab = "scoreboard" /\ ~Covered /\ (board.started \/ board.finished)
  /\ modals' = modals \cup {"reset"}
  /\ out' = {} /\ UNCHANGED <<hooks, grips, timers, shown, dialog, picker, presses, overtaken>>

\* The server pushes another state; one whose set began long ago is asked about once.
Push ==
  /\ board' \in BoardStates \ {board}
  /\ \E stale \in BOOLEAN :
       /\ stale => ~asked /\ ~board'.finished
       /\ asked' = (asked \/ stale)
       /\ modals' = IF stale THEN modals \cup {"stale"} ELSE modals
  /\ out' = {}
  /\ UNCHANGED <<hooks, grips, timers, settings, tab, dialog, picker, presses, overtaken>>

Referenced(t) == t.mounted /\ t.press = hooks[t.button].single

\* By a swipe beside the buttons or by the settings button: the buttons are unmounted,
\* and what their hooks refer to is cleared.
OpenConfig ==
  /\ tab = "scoreboard" /\ ~Covered /\ tab' = "config"
  /\ timers' = {[t EXCEPT !.mounted = FALSE] : t \in {u \in timers : ~Referenced(u)}}
  /\ presses' = [i \in DOMAIN presses |->
       IF \/ presses[i].fate = "down"
          \/ \E t \in timers : t.press = i /\ Referenced(t)
       THEN [presses[i] EXCEPT !.fate = "unmounted"] ELSE presses[i]]
  /\ hooks' = [b \in Buttons |-> FreshHook] /\ grips' = [b \in Buttons |-> {}]
  /\ out' = {} /\ UNCHANGED <<settings, board, asked, opened, overtaken>>

CloseConfig ==
  /\ tab = "config" /\ ~Covered /\ tab' = "scoreboard"
  /\ out' = {}
  /\ UNCHANGED <<hooks, grips, timers, settings, board, asked, opened, presses, overtaken>>

-----------------------------------------------------------------------------
ControlsInit ==
  /\ hooks = [b \in Buttons |-> FreshHook] /\ grips = [b \in Buttons |-> {}] /\ timers = {}
  /\ settings \in AllSettings /\ board \in BoardStates /\ tab = "scoreboard"
  /\ modals = {} /\ dialog = None /\ picker = None
  /\ asked = FALSE /\ out = {} /\ others = 0 /\ presses = <<>> /\ overtaken = {}

OnButton(b) ==
  \/ \E space \in BOOLEAN : KeyDown(b, space)
  \/ \E hand \in settings.hands :
       Press(b, hand) \/ Stray(b, hand) \/ Gone(b, hand) \/ Release(b, hand)
  \/ Unheard(b) \/ LongFires(b) \/ Shortcut(b)

Gestures ==
  \/ \E b \in Buttons : OnButton(b)
  \/ \E t \in timers : TapFires(t)
  \/ Tick

Dialogs == Submit \/ ConfirmReset \/ Cancel \/ Pick \/ Step \/ Escape

Beside == Operate \/ AskReset \/ Push \/ OpenConfig

ControlsNext ==
  \/ (Gestures \/ Dialogs \/ CloseConfig) /\ UNCHANGED others
  \/ Beside /\ others < MaxOthers /\ others' = others + 1

ControlsSpec == ControlsInit /\ [][ControlsNext]_controlVars

-----------------------------------------------------------------------------
\* Two presses of a button with none of it between them.
Follow(i, j) ==
  /\ i < j /\ presses[i].button = presses[j].button
  /\ \A k \in (i + 1)..(j - 1) : presses[k].button # presses[i].button

\* Every press counts once.  An undo is of two taps of which the first is not also a
\* point, and a tap that gave way to a second one gave way to an undo, unless the
\* second was held for long, slid, was taken away or pressed over.  The taps that wait are
\* those with a timer, and the one asked about is the picker's.  A release counts for
\* itself only when another hand pressed a button that was held, or when a mouse may
\* have come down elsewhere.  Named exception: the timer of an older tap that runs out
\* after a younger one has begun to wait makes the hook forget the younger, which then
\* counts beside the undo it is part of.
TapsAreAccounted ==
  \A i \in DOMAIN presses :
    LET fate == presses[i].fate IN
    /\ fate = "undo" => \E j \in DOMAIN presses :
         Follow(j, i) /\ (presses[j].fate \in {"half", "cancelled", "overlaid"} \/ j \in overtaken)
    /\ fate = "half" => \E j \in DOMAIN presses :
         /\ Follow(i, j)
         /\ presses[j].fate \in {"down", "undo", "long", "cancelled", "overlaid", "unmounted"}
            \/ presses[j].strayed
    /\ fate = "waiting" <=> \E t \in timers : t.press = i
    /\ fate = "asked" <=> picker # None /\ picker.press = i
    /\ presses[i].way = "loose" => "mouse" \in settings.hands \/ \E j \in 1..(i - 1) :
         presses[j].button = presses[i].button /\ presses[j].way = "beside"
=============================================================================
