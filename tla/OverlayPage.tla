----------------------------- MODULE OverlayPage -----------------------------
(***************************************************************************)
(* The page an OBS browser source shows (overlay_static/js/app.js): every  *)
(* push of the board is compared with the one before and the difference is *)
(* animated, or, when the teams trade sides, the whole board is rendered   *)
(* again behind a fold.  Animations take time and pushes do not wait for   *)
(* them: the page keeps what it was told (last) at once and what it shows  *)
(* only later.  Time is counted in tenths of a second.                     *)
(*                                                                         *)
(* The board here is what the animations are about: the teams' points and  *)
(* sets, the side each is on, whether the scoreboard and the recap of a    *)
(* set are wanted.  Colours, logos, serve and labels are written with the  *)
(* name of their slot, and stand with it.                                  *)
(***************************************************************************)
EXTENDS Naturals, Sequences, FiniteSets

CONSTANTS
  SetsToWin,    \* _matchFinished: ceil(best_of_sets / 2)
  MaxPoints,    \* bound on the points of a team
  MaxPushes,    \* bound on the changes of the board
  FoldTime,     \* SWAP_TRANSITION_S, each half of a flip
  RollTime,     \* animatePoints
  ShowTime, HideTime,   \* applyScoreboardVisibility
  ShrinkTime    \* a cell of the set history leaving

\* All of an outage's two seconds are longer than any animation; a board takes longer
\* to show (0.8 s) than to hide and half a flip together (0.5 s and 0.28 s).
ASSUME PageAssumption ==
  /\ SetsToWin \in Nat \ {0} /\ MaxPoints \in Nat /\ MaxPushes \in Nat
  /\ {FoldTime, RollTime, ShowTime, HideTime, ShrinkTime} \subseteq 1..19
  /\ HideTime + FoldTime <= ShowTime

Team == {"home", "away"}
Slot == Team
Other(t) == CHOOSE u \in Team : u # t

Boards == [points : [Team -> 0..MaxPoints], sets : [Team -> 0..SetsToWin],
           swapped : BOOLEAN, show : BOOLEAN, recap : BOOLEAN]

VARIABLES
  board,      \* the server's state of the overlay
  pushes,     \* how often it has changed
  online,     \* the page has an open socket
  last,       \* previousRawState, or <<>> before the first push
  name, sets, points,   \* per slot: the team named, the text of its two numbers
  roll,       \* per slot: the number rolling in and the time it still takes
  fade,       \* time left of the youngest show and hide tweens of the board
  visible,    \* what the last tween to end left of the board
  flip,       \* the half of a flip under way, its time, view and target scale
  scale,      \* "full", or "part" for a panel stranded in the middle of a flip
  cells,      \* per cell of the history: 0, or the time until it is removed
  recapMode,  \* the body's set-summary-mode class
  panel,      \* opacity of the recap panel
  frame,      \* an animation frame that will raise the panel is requested
  glow,       \* the alerts running: <<kind, slot>>
  overlapped  \* history: an animation was overtaken since the last full render

texts == <<name, sets, points>>
dom == <<name, sets, points, roll, fade, visible, flip, scale, cells,
         recapMode, panel, frame, glow, overlapped>>
pageVars == <<board, pushes, online, last, dom>>

-----------------------------------------------------------------------------
(* Views: swappedTeamView exchanges the two teams before anything is drawn. *)

TeamIn(b, s) == IF b.swapped THEN Other(s) ELSE s

View(b) == [name   |-> [s \in Slot |-> TeamIn(b, s)],
            sets   |-> [s \in Slot |-> b.sets[TeamIn(b, s)]],
            points |-> [s \in Slot |-> b.points[TeamIn(b, s)]],
            show   |-> b.show, recap |-> b.recap]

TotalSets(v) == v.sets["home"] + v.sets["away"]
Over(v) == \E s \in Slot : v.sets[s] >= SetsToWin

\* One cell for each set before the current one; a match that is over stays in
\* its last set.
CellsWanted(v) == IF Over(v) THEN TotalSets(v) - 1 ELSE TotalSets(v)

Zero == [t \in Team |-> 0]
Still == [s \in Slot |-> [left |-> 0, text |-> 0]]
NoFlip == [half |-> "no", left |-> 0, view |-> <<>>, target |-> "full"]

AtRest ==
  /\ flip.half = "no" /\ \A s \in Slot : roll[s].left = 0
  /\ fade = [show |-> 0, hide |-> 0] /\ ~frame
  /\ \A i \in DOMAIN cells : cells[i] = 0

-----------------------------------------------------------------------------
(* Pieces of a render.  An animation that is still running is seldom stopped: *)
(* each piece says when it is overtaken by, or overtakes, another one.        *)

\* applyScoreboardVisibility adds a tween and stops none.
Fade(show) ==
  fade' = IF show THEN [fade EXCEPT !.show = ShowTime]
                  ELSE [fade EXCEPT !.hide = HideTime]

\* The younger tween ends first: the older one has the last word.
FadeOvertaken(show) == ~show /\ fade.show > HideTime

\* updateSetHistoryContainer: the cells there are, leaving or not, are used again;
\* surplus ones are removed, at once on a full render and by a tween otherwise.
Cells(n, initial) ==
  LET kept == IF Len(cells) > n /\ initial THEN SubSeq(cells, 1, n) ELSE cells
  IN  [i \in 1..(IF Len(kept) > n THEN Len(kept) ELSE n) |->
         IF i > Len(kept) THEN 0
         ELSE IF i > n /\ kept[i] = 0 THEN ShrinkTime ELSE kept[i]]

CellsOvertaken(n) == \E i \in DOMAIN cells : i <= n /\ cells[i] # 0

\* SetSummary.render raises the panel in the next animation frame; hide lowers it
\* at once and leaves a requested frame alone.
Recap(on) ==
  /\ recapMode' = on
  /\ panel' = (panel /\ on)
  /\ frame' = (frame \/ (on /\ ~panel))

RecapOvertaken(on) == ~on /\ frame

\* renderFullState writes every text where it finds the element: a number that is
\* still rolling in replaces the one written here.
RenderFull(v) ==
  /\ name' = v.name /\ sets' = v.sets /\ points' = v.points
  /\ Fade(v.show)
  /\ Recap(v.recap)
  /\ cells' = Cells(CellsWanted(v), TRUE)

FullOvertaken(v) ==
  \/ FadeOvertaken(v.show) \/ RecapOvertaken(v.recap)
  \/ CellsOvertaken(CellsWanted(v))
  \/ \E s \in Slot : roll[s].left > 0

-----------------------------------------------------------------------------
(* dispatchAlertTransitions: what rose between two views of one orientation.  *)

Alerts(old, new) ==
  {<<"set", s>> : s \in {z \in Slot : new.sets[z] > old.sets[z]}}
    \cup {<<"match", s>> : s \in {z \in Slot :
            /\ ~Over(old) /\ Over(new)
            /\ z = IF new.sets["home"] > new.sets["away"] THEN "home" ELSE "away"}}

DispatchAlerts(old, new) == glow' = glow \cup Alerts(old, new)

\* Mutant: the number that is rolling in is left to finish.
AnimateOnce(s, n) ==
  IF roll[s].left > 0 THEN roll[s] ELSE [left |-> RollTime, text |-> n]

\* animatePoints: whatever is rolling in is dropped for the new number.
AnimatePoints(s, n) == [left |-> RollTime, text |-> n]

DiffVisibility(old, new) ==
  IF old.show # new.show THEN Fade(new.show) ELSE UNCHANGED fade

DiffPoints(old, new) ==
  roll' = [s \in Slot |-> IF old.points[s] # new.points[s]
                          THEN AnimatePoints(s, new.points[s]) ELSE roll[s]]

DiffSets(old, new) ==
  /\ sets' = [s \in Slot |-> IF old.sets[s] # new.sets[s] THEN new.sets[s] ELSE sets[s]]
  /\ cells' = IF old.sets # new.sets THEN Cells(CellsWanted(new), FALSE) ELSE cells

\* A recap that stays is rendered again with every push.
DiffRecap(old, new) ==
  IF old.recap # new.recap \/ new.recap
  THEN Recap(new.recap)
  ELSE UNCHANGED <<recapMode, panel, frame>>

\* updateStateDiff, for two views of one orientation.
UpdateDiff(old, new) ==
  /\ DiffVisibility(old, new) /\ DiffPoints(old, new) /\ DiffSets(old, new)
  /\ DiffRecap(old, new) /\ DispatchAlerts(old, new)
  /\ overlapped' = (\/ overlapped
                    \/ old.show # new.show /\ FadeOvertaken(new.show)
                    \/ old.sets # new.sets /\ CellsOvertaken(CellsWanted(new))
                    \/ old.recap # new.recap /\ RecapOvertaken(new.recap))
  /\ UNCHANGED <<name, points, visible, flip, scale>>

\* The scale a flip finds, and will unfold to: zero reads as one.
ScaleNow ==
  CASE flip.half = "no" -> scale
    [] flip.half = "fold" /\ flip.left = FoldTime -> flip.target
    [] flip.half = "unfold" /\ flip.left = FoldTime -> "full"
    [] OTHER -> "part"

\* runSideSwapTransition: a hidden board is rendered at once, and leaves a flip
\* under way to its end; a visible one folds, and a flip under way is dropped.
SwapSides(new) ==
  IF new.show
  THEN /\ flip' = [half |-> "fold", left |-> FoldTime, view |-> new, target |-> ScaleNow]
       /\ UNCHANGED <<texts, roll, fade, visible, scale, cells, recapMode, panel, frame,
                      glow, overlapped>>
  ELSE /\ RenderFull(new)
       /\ scale' = "full"
       /\ overlapped' = FullOvertaken(new)
       /\ UNCHANGED <<roll, visible, flip, glow>>

\* processStateUpdate, for the state b.
Receive(b) ==
  /\ last' = b
  /\ IF last = <<>>
     THEN /\ RenderFull(View(b)) /\ overlapped' = FALSE
          /\ UNCHANGED <<roll, visible, flip, scale, glow>>
     ELSE IF b.swapped # last.swapped THEN SwapSides(View(b))
     ELSE UpdateDiff(View(last), View(b))

-----------------------------------------------------------------------------
(* The board changes; a page with a socket is told. *)

Change(b) ==
  /\ pushes < MaxPushes /\ b \in Boards
  /\ board' = b /\ pushes' = pushes + 1
  /\ IF online THEN Receive(b) ELSE UNCHANGED <<last, dom>>
  /\ UNCHANGED online

\* A point, one that makes the sides change with it (beach), a set, their undos
\* and a reset.
Score ==
  \E t \in Team :
    \/ Change([board EXCEPT !.points[t] = @ + 1])
    \/ Change([board EXCEPT !.points[t] = @ + 1, !.swapped = ~@])
    \/ board.points[t] > 0 /\ Change([board EXCEPT !.points[t] = @ - 1])
    \/ ~Over(board) /\ Change([board EXCEPT !.sets[t] = @ + 1, !.points = Zero])
    \/ board.sets[t] > 0 /\ Change([board EXCEPT !.sets[t] = @ - 1])
    \/ Change([board EXCEPT !.sets = Zero, !.points = Zero, !.recap = FALSE])

Operate ==
  \/ Change([board EXCEPT !.swapped = ~@])
  \/ Change([board EXCEPT !.show = ~@])
  \/ Change([board EXCEPT !.recap = ~@])

\* onclose: what the page shows and remembers stays as it is.
Disconnect ==
  /\ online /\ pushes < MaxPushes
  /\ online' = FALSE /\ pushes' = pushes + 1
  /\ UNCHANGED <<board, last, dom>>

\* Two seconds later, so that every animation has ended, the page connects again
\* and is sent the current state.
Reconnect ==
  /\ ~online /\ AtRest
  /\ online' = TRUE
  /\ Receive(board)
  /\ UNCHANGED <<board, pushes>>

\* A new style, or the streamer, loads the page again.
Reload ==
  /\ online /\ last # <<>> /\ pushes < MaxPushes
  /\ pushes' = pushes + 1
  /\ online' = FALSE /\ last' = <<>>
  /\ name' = [s \in Slot |-> s]
  /\ sets' = Zero /\ points' = Zero
  /\ roll' = Still
  /\ fade' = [show |-> 0, hide |-> 0] /\ visible' = FALSE
  /\ flip' = NoFlip /\ scale' = "full" /\ cells' = <<>>
  /\ recapMode' = FALSE /\ panel' = FALSE /\ frame' = FALSE
  /\ glow' = {} /\ overlapped' = FALSE
  /\ UNCHANGED board

-----------------------------------------------------------------------------
(* Time *)

Less(n) == IF n = 0 THEN 0 ELSE n - 1

\* The tweens that end in this tick, in the order they were begun: numbers that
\* have rolled in, cells that have left, fades; then the flip, the youngest.
Rolled(s) == roll[s].left = 1
PointsAfter == [s \in Slot |-> IF Rolled(s) THEN roll[s].text ELSE points[s]]
RollAfter == [s \in Slot |-> [left |-> Less(roll[s].left), text |-> IF roll[s].left <= 1 THEN 0 ELSE roll[s].text]]
Staying == {i \in DOMAIN cells : cells[i] # 1}
Rank(i) == Cardinality({j \in Staying : j <= i})
CellsAfter == [k \in 1..Cardinality(Staying) |-> Less(cells[CHOOSE i \in Staying : Rank(i) = k])]
FadeAfter == [show |-> Less(fade.show), hide |-> Less(fade.hide)]
VisibleAfter == IF fade.hide = 1 THEN FALSE ELSE IF fade.show = 1 THEN TRUE ELSE visible

\* Time passes and no flip changes half.
Tick ==
  /\ \/ flip.left > 1
     \/ flip.half = "no" /\ \/ \E s \in Slot : roll[s].left > 0
                            \/ fade # [show |-> 0, hide |-> 0]
                            \/ \E i \in DOMAIN cells : cells[i] # 0
  /\ points' = PointsAfter /\ roll' = RollAfter
  /\ cells' = CellsAfter /\ fade' = FadeAfter /\ visible' = VisibleAfter
  /\ flip' = [flip EXCEPT !.left = Less(@)]
  /\ UNCHANGED <<board, pushes, online, last, name, sets, scale, recapMode, panel,
                 frame, glow, overlapped>>

\* The fold is over: the view it was begun with is rendered, whatever was pushed
\* meanwhile, and the board unfolds to the scale the flip found.
Folded ==
  LET v == flip.view
      rolling == \E s \in Slot : roll[s].left > 1
  IN
  /\ flip.half = "fold" /\ flip.left = 1
  /\ name' = v.name /\ sets' = v.sets /\ points' = v.points
  /\ roll' = RollAfter
  /\ fade' = [FadeAfter EXCEPT !.show = ShowTime] /\ visible' = VisibleAfter
  /\ Recap(v.recap)
  /\ LET c == CellsAfter n == CellsWanted(v)
     IN cells' = [i \in 1..n |-> IF i <= Len(c) THEN c[i] ELSE 0]
  /\ scale' = "full"
  /\ flip' = [flip EXCEPT !.half = "unfold", !.left = FoldTime]
  /\ overlapped' = (\/ v # View(last) \/ rolling \/ flip.target = "part"
                    \/ RecapOvertaken(v.recap)
                    \/ \E i \in DOMAIN CellsAfter : i <= CellsWanted(v) /\ CellsAfter[i] # 0)
  /\ UNCHANGED <<board, pushes, online, last, glow>>

Unfolded ==
  /\ flip.half = "unfold" /\ flip.left = 1
  /\ scale' = flip.target /\ flip' = NoFlip
  /\ points' = PointsAfter /\ roll' = RollAfter
  /\ cells' = CellsAfter /\ fade' = FadeAfter /\ visible' = VisibleAfter
  /\ UNCHANGED <<board, pushes, online, last, name, sets, recapMode, panel,
                 frame, glow, overlapped>>

\* The requested animation frame raises the panel, whether or not it is wanted.
Frame ==
  /\ frame /\ frame' = FALSE /\ panel' = TRUE
  /\ UNCHANGED <<board, pushes, online, last, texts, roll, fade, visible, flip,
                 scale, cells, recapMode, glow, overlapped>>

\* The timer of an alert takes its class off the panel again.
GlowEnds ==
  /\ \E g \in glow : glow' = glow \ {g}
  /\ UNCHANGED <<board, pushes, online, last, texts, roll, fade, visible, flip,
                 scale, cells, recapMode, panel, frame, overlapped>>

-----------------------------------------------------------------------------
PageInit ==
  /\ board = [points |-> Zero, sets |-> Zero,
              swapped |-> FALSE, show |-> TRUE, recap |-> FALSE]
  /\ pushes = 0 /\ online = FALSE /\ last = <<>>
  /\ name = [s \in Slot |-> s]
  /\ sets = Zero /\ points = Zero
  /\ roll = Still
  /\ fade = [show |-> 0, hide |-> 0] /\ visible = FALSE
  /\ flip = NoFlip /\ scale = "full" /\ cells = <<>>
  /\ recapMode = FALSE /\ panel = FALSE /\ frame = FALSE
  /\ glow = {} /\ overlapped = FALSE

PageNext ==
  \/ Score \/ Operate \/ Disconnect \/ Reconnect \/ Reload
  \/ Tick \/ Folded \/ Unfolded \/ Frame \/ GlowEnds

PageSpec == PageInit /\ [][PageNext]_pageVars

-----------------------------------------------------------------------------
\* What the page shows once nothing moves.
Shows(v) ==
  /\ name = v.name /\ sets = v.sets /\ points = v.points
  /\ visible = v.show /\ scale = "full"
  /\ cells = [i \in 1..CellsWanted(v) |-> 0]
  /\ recapMode = v.recap /\ panel = v.recap

\* At rest the page shows the last state it was sent, unless one animation has
\* overtaken another since it was last rendered in full.  Every way that this
\* can happen is named above, by an operator ending in Overtaken or in Folded.
PageAgrees == AtRest /\ last # <<>> /\ ~overlapped => Shows(View(last))

\* An alert starts on the panel of a team that has just won a set, or the match,
\* and on no other, whichever side the team is on when it does.
AlertsFollowTheTeam ==
  \A s \in Slot :
    LET t == name[s] IN
    /\ <<"set", s>> \in glow' \ glow /\ ~overlapped /\ flip.half = "no"
         => last'.sets[t] > last.sets[t]
    /\ <<"match", s>> \in glow' \ glow /\ ~overlapped /\ flip.half = "no"
         => last'.sets[t] >= SetsToWin
=============================================================================
