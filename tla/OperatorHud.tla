---------------------------- MODULE OperatorHud ----------------------------
(***************************************************************************)
(* What an operator's screen shows about the board apart from the score:   *)
(* the bar of controls, which hides by itself while a match is on          *)
(* (useHudVisibility.ts), the alert at the midpoint of the deciding set    *)
(* (useIndoorMidpointAlert.ts), and the pill that says the connection is   *)
(* gone (ConnectionStatus.tsx).  React runs an effect after the render     *)
(* that it belongs to, so that a timer or a tap may come between.          *)
(***************************************************************************)
EXTENDS Integers

CONSTANTS
  Modes, Limits,   \* mode and sets_limit of the boards
  Targets,    \* points_limit_last_set of the boards
  Scores,     \* bound on the points of the deciding set
  MaxEvents,  \* bound on states received and on what the operator and the network do
  None

HudAssumption ==
  /\ Limits \subseteq Nat \ {0} /\ Targets \subseteq Nat \ {0}
  /\ Scores \subseteq Nat \X Nat /\ MaxEvents \in Nat /\ None \notin Nat

VARIABLES
  state,        \* the board's state as last rendered, None before the first
  room,         \* hasRoomForPersistentControls
  tab,          \* activeTab
  showControls,
  timer,        \* the inactivity timer is set, and pointerdown sets it anew
  ran,          \* what the effects have last seen
  currentSet, prev, pending,   \* the set in play, prevScoreRef and the alert
  connected, offline, grace,   \* the socket, showOffline and its timer
  events,
  byHand,       \* history: the operator has hidden the bar
  crossed       \* history: the score and the target that the alert is about

hud == <<room, tab, showControls, timer, byHand>>
alert == <<currentSet, prev, pending, crossed>>
link == <<connected, offline, grace>>
vars == <<state, hud, alert, link, ran, events>>

Event == events < MaxEvents /\ events' = events + 1

Larger(a, b) == IF a < b THEN b ELSE a

\* A state that a tab may be given next is any: others reset, undo and edit, and a push may be lost.
\* Its points are those of the deciding set.
Boards ==
  [started : BOOLEAN, finished : BOOLEAN, recap : BOOLEAN, mode : Modes, limit : Limits,
   won : 1..2, points : Scores, target : Targets]

\* computeCurrentSet
SetInPlay(s) ==
  LET next == s.won + (IF s.finished THEN 0 ELSE 1)
  IN Larger(1, IF next < s.limit THEN next ELSE s.limit)

-----------------------------------------------------------------------------
(* The alert, from two states *)

Eligible(s, set) == s # None /\ ~s.finished /\ s.mode = "indoor" /\ set = s.limit

Midpoint(target) == (target + 1) \div 2
Leader(points) == Larger(points[1], points[2])
Crosses(before, s) == Leader(s.points) = Midpoint(s.target) /\ Leader(before) < Midpoint(s.target)

Quiet == [prev |-> None, pending |-> FALSE, crossed |-> None]

Alerted(a, s, set) ==
  IF ~Eligible(s, set) THEN Quiet
  ELSE IF a.prev = None \/ a.prev.set # set
       THEN [Quiet EXCEPT !.prev = [points |-> s.points, set |-> set]]
  ELSE IF a.prev.points = s.points THEN a
  ELSE LET fires == Crosses(a.prev.points, s)
       IN [prev |-> [points |-> s.points, set |-> set], pending |-> fires,
           crossed |-> IF fires THEN [points |-> s.points, target |-> s.target] ELSE None]

\* The panel's effect runs before the application's, with the set that was in play.
Alert ==
  LET now == [prev |-> prev, pending |-> pending, crossed |-> crossed]
      set == IF state = None THEN currentSet ELSE SetInPlay(state)
      new == Alerted(Alerted(now, state, currentSet), state, set)
  IN /\ prev' = new.prev /\ pending' = new.pending /\ crossed' = new.crossed /\ currentSet' = set

-----------------------------------------------------------------------------
(* The bar of controls *)

Pending(s) == s = None \/ ~s.started
Finished(s) == s # None /\ s.finished
Recap(s) == s # None /\ s.recap
Held(s) == ~Pending(s) /\ (Recap(s) \/ Finished(s))    \* the bar is to be within a tap's reach

Deps == [room |-> room, tab |-> tab, show |-> showControls, state |-> state]

Reveals ==
  \/ room /\ ran.room # room
  \/ Pending(state) /\ ~Pending(ran.state)
  \/ Finished(state) /\ ~Finished(ran.state)
  \/ ~room /\ Held(state)

\* The effects of the last render, and of those that they cause.
Effects ==
  /\ ran # Deps
  /\ showControls' = (showControls \/ Reveals)
  /\ byHand' = (byHand /\ ~showControls')
  /\ timer' = (~room /\ ~Pending(state) /\ ~Held(state) /\ showControls' /\ tab = "scoreboard")
  /\ ran' = [Deps EXCEPT !.show = showControls']
  /\ Alert
  /\ UNCHANGED <<state, room, tab, link, events>>

Receive(s) ==
  /\ Event /\ state' = s /\ UNCHANGED <<hud, alert, link, ran>>

Hide ==
  /\ timer /\ timer' = FALSE /\ showControls' = FALSE
  /\ UNCHANGED <<state, room, tab, byHand, alert, link, ran, events>>

Toggle ==
  /\ Event /\ showControls' = ~showControls /\ byHand' = showControls
  /\ UNCHANGED <<state, room, tab, timer, alert, link, ran>>

Resize == Event /\ room' = ~room /\ UNCHANGED <<state, tab, showControls, timer, byHand, alert, link, ran>>

Turn(t) ==
  /\ Event /\ tab # t /\ tab' = t /\ UNCHANGED <<state, room, showControls, timer, byHand, alert, link, ran>>

-----------------------------------------------------------------------------
(* The pill *)

Connect ==
  /\ Event /\ ~connected /\ connected' = TRUE /\ offline' = FALSE /\ grace' = FALSE
  /\ UNCHANGED <<state, hud, alert, ran>>

Disconnect ==
  /\ Event /\ connected /\ connected' = FALSE /\ grace' = TRUE
  /\ UNCHANGED <<state, hud, alert, offline, ran>>

GraceEnds ==
  /\ grace /\ grace' = FALSE /\ offline' = TRUE
  /\ UNCHANGED <<state, hud, alert, connected, ran, events>>

Init ==
  /\ state = None /\ room \in BOOLEAN /\ tab = "scoreboard" /\ showControls = TRUE /\ timer = FALSE
  /\ ran = [room |-> room, tab |-> tab, show |-> TRUE, state |-> None]
  /\ currentSet = 1 /\ prev = None /\ pending = FALSE
  /\ connected = FALSE /\ offline = FALSE /\ grace = TRUE
  /\ events = 0 /\ byHand = FALSE /\ crossed = None

Next ==
  \/ \E s \in Boards : Receive(s)
  \/ Effects \/ Hide \/ Toggle \/ Resize
  \/ \E t \in {"scoreboard", "config"} : Turn(t)
  \/ Connect \/ Disconnect \/ GraceEnds

Spec == Init /\ [][Next]_vars

-----------------------------------------------------------------------------
\* Once its effects have run, a bar that is hidden was hidden by the operator, or by the timer
\* of a match that is on where there is no room for it; with a recap on air or a match just over
\* it is within reach there, however it was hidden, and no timer is set that could hide it.
ControlsInReach ==
  ran = Deps =>
    /\ ~showControls /\ ~byHand => ~room /\ ~Pending(state) /\ ~Held(state)
    /\ ~room /\ Held(state) => showControls
    /\ timer => ~room /\ ~Pending(state) /\ ~Held(state)

\* An alert on the screen is of the score as it is, in the deciding set of a match that is on,
\* and of the target that the leader crossed, which may have been changed since; and a tab that
\* has been cut off for longer than the grace says so, and no other does.
AlertsAreCurrent ==
  /\ ran = Deps /\ pending =>
       /\ Eligible(state, SetInPlay(state)) /\ crossed.points = state.points
       /\ Leader(state.points) = Midpoint(crossed.target)
  /\ offline = (~connected /\ ~grace)
=============================================================================
