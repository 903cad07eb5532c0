------------------------------ MODULE TabProofs ------------------------------
(***************************************************************************)
(* What holds of an operator's tab for any number of boards, sets, answers *)
(* on their way and events, and of the hub that tells the tabs how many    *)
(* there are, for any number of connections, any cap, any number of sends  *)
(* that fail and of states composed.                                       *)
(***************************************************************************)
EXTENDS OperatorTab, ConnectionHub, FiniteSetTheorems, SequenceTheorems, TLAPS

Played == [sets : 0..LastSet, points : 0..2]
Edits == {"none", "raced", "typed", "saved", "dropped"}
Pasts == [edit : Edits, raised : [Boards -> BOOLEAN], strayed : BOOLEAN,
          carried : BOOLEAN, merged : BOOLEAN, abandoned : BOOLEAN]

\* Two points are left on the board by the end of the match, and only by it.
MatchInv ==
  /\ oid \in Boards /\ match \in [Boards -> Played]
  /\ \A b \in Boards : match[b].points = 2 <=> match[b].sets = LastSet

RevisionInv == rev \in [Boards -> Nat]

\* A state that is or was rendered is one of the board's.
Shows(s) ==
  /\ s.of = oid /\ s.sets \in 0..LastSet /\ s.points \in 0..2
  /\ s.points = 2 <=> s.sets = LastSet
  /\ s.over => s.sets = LastSet
  /\ s.rev \in Nat
ScreenInv == screen # None \/ unseen => Shows(screen)

LEMMA StateShows == ASSUME MatchInv, RevisionInv PROVE Shows(State(oid))
BY DEF MatchInv, RevisionInv, Shows, State, Over, Played

-----------------------------------------------------------------------------
(* The score on the server. *)

LEMMA PointsCount ==
  ASSUME MatchInv, NEW b \in Boards, ~Over(b), match' = [match EXCEPT ![b] = AfterPoint(b)],
         oid' \in Boards
  PROVE  MatchInv'
<1>1. LastSet \in Nat \ {0}
  BY TabAssumption
<1>2. match[b] \in Played /\ match[b].sets < LastSet /\ match[b].points \in {0, 1}
  BY <1>1 DEF MatchInv, Over, Played
<1>3. AfterPoint(b) \in Played /\ (AfterPoint(b).points = 2 <=> AfterPoint(b).sets = LastSet)
  BY <1>1, <1>2 DEF AfterPoint, Played
<1> QED
  BY <1>3 DEF MatchInv

LEMMA UndoesCount ==
  ASSUME MatchInv, NEW b \in Boards, match[b].points > 0 \/ match[b].sets > 0,
         match' = [match EXCEPT ![b] = AfterUndo(b)], oid' = oid
  PROVE  MatchInv'
<1>1. LastSet \in Nat \ {0}
  BY TabAssumption
<1>2. /\ match[b] \in Played /\ (match[b].points # 1 => match[b].sets > 0)
      /\ match[b].points = 1 => match[b].sets # LastSet
  BY <1>1 DEF MatchInv, Played
<1>3. AfterUndo(b) \in Played /\ AfterUndo(b).points # 2 /\ AfterUndo(b).sets # LastSet
  BY <1>1, <1>2 DEF AfterUndo, Played
<1> QED
  BY <1>3 DEF MatchInv

LEMMA Counts ==
  ASSUME RevisionInv, NEW b \in Boards,
         rev' = rev \/ rev' = [rev EXCEPT ![b] = @ + 1]
  PROVE  RevisionInv'
BY DEF RevisionInv

-----------------------------------------------------------------------------
(* What is on its way, and the panel. *)

OpOk(op) == op \in Ops /\ (op.kind = "save" => op.model \in Looks)
TrafficInv ==
  /\ queue \in Seq(Ops) /\ \A i \in DOMAIN queue : OpOk(queue[i])
  /\ running # None => running \in Requests /\ OpOk(running.op)
PanelInv ==
  /\ look \in [Boards -> Looks] /\ (custom # None => custom \in Looks)
  /\ panel # None => panel \in Panels

LEMMA Enqueues ==
  ASSUME TrafficInv, NEW op, OpOk(op), Enqueue(op), running' = running
  PROVE  TrafficInv'
<1>1. queue' = Append(queue, op) /\ op \in Ops /\ queue \in Seq(Ops)
  BY DEF Enqueue, OpOk, TrafficInv
<1>2. queue' \in Seq(Ops) /\ Len(queue') = Len(queue) + 1 /\ Len(queue) \in Nat
      /\ queue'[Len(queue) + 1] = op /\ \A i \in 1..Len(queue) : queue'[i] = queue[i]
  BY <1>1
<1>3. \A i \in DOMAIN queue' : (i \in DOMAIN queue /\ queue'[i] = queue[i]) \/ queue'[i] = op
  BY <1>1, <1>2
<1> QED
  BY <1>2, <1>3 DEF TrafficInv

LEMMA Requested ==
  ASSUME MatchInv, NEW kind \in Kinds \ {"save"}, NEW by \in Hands
  PROVE  OpOk(Request(kind, by)) /\ \A b \in Boards : OpOk(Op(b, kind, by, None))
BY DEF MatchInv, OpOk, Request, Op, Ops

LEMMA Dequeues ==
  ASSUME TrafficInv, queue # <<>>, queue' = Tail(queue)
  PROVE  /\ queue' \in Seq(Ops) /\ \A i \in DOMAIN queue' : OpOk(queue'[i])
         /\ OpOk(Head(queue)) /\ Len(queue') < Len(queue)
         /\ 1 \in DOMAIN queue /\ Head(queue) = queue[1]
         /\ \A i \in DOMAIN queue' : i + 1 \in DOMAIN queue /\ queue'[i] = queue[i + 1]
<1>1. queue \in Seq(Ops)
  BY DEF TrafficInv
<1>2. /\ queue' \in Seq(Ops) /\ Len(queue') < Len(queue)
      /\ 1 \in DOMAIN queue /\ Head(queue) = queue[1]
      /\ \A i \in DOMAIN queue' : i + 1 \in DOMAIN queue /\ queue'[i] = queue[i + 1]
  BY <1>1
<1> QED
  BY <1>2 DEF TrafficInv

\* A request under way goes on or ends.
RunsOn == running' = running \/ running' = None

LEMMA TrafficRests ==
  ASSUME TrafficInv, queue' = queue, RunsOn
  PROVE  TrafficInv'
BY DEF TrafficInv, RunsOn

-----------------------------------------------------------------------------
(* The actions, by what they leave alone. *)

\* The server, and the board on the screen.
Calm ==
  \/ SessionReady \/ CustomReady \/ LoadFails \/ Push
  \/ Point \/ ToggleRecap \/ Send \/ Lost
  \/ OpenPanel \/ Edit \/ Save \/ ClosePanel
  \/ RunEffect \/ DelayEnds \/ TimeToHide \/ ToggleAuto
  \/ \E b \in Boards : ReadBack(b) \/ ReadBackFails(b)
  \/ UNCHANGED vars
Rivals == \E b \in Boards : RivalScores(b) \/ RivalUndoes(b)
Switches == \E b \in Boards : Switch(b)

LEMMA Actions == [Next]_vars <=> Calm \/ Rivals \/ Switches \/ Answer
BY DEF Next, Calm, Rivals, Switches

LEMMA CalmServer == ASSUME Calm PROVE UNCHANGED <<server, oid>>
<1>1. CASE SessionReady \/ CustomReady \/ LoadFails \/ Push \/ UNCHANGED vars
  BY <1>1 DEF SessionReady, CustomReady, LoadFails, Push, vars, session
<1>2. CASE Point \/ ToggleRecap \/ Send \/ Lost
  BY <1>2 DEF Point, ToggleRecap, Send, Lost, session
<1>3. CASE OpenPanel \/ Edit \/ Save \/ ClosePanel
  BY <1>3 DEF OpenPanel, Edit, Save, ClosePanel, session
<1>4. CASE RunEffect \/ DelayEnds \/ TimeToHide \/ ToggleAuto
  BY <1>4 DEF RunEffect, DelayEnds, TimeToHide, ToggleAuto, session
<1>5. CASE \E b \in Boards : ReadBack(b) \/ ReadBackFails(b)
  BY <1>5 DEF ReadBack, ReadBackFails, session
<1> QED
  BY <1>1, <1>2, <1>3, <1>4, <1>5 DEF Calm

\* What a request that is taken does.
LEMMA Serves ==
  ASSUME MatchInv, RevisionInv, NEW op, OpOk(op), Serve(op), oid' = oid
  PROVE  /\ MatchInv' /\ RevisionInv'
         /\ \/ look' = look
            \/ op.kind = "save" /\ look' = [look EXCEPT ![op.board] = op.model]
<1>1. op.board \in Boards /\ op.kind \in Kinds
  BY DEF OpOk, Ops
<1>2. CASE op.kind = "point"
  <2>1. CASE Over(op.board)
    BY <1>2, <2>1 DEF Serve, server, MatchInv, RevisionInv
  <2>2. CASE ~Over(op.board)
    <3>1. ScorePoint(op.board)
      BY <1>2, <2>2 DEF Serve
    <3> QED
      BY <1>1, <2>2, <3>1, PointsCount, Counts DEF ScorePoint, MatchInv
  <2> QED
    BY <2>1, <2>2
<1>3. CASE op.kind \in {"show", "hide"}
  <2>1. PICK on \in BOOLEAN : SetRecap(op.board, on)
    BY <1>3 DEF Serve
  <2> QED
    BY <1>1, <2>1, Counts DEF SetRecap, MatchInv
<1>4. CASE op.kind = "save"
  <2>1. SaveLook(op.board, op.model)
    BY <1>4 DEF Serve
  <2> QED
    BY <1>1, <1>4, <2>1, Counts DEF SaveLook, MatchInv
<1>5. CASE op.kind = "sync"
  <2>1. SaveLocale(op.board)
    BY <1>5 DEF Serve
  <2> QED
    BY <1>1, <2>1, Counts DEF SaveLocale, MatchInv
<1> QED
  BY <1>1, <1>2, <1>3, <1>4, <1>5 DEF Kinds

LEMMA Answers ==
  ASSUME TrafficInv, Answer
  PROVE  \E op : /\ running # None /\ op = running.op /\ OpOk(op)
                 /\ (Accepted(op) \/ Refused(op))
                 /\ UNCHANGED <<oid, custom, loading, enabled, seen, delay, dismiss, events>>
BY DEF Answer, TrafficInv

LEMMA ScoreStep ==
  ASSUME MatchInv, RevisionInv, TrafficInv, [Next]_vars
  PROVE  MatchInv' /\ RevisionInv'
<1>1. CASE Calm
  BY <1>1, CalmServer DEF server, MatchInv, RevisionInv
<1>2. CASE Rivals
  <2>1. PICK b \in Boards : RivalScores(b) \/ RivalUndoes(b)
    BY <1>2 DEF Rivals
  <2>2. oid' = oid
    BY <2>1 DEF RivalScores, RivalUndoes, session
  <2>3. CASE RivalScores(b)
    BY <2>2, <2>3, PointsCount, Counts DEF RivalScores, ScorePoint, MatchInv
  <2>4. CASE RivalUndoes(b)
    BY <2>2, <2>4, UndoesCount, Counts DEF RivalUndoes
  <2> QED
    BY <2>1, <2>3, <2>4
<1>3. CASE Switches
  BY <1>3 DEF Switches, Switch, server, MatchInv, RevisionInv
<1>4. CASE Answer
  <2>1. PICK op : OpOk(op) /\ (Accepted(op) \/ Refused(op)) /\ oid' = oid
    BY <1>4, Answers
  <2>2. CASE Accepted(op)
    BY <2>1, <2>2, Serves DEF Accepted
  <2>3. CASE Refused(op)
    BY <2>1, <2>3 DEF Refused, server, MatchInv, RevisionInv
  <2> QED
    BY <2>1, <2>2, <2>3
<1> QED
  BY <1>1, <1>2, <1>3, <1>4, Actions

-----------------------------------------------------------------------------
(* What the screen shows. *)

LEMMA Applies ==
  ASSUME ScreenInv, oid' = oid, \E s : Shows(s) /\ Apply(s)
  PROVE  ScreenInv'
BY DEF ScreenInv, Shows, Apply

LEMMA ScreenRests ==
  ASSUME ScreenInv, oid' = oid, screen' = screen,
         unseen' = unseen \/ unseen' = FALSE \/ unseen' = (screen # None)
  PROVE  ScreenInv'
BY DEF ScreenInv, Shows

LEMMA ScreenStep ==
  ASSUME MatchInv, RevisionInv, TrafficInv, ScreenInv, [Next]_vars
  PROVE  ScreenInv'
<1>1. CASE SessionReady \/ Push
  BY <1>1, StateShows, Applies DEF SessionReady, Push
<1>2. CASE CustomReady \/ LoadFails \/ UNCHANGED vars \/ Point \/ ToggleRecap \/ Send \/ Lost
  BY <1>2, ScreenRests DEF CustomReady, LoadFails, vars, Point, ToggleRecap, Send, Lost, session, hook
<1>3. CASE OpenPanel \/ Edit \/ Save \/ ClosePanel \/ Rivals
  BY <1>3, ScreenRests DEF OpenPanel, Edit, Save, ClosePanel, Rivals, RivalScores, RivalUndoes,
    session, hook
<1>4. CASE \/ RunEffect \/ DelayEnds \/ TimeToHide \/ ToggleAuto
           \/ \E b \in Boards : ReadBack(b) \/ ReadBackFails(b)
  BY <1>4, ScreenRests DEF RunEffect, DelayEnds, TimeToHide, ToggleAuto, ReadBack, ReadBackFails,
    session, hook
<1>5. CASE Switches
  BY <1>5 DEF Switches, Switch, ScreenInv
<1>6. CASE Answer
  <2>1. PICK op : OpOk(op) /\ (Accepted(op) \/ Refused(op)) /\ oid' = oid
    BY <1>6, Answers
  <2>2. CASE UNCHANGED <<screen, unseen>>
    BY <2>1, <2>2, ScreenRests
  <2>3. CASE op.board = oid /\ Accepted(op)
    <3>1. MatchInv' /\ RevisionInv'
      BY <1>6, ScoreStep DEF Next
    <3>2. Shows(State(oid)')
      BY <2>1, <3>1 DEF MatchInv, RevisionInv, Shows, State, Over, Played
    <3>3. Apply(State(oid)')
      BY <2>1, <2>3 DEF Accepted, State, Over
    <3> QED
      BY <2>1, <3>2, <3>3, Applies
  <2>4. CASE op.board = oid /\ Refused(op)
    BY <2>1, <2>4, StateShows, Applies DEF Refused
  <2> QED
    BY <2>1, <2>2, <2>3, <2>4 DEF Accepted, Refused
<1> QED
  BY <1>1, <1>2, <1>3, <1>4, <1>5, <1>6, Actions DEF Calm

-----------------------------------------------------------------------------
(* What the recap's effect has seen, and what it does. *)

Seens == [of : Boards, sets : 0..LastSet, points : 0..2]
HookInv ==
  /\ enabled \in BOOLEAN
  /\ seen # None => seen \in Seens /\ (seen.points = 2 <=> seen.sets = LastSet)

LEMMA SeesTheScreen ==
  ASSUME MatchInv, Shows(screen)
  PROVE  /\ SeenNow \in Seens /\ SeenNow # None
         /\ SeenNow.points = 2 <=> SeenNow.sets = LastSet
BY TabAssumption DEF MatchInv, Shows, SeenNow, Seens

LEMMA HookStep ==
  ASSUME MatchInv, ScreenInv, HookInv, [Next]_vars
  PROVE  HookInv'
<1>1. CASE SessionReady \/ CustomReady \/ LoadFails \/ Push \/ UNCHANGED vars \/ Lost
  BY <1>1 DEF HookInv, SessionReady, CustomReady, LoadFails, Push, vars, Lost, hook
<1>2. CASE OpenPanel \/ Edit \/ ClosePanel \/ Save \/ Rivals \/ Switches
  BY <1>2 DEF HookInv, OpenPanel, Edit, ClosePanel, Save, Rivals, RivalScores, RivalUndoes,
    Switches, Switch, hook
<1>3. CASE Point \/ ToggleRecap \/ DelayEnds \/ TimeToHide \/ Send \/ Answer
  BY <1>3 DEF HookInv, Point, ToggleRecap, DelayEnds, TimeToHide, Send, Answer, hook
<1>4. CASE \E b \in Boards : ReadBack(b) \/ ReadBackFails(b)
  BY <1>4 DEF HookInv, ReadBack, ReadBackFails, hook
<1>5. CASE ToggleAuto
  BY <1>5 DEF HookInv, ToggleAuto
<1>6. CASE RunEffect
  <2>1. enabled' = enabled /\ seen' = SeenNow /\ Shows(screen)
    BY <1>6 DEF RunEffect, ScreenInv
  <2> QED
    BY <2>1, SeesTheScreen DEF HookInv
<1> QED
  BY <1>1, <1>2, <1>3, <1>4, <1>5, <1>6, Actions DEF Calm

LEMMA Effects ==
  ASSUME ScreenInv, HookInv, RunEffect
  PROVE  \/ delay' = "off" /\ (queue' = queue \/ Enqueue(Request("hide", "tab")))
         \/ Keep /\ seen = None
         \/ SetWon /\ seen # None /\ screen.sets > seen.sets
         \/ Enqueue(Request("hide", "tab")) /\ delay' = delay /\ delay = "off"
         \/ Keep /\ seen # None /\ screen.sets = seen.sets /\ screen.points <= seen.points
         \/ Keep /\ delay = "off"
<1>1. Shows(screen)
  BY DEF RunEffect, ScreenInv
<1>2. CASE ~enabled
  BY <1>2 DEF RunEffect, Quiet
<1>3. CASE enabled /\ seen = None
  BY <1>3 DEF RunEffect
<1>4. CASE enabled /\ seen # None
  <2>1. /\ screen.sets \in Nat /\ seen.sets \in Nat /\ screen.points \in Nat /\ seen.points \in Nat
    BY <1>1, <1>4, TabAssumption DEF Shows, HookInv, Seens
  <2>2. CASE screen.sets < seen.sets
    <3>1. ~(screen.sets > seen.sets) /\ screen.sets # seen.sets
      BY <2>1, <2>2
    <3>2. SetUndone
      BY <1>4, <2>2, <3>1 DEF RunEffect
    <3> QED
      BY <3>2 DEF SetUndone, Quiet
  <2>3. CASE screen.sets > seen.sets
    <3>1. ~(screen.sets < seen.sets) /\ screen.sets # seen.sets
      BY <2>1, <2>3
    <3>2. SetWon
      BY <1>4, <2>3, <3>1 DEF RunEffect
    <3> QED
      BY <1>4, <2>3, <3>2
  <2>4. CASE screen.sets = seen.sets /\ screen.points <= seen.points
    BY <1>4, <2>1, <2>4 DEF RunEffect
  <2>5. CASE screen.sets = seen.sets /\ screen.points > seen.points
    <3>1. PlayResumed
      BY <1>4, <2>1, <2>5 DEF RunEffect
    <3> QED
      BY <3>1 DEF PlayResumed, Keep
  <2> QED
    BY <2>1, <2>2, <2>3, <2>4, <2>5
<1> QED
  BY <1>2, <1>3, <1>4 DEF HookInv

LEMMA EffectsDismiss ==
  ASSUME ScreenInv, HookInv, RunEffect
  PROVE  dismiss' = dismiss \/ dismiss' = FALSE
<1>1. CASE ~enabled
  BY <1>1 DEF RunEffect, Quiet
<1>2. CASE enabled /\ seen = None
  BY <1>2 DEF RunEffect, Keep
<1>3. CASE enabled /\ seen # None
  <2>1. screen.sets \in Nat /\ seen.sets \in Nat
    BY <1>3, TabAssumption DEF RunEffect, ScreenInv, Shows, HookInv, Seens
  <2>2. CASE screen.sets < seen.sets
    <3>1. ~(screen.sets > seen.sets) /\ screen.sets # seen.sets
      BY <2>1, <2>2
    <3> QED
      BY <1>3, <2>2, <3>1 DEF RunEffect, SetUndone, Quiet
  <2>3. CASE screen.sets > seen.sets
    <3>1. ~(screen.sets < seen.sets) /\ screen.sets # seen.sets
      BY <2>1, <2>3
    <3> QED
      BY <1>3, <2>3, <3>1 DEF RunEffect, SetWon
  <2>4. CASE screen.sets = seen.sets
    BY <1>3, <2>1, <2>4 DEF RunEffect, PlayResumed, Keep
  <2>5. screen.sets < seen.sets \/ screen.sets > seen.sets \/ screen.sets = seen.sets
    BY <2>1
  <2> QED
    BY <2>2, <2>3, <2>4, <2>5, Zenon
<1> QED
  BY <1>1, <1>2, <1>3 DEF HookInv

-----------------------------------------------------------------------------
(* What is on its way: every request is one of the tab's. *)

LEMMA TrafficStep ==
  ASSUME MatchInv, RevisionInv, ScreenInv, HookInv, TrafficInv, PanelInv, [Next]_vars
  PROVE  TrafficInv'
<1>1. CASE SessionReady \/ CustomReady \/ LoadFails \/ Push \/ UNCHANGED vars \/ Lost
  BY <1>1, TrafficRests DEF SessionReady, CustomReady, LoadFails, Push, vars, Lost, RunsOn
<1>2. CASE OpenPanel \/ Edit \/ ClosePanel \/ ToggleAuto \/ Rivals
  BY <1>2, TrafficRests DEF OpenPanel, Edit, ClosePanel, ToggleAuto, Rivals, RivalScores,
    RivalUndoes, RunsOn
<1>3. CASE \E b \in Boards : ReadBack(b) \/ ReadBackFails(b)
  BY <1>3, TrafficRests DEF ReadBack, ReadBackFails, RunsOn
<1>4. CASE Point \/ ToggleRecap \/ DelayEnds \/ TimeToHide
  <2>1. PICK kind \in Kinds \ {"save"}, by \in Hands : Enqueue(Request(kind, by))
    BY <1>4 DEF Point, ToggleRecap, DelayEnds, TimeToHide, Kinds, Hands
  <2>2. running' = running
    BY <1>4 DEF Point, ToggleRecap, DelayEnds, TimeToHide
  <2> QED
    BY <2>1, <2>2, Requested, Enqueues
<1>5. CASE Save
  <2>1. panel # None /\ Enqueue(Op(oid, "save", "hand", panel.model)) /\ running' = running
    BY <1>5 DEF Save
  <2>2. OpOk(Op(oid, "save", "hand", panel.model))
    BY <2>1 DEF PanelInv, Panels, OpOk, Op, Ops, Kinds, Hands, MatchInv
  <2> QED
    BY <2>1, <2>2, Enqueues
<1>6. CASE Switches
  <2>1. PICK b \in Boards : Enqueue(Op(b, "sync", "locale", None)) /\ running' = running
    BY <1>6 DEF Switches, Switch
  <2>2. "sync" \in Kinds \ {"save"} /\ "locale" \in Hands
    BY DEF Kinds, Hands
  <2> QED
    BY <2>1, <2>2, Requested, Enqueues
<1>7. CASE RunEffect
  <2>1. running' = running
    BY <1>7 DEF RunEffect
  <2>2. CASE queue' = queue
    BY <2>1, <2>2, TrafficRests DEF RunsOn
  <2>3. CASE Enqueue(Request("hide", "tab"))
    <3>1. "hide" \in Kinds \ {"save"} /\ "tab" \in Hands
      BY DEF Kinds, Hands
    <3> QED
      BY <2>1, <2>3, <3>1, Requested, Enqueues
  <2>4. queue' = queue \/ Enqueue(Request("hide", "tab"))
    BY <1>7, Effects DEF Keep, SetUndone, SetWon
  <2> QED
    BY <2>2, <2>3, <2>4
<1>8. CASE Send
  <2> DEFINE op == Head(queue)
  <2>1. /\ queue # <<>> /\ queue' = Tail(queue)
        /\ \/ running' = None
           \/ running' = [op |-> op, retry |-> op.kind = "sync",
                          rev |-> IF screen = None THEN None ELSE screen.rev]
    BY <1>8 DEF Send
  <2>2. OpOk(op) /\ queue' \in Seq(Ops) /\ \A i \in DOMAIN queue' : OpOk(queue'[i])
    BY <2>1, Dequeues
  <2>3. screen # None => screen.rev \in Nat
    BY DEF ScreenInv, Shows
  <2>4. running' # None => running' \in Requests /\ running'.op = op
    <3> DEFINE r == IF screen = None THEN None ELSE screen.rev
    <3>1. r \in Nat \cup {None}
      BY <2>3
    <3>2. op \in Ops /\ (op.kind = "sync") \in BOOLEAN
      BY <2>2 DEF OpOk
    <3> HIDE DEF op, r
    <3>3. [op |-> op, retry |-> op.kind = "sync", rev |-> r] \in Requests
      BY <3>1, <3>2 DEF Requests
    <3> QED
      BY <2>1, <3>3 DEF r
  <2> QED
    BY <2>2, <2>4 DEF TrafficInv
<1>9. CASE Answer
  <2>1. PICK op : /\ running # None /\ op = running.op /\ OpOk(op)
                  /\ (Accepted(op) \/ Refused(op)) /\ oid' = oid
    BY <1>9, Answers
  <2>2. queue' = queue
    BY <2>1 DEF Accepted, Refused
  <2>3. CASE running' = None
    BY <2>2, <2>3, TrafficRests DEF RunsOn
  <2>4. CASE running' = [running EXCEPT !.retry = FALSE, !.rev = rev[oid]]
    <3>1. running \in Requests /\ rev[oid] \in Nat
      BY <2>1 DEF TrafficInv, RevisionInv, MatchInv
    <3>2. running' \in Requests /\ running'.op = running.op
      BY <2>4, <3>1 DEF Requests
    <3> QED
      BY <2>1, <2>2, <3>2 DEF TrafficInv
  <2> QED
    BY <2>1, <2>3, <2>4 DEF Accepted, Refused
<1> QED
  BY <1>1, <1>2, <1>3, <1>4, <1>5, <1>6, <1>7, <1>8, <1>9, Actions DEF Calm

-----------------------------------------------------------------------------
(* The look, and the panel. *)

\* What may become of the panel without a new model.
PanelKept ==
  \/ panel' = panel \/ panel' = None
  \/ \E saving \in BOOLEAN : panel' = [panel EXCEPT !.saving = saving]
  \/ panel' = [panel EXCEPT !.dirty = FALSE]

LEMMA PanelRests ==
  ASSUME PanelInv, look' = look, custom' = custom \/ custom' = None, PanelKept,
         panel' # panel /\ panel' # None => panel # None
  PROVE  PanelInv'
BY DEF PanelInv, PanelKept, Panels

LEMMA SaveEndsKeeps ==
  ASSUME NEW op, SaveEnds(op)
  PROVE  PanelKept /\ (panel' # panel /\ panel' # None => panel # None)
BY DEF SaveEnds, PanelKept

LEMMA PanelStep ==
  ASSUME MatchInv, RevisionInv, TrafficInv, PanelInv, [Next]_vars
  PROVE  PanelInv'
<1>1. CASE SessionReady \/ LoadFails \/ Push \/ UNCHANGED vars \/ Point \/ ToggleRecap
  BY <1>1, PanelRests DEF SessionReady, LoadFails, Push, vars, Point, ToggleRecap, server, session,
    PanelKept
<1>2. CASE RunEffect \/ DelayEnds \/ TimeToHide \/ ToggleAuto \/ Rivals
  BY <1>2, PanelRests DEF RunEffect, DelayEnds, TimeToHide, ToggleAuto, Rivals, RivalScores,
    ScorePoint, RivalUndoes, server, session, PanelKept
<1>3. CASE ClosePanel \/ Switches
  BY <1>3, PanelRests DEF ClosePanel, Switches, Switch, server, session, PanelKept
<1>4. CASE Save
  BY <1>4, PanelRests DEF Save, server, session, PanelKept
<1>5. CASE Send \/ Lost
  <2>1. look' = look /\ custom' = custom /\ (panel' = panel \/ \E op : SaveEnds(op))
    BY <1>5 DEF Send, Lost, server, session
  <2> QED
    BY <2>1, PanelRests, SaveEndsKeeps DEF PanelKept
<1>6. CASE CustomReady
  <2>1. look' = look /\ SetCustomization(look[oid])
    BY <1>6 DEF CustomReady, server
  <2>2. look[oid] \in Looks
    BY DEF PanelInv, MatchInv
  <2> QED
    BY <2>1, <2>2 DEF PanelInv, Panels, SetCustomization
<1>7. CASE OpenPanel
  <2>1. /\ look' = look /\ custom' = custom
        /\ panel' = [model |-> IF custom = None THEN Look(oid, FALSE) ELSE custom,
                     dirty |-> FALSE, saving |-> FALSE]
    BY <1>7 DEF OpenPanel, server, session
  <2>2. Look(oid, FALSE) \in Looks
    BY DEF Look, Looks, MatchInv
  <2> QED
    BY <2>1, <2>2 DEF PanelInv, Panels
<1>8. CASE Edit
  <2>1. /\ look' = look /\ custom' = custom /\ panel # None
        /\ \/ panel' = [panel EXCEPT !.model.edited = TRUE, !.dirty = TRUE]
           \/ panel' = [panel EXCEPT !.dirty = TRUE]
    BY <1>8 DEF Edit, server, session
  <2> QED
    BY <2>1 DEF PanelInv, Panels, Looks
<1>9. CASE \E b \in Boards : ReadBack(b) \/ ReadBackFails(b)
  <2>1. PICK b \in Boards : ReadBack(b) \/ ReadBackFails(b)
    BY <1>9
  <2>2. CASE ReadBack(b)
    <3>1. /\ look' = look /\ custom' = look[b]
          /\ panel' = IF panel = None THEN None
                      ELSE [panel EXCEPT !.model = look[b], !.dirty = FALSE,
                                         !.saving = @ /\ b # oid]
      BY <2>2 DEF ReadBack, server
    <3> QED
      BY <3>1 DEF PanelInv, Panels
  <2>3. CASE ReadBackFails(b)
    <3>1. /\ look' = look /\ custom' = custom
          /\ panel' = IF panel = None THEN None ELSE [panel EXCEPT !.saving = @ /\ b # oid]
      BY <2>3 DEF ReadBackFails, server, session
    <3> QED
      BY <3>1 DEF PanelInv, Panels
  <2> QED
    BY <2>1, <2>2, <2>3
<1>10. CASE Answer
  <2>1. PICK op : /\ OpOk(op) /\ (Accepted(op) \/ Refused(op)) /\ oid' = oid /\ custom' = custom
    BY <1>10, Answers
  <2>2. CASE Accepted(op)
    <3>1. look' \in [Boards -> Looks]
      BY <2>1, <2>2, Serves DEF Accepted, PanelInv, OpOk
    <3>2. panel' = panel \/ (panel # None /\ panel' = [panel EXCEPT !.dirty = FALSE])
      BY <2>2 DEF Accepted
    <3> QED
      BY <2>1, <3>1, <3>2 DEF PanelInv, Panels
  <2>3. CASE Refused(op)
    BY <2>1, <2>3, PanelRests, SaveEndsKeeps DEF Refused, server
  <2> QED
    BY <2>1, <2>2, <2>3
<1> QED
  BY <1>1, <1>2, <1>3, <1>4, <1>5, <1>6, <1>7, <1>8, <1>9, <1>10, Actions DEF Calm

-----------------------------------------------------------------------------
(* What the history remembers: nothing that went astray is forgotten. *)

PastInv == past \in Pasts

LEMMA PastStep ==
  ASSUME MatchInv, TrafficInv, PastInv, [Next]_vars
  PROVE  /\ PastInv' /\ (past.strayed => past'.strayed)
         /\ Switches \/ RunEffect \/ (past'.carried = past.carried /\ past'.merged = past.merged)
         /\ (past.abandoned => past'.abandoned) /\ (past.merged => past'.merged)
         /\ Answer \/ past'.raised = past.raised
         /\ past'.edit = "typed" => past.edit = "typed" \/ Edit
<1> USE DEF PastInv, Pasts
<1>1. CASE past' = past
  BY <1>1
<1>2. CASE Answer
  <2>1. PICK op : OpOk(op) /\ (Accepted(op) \/ Refused(op))
    BY <1>2, Answers
  <2>2. CASE Refused(op)
    BY <2>2 DEF Refused
  <2>3. CASE Remember(op)
    <3>1. CASE op.kind \in {"show", "hide"}
      <4>1. past' = [past EXCEPT !.raised[op.board] = TabRaises(op)]
        BY <2>3, <3>1 DEF Remember
      <4> QED
        BY <1>2, <4>1 DEF TabRaises
    <3>2. CASE op.kind = "save"
      <4>1. past' = [past EXCEPT !.edit = IF op.model.edited THEN "saved" ELSE @]
        BY <2>3, <3>2 DEF Remember
      <4> QED
        BY <4>1 DEF Edits
    <3>3. CASE op.kind \notin {"show", "hide", "save"}
      BY <2>3, <3>3 DEF Remember
    <3> QED
      BY <3>1, <3>2, <3>3
  <2> QED
    BY <2>1, <2>2, <2>3 DEF Accepted
<1>3. CASE Lost
  BY <1>3 DEF Lost
<1>4. CASE Edit
  BY <1>4 DEF Edit, Edits
<1>5. CASE ClosePanel
  BY <1>5 DEF ClosePanel, Leaving, Edits
<1>6. CASE \E b \in Boards : ReadBack(b)
  BY <1>6 DEF ReadBack
<1>7. CASE Switches
  BY <1>7 DEF Switches, Switch, Edits
<1>8. CASE RunEffect
  BY <1>8 DEF RunEffect
<1>9. CASE ToggleAuto
  BY <1>9 DEF ToggleAuto
<1>10. CASE \/ SessionReady \/ CustomReady \/ LoadFails \/ Push \/ UNCHANGED vars \/ Point
            \/ ToggleRecap \/ Send
  <2>1. past' = past
    BY <1>10 DEF SessionReady, CustomReady, LoadFails, Push, vars, Point, ToggleRecap, Send
  <2> QED
    BY <1>1, <2>1
<1>11. CASE \/ OpenPanel \/ Save \/ DelayEnds \/ TimeToHide \/ Rivals
            \/ \E b \in Boards : ReadBackFails(b)
  <2>1. past' = past
    BY <1>11 DEF OpenPanel, Save, DelayEnds, TimeToHide, Rivals, RivalScores, RivalUndoes,
      ReadBackFails
  <2> QED
    BY <1>1, <2>1
<1> QED
  BY <1>2, <1>3, <1>4, <1>5, <1>6, <1>7, <1>8, <1>9, <1>10, <1>11, Actions DEF Calm

-----------------------------------------------------------------------------
(* Whose look it is. *)

OpOwn(op) == op.kind = "save" => op.model.of = op.board
Own ==
  /\ \A b \in Boards : look[b].of = b
  /\ custom # None => custom.of = oid
  /\ panel # None => panel.model.of = oid
  /\ \A i \in DOMAIN queue : OpOwn(queue[i])
  /\ running # None => OpOwn(running.op)
OwnInv == past.strayed \/ Own

LEMMA OwnRests ==
  ASSUME Own, PanelInv, UNCHANGED <<look, oid>>, custom' = custom \/ custom' = None, PanelKept,
         panel' # panel /\ panel' # None => panel # None, queue' = queue, RunsOn
  PROVE  Own'
<1>1. panel' # None => panel'.model.of = oid
  BY DEF Own, PanelInv, PanelKept, Panels
<1> QED
  BY <1>1 DEF Own, RunsOn

LEMMA OwnEnqueues ==
  ASSUME Own, TrafficInv, NEW op, OpOk(op), OpOwn(op), Enqueue(op),
         UNCHANGED <<look, oid, custom, running>>,
         panel' # None => panel # None /\ panel'.model = panel.model
  PROVE  Own'
<1>1. queue' = Append(queue, op) /\ op \in Ops /\ queue \in Seq(Ops)
  BY DEF Enqueue, OpOk, TrafficInv
<1>2. \A i \in DOMAIN queue' : (i \in DOMAIN queue /\ queue'[i] = queue[i]) \/ queue'[i] = op
  BY <1>1
<1> QED
  BY <1>2 DEF Own

LEMMA OwnRequests ==
  ASSUME Own, TrafficInv, MatchInv, NEW kind \in Kinds \ {"save"}, NEW by \in Hands,
         Enqueue(Request(kind, by)), UNCHANGED <<look, oid, custom, running, panel>>
  PROVE  Own'
<1>1. OpOk(Request(kind, by)) /\ OpOwn(Request(kind, by))
  BY Requested DEF OpOwn, Request, Op
<1> QED
  BY <1>1, OwnEnqueues

LEMMA OwnStep ==
  ASSUME MatchInv, RevisionInv, ScreenInv, HookInv, TrafficInv, PanelInv, PastInv, OwnInv,
         [Next]_vars
  PROVE  OwnInv'
<1> SUFFICES ASSUME ~past'.strayed
             PROVE  Own'
  BY DEF OwnInv
<1>0. Own
  BY PastStep DEF OwnInv
<1>1. CASE SessionReady \/ LoadFails \/ Push \/ UNCHANGED vars
  BY <1>0, <1>1, OwnRests DEF SessionReady, LoadFails, Push, vars, server, session, PanelKept, RunsOn
<1>2. CASE ToggleAuto \/ ClosePanel
  BY <1>0, <1>2, OwnRests DEF ToggleAuto, ClosePanel, server, session, PanelKept, RunsOn
<1>3. CASE Rivals
  BY <1>0, <1>3, OwnRests DEF Rivals, RivalScores, ScorePoint, RivalUndoes, session, PanelKept, RunsOn
<1>4. CASE Lost
  <2>1. look' = look /\ oid' = oid /\ custom' = custom /\ queue' = queue /\ RunsOn
        /\ \E op : SaveEnds(op)
    BY <1>4 DEF Lost, server, session, RunsOn
  <2> QED
    BY <1>0, <2>1, OwnRests, SaveEndsKeeps
<1>5. CASE Point \/ ToggleRecap \/ DelayEnds \/ TimeToHide
  <2>1. PICK kind \in Kinds \ {"save"}, by \in Hands : Enqueue(Request(kind, by))
    BY <1>5 DEF Point, ToggleRecap, DelayEnds, TimeToHide, Kinds, Hands
  <2>2. UNCHANGED <<look, oid, custom, running, panel>>
    BY <1>5 DEF Point, ToggleRecap, DelayEnds, TimeToHide, server, session
  <2> QED
    BY <1>0, <2>1, <2>2, OwnRequests
<1>6. CASE RunEffect
  <2>1. UNCHANGED <<look, oid, custom, running, panel>>
    BY <1>6 DEF RunEffect, server, session
  <2>2. queue' = queue \/ Enqueue(Request("hide", "tab"))
    BY <1>6, Effects DEF Keep, SetWon
  <2>3. CASE queue' = queue
    BY <1>0, <2>1, <2>3 DEF Own
  <2>4. CASE Enqueue(Request("hide", "tab"))
    <3>1. "hide" \in Kinds \ {"save"} /\ "tab" \in Hands
      BY DEF Kinds, Hands
    <3> QED
      BY <1>0, <2>1, <2>4, <3>1, OwnRequests
  <2> QED
    BY <2>2, <2>3, <2>4
<1>7. CASE Save
  <2> DEFINE op == Op(oid, "save", "hand", panel.model)
  <2>1. /\ panel # None /\ Enqueue(op) /\ UNCHANGED <<look, oid, custom, running>>
        /\ panel' = [panel EXCEPT !.saving = TRUE]
    BY <1>7 DEF Save, server, session
  <2>2. OpOk(op) /\ OpOwn(op) /\ panel'.model = panel.model
    BY <1>0, <2>1 DEF PanelInv, Panels, OpOk, OpOwn, Own, Op, Ops, Kinds, Hands, MatchInv
  <2> QED
    BY <1>0, <2>1, <2>2, OwnEnqueues
<1>8. CASE Switches
  <2>1. PICK b \in Boards : /\ Enqueue(Op(b, "sync", "locale", None)) /\ custom' = None
                            /\ panel' = None /\ UNCHANGED <<look, running>>
    BY <1>8 DEF Switches, Switch, server
  <2> DEFINE op == Op(b, "sync", "locale", None)
  <2>2. "sync" \in Kinds \ {"save"} /\ "locale" \in Hands
    BY DEF Kinds, Hands
  <2>3. OpOk(op) /\ OpOwn(op)
    BY <2>2, Requested DEF OpOwn, Op
  <2>4. queue' = Append(queue, op) /\ op \in Ops /\ queue \in Seq(Ops)
    BY <2>1, <2>3 DEF Enqueue, OpOk, TrafficInv
  <2>5. \A i \in DOMAIN queue' : (i \in DOMAIN queue /\ queue'[i] = queue[i]) \/ queue'[i] = op
    <3> HIDE DEF op
    <3> QED
      BY <2>4
  <2> QED
    BY <1>0, <2>1, <2>3, <2>5 DEF Own
<1>9. CASE Send
  <2> DEFINE op == Head(queue)
  <2>1. /\ queue # <<>> /\ queue' = Tail(queue) /\ UNCHANGED <<look, oid, custom>>
        /\ \/ running' = [op |-> op, retry |-> op.kind = "sync",
                          rev |-> IF screen = None THEN None ELSE screen.rev] /\ panel' = panel
           \/ running' = None /\ SaveEnds(op)
    BY <1>9 DEF Send, server, session
  <2>2. OpOwn(op) /\ \A i \in DOMAIN queue' : OpOwn(queue'[i])
    BY <1>0, <2>1, Dequeues DEF Own
  <2>3. panel' # None => panel'.model.of = oid
    BY <1>0, <2>1 DEF SaveEnds, Own, PanelInv, Panels
  <2>4. running' # None => running'.op = op
    BY <2>1
  <2> HIDE DEF op
  <2> QED
    BY <1>0, <2>1, <2>2, <2>3, <2>4 DEF Own
<1>10. CASE CustomReady
  <2>1. /\ UNCHANGED <<look, oid, queue, running>> /\ custom' = look[oid]
        /\ panel' = IF panel = None THEN None ELSE [panel EXCEPT !.model = look[oid], !.dirty = FALSE]
    BY <1>10 DEF CustomReady, SetCustomization, server
  <2>2. look[oid].of = oid
    BY <1>0 DEF Own, MatchInv
  <2>3. panel' # None => panel'.model.of = oid
    BY <2>1, <2>2 DEF PanelInv, Panels
  <2> QED
    BY <1>0, <2>1, <2>2, <2>3 DEF Own
<1>11. CASE OpenPanel
  <2>1. /\ UNCHANGED <<look, oid, queue, running, custom>>
        /\ panel'.model = IF custom = None THEN Look(oid, FALSE) ELSE custom
    BY <1>11 DEF OpenPanel, server, session
  <2>2. panel'.model.of = oid
    BY <1>0, <2>1 DEF Own, Look
  <2> QED
    BY <1>0, <2>1, <2>2 DEF Own
<1>12. CASE Edit
  <2>1. /\ UNCHANGED <<look, oid, queue, running, custom>> /\ panel # None
        /\ \/ panel' = [panel EXCEPT !.model.edited = TRUE, !.dirty = TRUE]
           \/ panel' = [panel EXCEPT !.dirty = TRUE]
    BY <1>12 DEF Edit, server, session
  <2>2. panel'.model.of = oid
    BY <1>0, <2>1 DEF Own, PanelInv, Panels, Looks
  <2> QED
    BY <1>0, <2>1, <2>2 DEF Own
<1>13. CASE \E b \in Boards : ReadBack(b)
  <2>1. PICK b \in Boards : ReadBack(b)
    BY <1>13
  <2>2. b = oid
    BY <2>1 DEF ReadBack, PastInv, Pasts
  <2>3. /\ UNCHANGED <<look, oid, queue, running>> /\ custom' = look[oid]
        /\ panel' = IF panel = None THEN None
                    ELSE [panel EXCEPT !.model = look[oid], !.dirty = FALSE,
                                       !.saving = @ /\ oid # oid]
    BY <2>1, <2>2 DEF ReadBack, server
  <2>4. look[oid].of = oid
    BY <1>0 DEF Own, MatchInv
  <2>5. panel' # None => panel'.model.of = oid
    BY <2>3, <2>4 DEF PanelInv, Panels
  <2> QED
    BY <1>0, <2>3, <2>4, <2>5 DEF Own
<1>14. CASE \E b \in Boards : ReadBackFails(b)
  <2>1. /\ UNCHANGED <<look, oid, queue, running, custom>>
        /\ panel' = panel \/ panel' = None
           \/ (panel # None /\ \E saving \in BOOLEAN : panel' = [panel EXCEPT !.saving = saving])
    BY <1>14 DEF ReadBackFails, server, session, PanelInv, Panels
  <2> QED
    BY <1>0, <2>1, OwnRests DEF PanelKept, RunsOn
<1>15. CASE Answer
  <2>1. PICK op : /\ running # None /\ op = running.op /\ OpOk(op)
                  /\ (Accepted(op) \/ Refused(op)) /\ oid' = oid /\ custom' = custom
    BY <1>15, Answers
  <2>2. CASE Accepted(op)
    <3>1. queue' = queue /\ running' = None
      BY <2>2 DEF Accepted
    <3>2. \A b \in Boards : look'[b].of = b
      BY <1>0, <2>1, <2>2, Serves DEF Accepted, Own, OpOwn, PanelInv
    <3>3. panel' # None => panel'.model.of = oid
      BY <1>0, <2>2 DEF Accepted, Own, PanelInv, Panels
    <3> QED
      BY <1>0, <2>1, <3>1, <3>2, <3>3 DEF Own
  <2>3. CASE Refused(op)
    <3>1. look' = look /\ queue' = queue /\ SaveEnds(op)
      BY <2>3 DEF Refused, server
    <3>2. running' # None => running'.op = running.op
      BY <2>1, <2>3 DEF Refused, TrafficInv, Requests
    <3>3. panel' # None => panel'.model.of = oid
      BY <1>0, <3>1 DEF SaveEnds, Own, PanelInv, Panels
    <3> QED
      BY <1>0, <2>1, <3>1, <3>2, <3>3 DEF Own
  <2> QED
    BY <2>1, <2>2, <2>3
<1> QED
  BY <1>1, <1>2, <1>3, <1>4, <1>5, <1>6, <1>7, <1>8, <1>9, <1>10, <1>11, <1>12, <1>13, <1>14, <1>15,
    Actions DEF Calm

-----------------------------------------------------------------------------
(* What a pending recap is about. *)

Between ==
  /\ seen # None /\ seen.of = oid /\ seen.sets > 0
  /\ seen.points = 0 \/ seen.sets = LastSet
DelayInv == delay # "off" /\ ~past.merged /\ ~past.carried => Between

LEMMA DelayRests ==
  ASSUME DelayInv, UNCHANGED <<seen, oid>>, delay' = delay \/ delay' = "off",
         past'.carried = past.carried /\ past'.merged = past.merged
  PROVE  DelayInv'
BY DEF DelayInv, Between

LEMMA DelayStep ==
  ASSUME MatchInv, ScreenInv, HookInv, TrafficInv, PastInv, DelayInv, [Next]_vars
  PROVE  DelayInv'
<1>1. CASE ~Switches /\ ~RunEffect
  <2>1. past'.carried = past.carried /\ past'.merged = past.merged
    BY <1>1, PastStep
  <2>2. CASE SessionReady \/ CustomReady \/ LoadFails \/ Push \/ UNCHANGED vars \/ Lost
    BY <2>1, <2>2, DelayRests DEF SessionReady, CustomReady, LoadFails, Push, vars, Lost, hook, session
  <2>3. CASE Rivals \/ Point \/ ToggleRecap \/ Send \/ Save \/ OpenPanel
    BY <2>1, <2>3, DelayRests DEF Rivals, RivalScores, RivalUndoes, Point, ToggleRecap, Send, Save,
      OpenPanel, hook, session
  <2>4. CASE \/ Edit \/ ClosePanel \/ Answer \/ ToggleAuto \/ DelayEnds \/ TimeToHide
             \/ \E b \in Boards : ReadBack(b) \/ ReadBackFails(b)
    BY <2>1, <2>4, DelayRests DEF Edit, ClosePanel, Answer, ToggleAuto, DelayEnds, TimeToHide,
      ReadBack, ReadBackFails, hook, session
  <2> QED
    BY <1>1, <2>2, <2>3, <2>4, Actions DEF Calm
<1>2. CASE Switches
  <2>1. delay' = delay /\ past'.carried = (delay # "off")
    BY <1>2 DEF Switches, Switch, PastInv, Pasts
  <2> QED
    BY <2>1 DEF DelayInv
<1>3. CASE RunEffect
  <2>1. /\ seen' = SeenNow /\ oid' = oid /\ Shows(screen) /\ seen' # None
        /\ seen'.of = oid /\ seen'.sets = screen.sets /\ seen'.points = screen.points
    BY <1>3, SeesTheScreen DEF RunEffect, ScreenInv, session, Shows, SeenNow
  <2>2. CASE delay' = "off"
    BY <2>2 DEF DelayInv
  <2>3. CASE Keep /\ seen = None
    BY <1>3, <2>3 DEF RunEffect, Keep, DelayInv, Between
  <2>4. CASE SetWon /\ seen # None /\ screen.sets > seen.sets
    <3>1. past'.merged = (past.merged \/ screen.points = 1)
      BY <1>3, <2>4 DEF RunEffect, PastInv, Pasts
    <3>2. screen.sets > 0 /\ (screen.points # 1 => screen.points = 0 \/ screen.sets = LastSet)
      BY <2>1, <2>4, TabAssumption DEF Shows, HookInv, Seens
    <3> QED
      BY <2>1, <3>1, <3>2 DEF DelayInv, Between
  <2>5. CASE Keep /\ seen # None /\ screen.sets = seen.sets /\ screen.points <= seen.points
    <3>1. ~past'.merged /\ ~past'.carried => ~past.merged /\ ~past.carried
      BY <1>3, <2>5 DEF RunEffect, PastInv, Pasts
    <3>2. delay' = delay
      BY <2>5 DEF Keep
    <3>3. seen.points = 0 => screen.points = 0
      BY <2>1, <2>5 DEF Shows
    <3> QED
      BY <2>1, <2>5, <3>1, <3>2, <3>3 DEF DelayInv, Between
  <2> QED
    BY <1>3, <2>2, <2>3, <2>4, <2>5, Effects DEF Keep
<1> QED
  BY <1>1, <1>2, <1>3

-----------------------------------------------------------------------------
(* The edit: as long as it is neither saved nor given up, no answer is on its *)
(* way but one that would save it.                                            *)

Carries(op) == op.kind \in Writes => op.kind = "save" /\ op.model.edited
Holds == panel # None /\ panel.dirty /\ panel.model.edited
Typed ==
  /\ Holds
  /\ loading = "no" /\ \A b \in Boards : ~(reads[b] > 0)
  /\ \A i \in DOMAIN queue : Carries(queue[i])
  /\ running # None => Carries(running.op)
TypedInv == past.edit = "typed" => Typed

LEMMA TypedRests ==
  ASSUME Typed, PanelInv, TrafficInv, UNCHANGED <<loading, reads>>,
         queue' = queue \/ \E op \in Ops : Enqueue(op) /\ Carries(op),
         \/ panel' = panel
         \/ panel' = [panel EXCEPT !.dirty = TRUE]
         \/ \E saving \in BOOLEAN : panel' = [panel EXCEPT !.saving = saving],
         running' # None => running # None /\ running'.op = running.op
  PROVE  Typed'
<1>1. panel \in Panels /\ panel.dirty /\ panel.model.edited
  BY DEF Typed, Holds, PanelInv
<1>2. Holds'
  BY <1>1, TabAssumption DEF Panels, Holds
<1>3. \A i \in DOMAIN queue' : Carries(queue'[i])
  <2>1. CASE queue' = queue
    BY <2>1 DEF Typed
  <2>2. ASSUME NEW op \in Ops, Enqueue(op), Carries(op)
        PROVE  \A i \in DOMAIN queue' : Carries(queue'[i])
    <3>1. queue \in Seq(Ops) /\ queue' = Append(queue, op)
      BY <2>2 DEF Enqueue, TrafficInv
    <3>2. \A i \in DOMAIN queue' : (i \in DOMAIN queue /\ queue'[i] = queue[i]) \/ queue'[i] = op
      BY <3>1
    <3> QED
      BY <2>2, <3>2 DEF Typed
  <2> QED
    BY <2>1, <2>2
<1> QED
  BY <1>2, <1>3 DEF Typed

LEMMA TypedStep ==
  ASSUME MatchInv, RevisionInv, ScreenInv, HookInv, TrafficInv, PanelInv, PastInv, TypedInv,
         [Next]_vars
  PROVE  TypedInv'
<1> SUFFICES ASSUME past'.edit = "typed"
             PROVE  Typed'
  BY DEF TypedInv
<1>1. CASE past.edit # "typed"
  <2>1. Edit
    BY <1>1, PastStep
  <2>2. /\ ~Traffic /\ UNCHANGED <<loading, queue, running, reads>> /\ panel # None
        /\ panel' = [panel EXCEPT !.model.edited = TRUE, !.dirty = TRUE]
    BY <1>1, <2>1 DEF Edit, session, PastInv, Pasts
  <2>3. Holds'
    <3>1. panel \in Panels
      BY <2>2 DEF PanelInv
    <3>2. panel' \in Panels /\ panel'.dirty
      BY <2>2, <3>1 DEF Panels, Looks
    <3>3. panel'.model.edited
      BY <2>2, <3>1 DEF Panels, Looks
    <3> QED
      BY <3>2, <3>3, TabAssumption DEF Holds
  <2> QED
    BY <2>2, <2>3 DEF Traffic, Typed, Carries
<1>2. CASE past.edit = "typed"
  <2>0. Typed
    BY <1>2 DEF TypedInv
  <2>1. CASE Push \/ UNCHANGED vars \/ Rivals \/ ToggleAuto
    BY <2>0, <2>1, TypedRests DEF Push, vars, session, Rivals, RivalScores, RivalUndoes, ToggleAuto
  <2>2. CASE \/ SessionReady \/ CustomReady \/ LoadFails \/ OpenPanel
             \/ \E b \in Boards : ReadBack(b) \/ ReadBackFails(b)
    BY <2>0, <2>2 DEF Typed, Holds, SessionReady, CustomReady, LoadFails, OpenPanel, ReadBack,
      ReadBackFails
  <2>3. CASE Switches \/ ClosePanel
    <3>1. past'.edit = "dropped"
      BY <2>0, <2>3 DEF Typed, Holds, GivesUp, Switches, Switch, ClosePanel, Leaving, PastInv, Pasts
    <3> QED
      BY <3>1
  <2>4. CASE Point \/ ToggleRecap \/ DelayEnds \/ TimeToHide
    <3>1. PICK kind \in Kinds \ Writes, by \in Hands : Enqueue(Request(kind, by))
      BY <2>4 DEF Point, ToggleRecap, DelayEnds, TimeToHide, Kinds, Hands, Writes
    <3>2. UNCHANGED <<loading, reads, running, panel>>
      BY <2>4 DEF Point, ToggleRecap, DelayEnds, TimeToHide, session
    <3>3. Request(kind, by) \in Ops /\ Carries(Request(kind, by))
      BY Requested DEF OpOk, Carries, Request, Op, Writes
    <3> QED
      BY <2>0, <3>1, <3>2, <3>3, TypedRests
  <2>5. CASE RunEffect
    <3>1. UNCHANGED <<loading, reads, running, panel>>
      BY <2>5 DEF RunEffect, session
    <3>2. queue' = queue \/ Enqueue(Request("hide", "tab"))
      BY <2>5, Effects DEF Keep, SetWon
    <3>3. Request("hide", "tab") \in Ops /\ Carries(Request("hide", "tab"))
      BY Requested DEF OpOk, Carries, Request, Op, Writes, Kinds, Hands
    <3> QED
      BY <2>0, <3>1, <3>2, <3>3, TypedRests
  <2>6. CASE Save
    <3> DEFINE op == Op(oid, "save", "hand", panel.model)
    <3>1. /\ Enqueue(op) /\ UNCHANGED <<loading, reads, running>>
          /\ panel' = [panel EXCEPT !.saving = TRUE]
      BY <2>6 DEF Save, session
    <3>2. op \in Ops /\ Carries(op)
      BY <2>0 DEF Typed, Holds, PanelInv, Panels, Op, Ops, Carries, Kinds, Hands, MatchInv
    <3> HIDE DEF op
    <3> QED
      BY <2>0, <3>1, <3>2, TypedRests
  <2>7. CASE Edit
    <3>1. /\ UNCHANGED <<loading, queue, running, reads>>
          /\ panel' = [panel EXCEPT !.dirty = TRUE]
      BY <1>2, <2>7 DEF Edit, session
    <3> QED
      BY <2>0, <3>1, TypedRests
  <2>8. CASE Lost
    <3>1. UNCHANGED <<loading, queue, reads>> /\ running' = None /\ \E op : SaveEnds(op)
      BY <2>8 DEF Lost, session
    <3> QED
      BY <2>0, <3>1, TypedRests DEF SaveEnds
  <2>9. CASE Send
    <3> DEFINE op == Head(queue)
    <3>1. /\ queue # <<>> /\ queue' = Tail(queue) /\ UNCHANGED <<loading, reads>>
          /\ panel' = panel \/ SaveEnds(op)
          /\ running' # None => running'.op = op
      BY <2>9 DEF Send, session
    <3>2. Carries(op) /\ \A i \in DOMAIN queue' : Carries(queue'[i])
      BY <2>0, <3>1, Dequeues DEF Typed
    <3>3. Holds'
      BY <2>0, <3>1, TabAssumption DEF Typed, Holds, SaveEnds, PanelInv, Panels
    <3> HIDE DEF op
    <3> QED
      BY <2>0, <3>1, <3>2, <3>3 DEF Typed
  <2>10. CASE Answer
    <3>1. PICK op : /\ running # None /\ op = running.op /\ OpOk(op)
                    /\ (Accepted(op) \/ Refused(op)) /\ loading' = loading
      BY <2>10, Answers
    <3>2. Carries(op)
      BY <2>0, <3>1 DEF Typed
    <3>3. CASE Accepted(op)
      <4>1. ~(op.kind \in Writes)
        <5> SUFFICES ASSUME op.kind \in Writes PROVE FALSE
          OBVIOUS
        <5>1. op.kind = "save" /\ op.model.edited
          BY <3>2 DEF Carries
        <5>2. past'.edit = "saved"
          BY <3>3, <5>1 DEF Accepted, Remember, PastInv, Pasts
        <5> QED
          BY <5>2
      <4>2. UNCHANGED <<queue, panel, reads>> /\ running' = None
        BY <3>3, <4>1 DEF Accepted, Writes
      <4> QED
        BY <2>0, <3>1, <4>2, TypedRests
    <3>4. CASE Refused(op)
      <4>1. UNCHANGED <<queue, reads>> /\ SaveEnds(op)
        BY <3>4 DEF Refused
      <4>2. running' # None => running'.op = running.op
        BY <3>1, <3>4 DEF Refused, TrafficInv, Requests
      <4> QED
        BY <2>0, <3>1, <4>1, <4>2, TypedRests DEF SaveEnds
    <3> QED
      BY <3>1, <3>3, <3>4
  <2> QED
    BY <2>1, <2>2, <2>3, <2>4, <2>5, <2>6, <2>7, <2>8, <2>9, <2>10, Actions DEF Calm
<1> QED
  BY <1>1, <1>2

-----------------------------------------------------------------------------
(* What the screen shows is the board's as soon as its revision is, and the *)
(* effect has seen it as soon as it has run.                                *)

Latest == screen.rev <= rev[oid] /\ (screen.rev = rev[oid] => screen = State(oid))
Watched == screen # None /\ ~unseen => seen = SeenNow
FreshInv == recap \in [Boards -> BOOLEAN] /\ (screen # None => Latest) /\ Watched

\* A step of the server that changes what a board shows counts.
Counted(b) ==
  /\ recap' \in [Boards -> BOOLEAN]
  /\ \/ rev' = rev /\ match' = match /\ recap' = recap
     \/ rev' = [rev EXCEPT ![b] = @ + 1] /\ (b = oid \/ State(oid)' = State(oid))

LEMMA StaysLatest ==
  ASSUME MatchInv, RevisionInv, ScreenInv, screen # None, Latest,
         NEW b \in Boards, Counted(b), oid' = oid
  PROVE  /\ screen.rev \in Nat /\ rev[oid]' \in Nat /\ screen.rev <= rev[oid]'
         /\ screen.rev = rev[oid]' => screen = State(oid)'
<1>1. rev \in [Boards -> Nat] /\ oid \in Boards /\ screen.rev \in Nat
  BY DEF RevisionInv, MatchInv, ScreenInv, Shows
<1>2. CASE rev' = rev /\ match' = match /\ recap' = recap
  BY <1>1, <1>2 DEF Latest, State, Over
<1>3. CASE rev' = [rev EXCEPT ![b] = @ + 1] /\ b = oid
  BY <1>1, <1>3 DEF Latest
<1>4. CASE rev' = [rev EXCEPT ![b] = @ + 1] /\ b # oid /\ State(oid)' = State(oid)
  BY <1>1, <1>4 DEF Latest
<1> QED
  BY <1>2, <1>3, <1>4 DEF Counted

LEMMA FreshRests ==
  ASSUME MatchInv, RevisionInv, ScreenInv, FreshInv, \E b \in Boards : Counted(b),
         UNCHANGED <<oid, screen, seen>>, unseen' = unseen \/ unseen' = (screen # None)
  PROVE  FreshInv'
<1>1. screen # None => Latest'
  BY StaysLatest DEF FreshInv, Latest
<1> QED
  BY <1>1 DEF FreshInv, Watched, SeenNow, Counted

\* An authoritative state is shown, or the screen shows it or a later one.
LEMMA FreshApplies ==
  ASSUME MatchInv, RevisionInv, ScreenInv, FreshInv, \E b \in Boards : Counted(b),
         Apply(State(oid)'), UNCHANGED <<oid, seen>>, rev[oid]' \in Nat
  PROVE  FreshInv'
<1>1. State(oid)'.rev = rev[oid]'
  BY DEF State
<1>3. CASE UNCHANGED <<screen, unseen>>
  BY <1>3, FreshRests
<1>4. CASE screen' = State(oid)' /\ unseen' = TRUE
  <2>1. Latest'
    BY <1>1, <1>4 DEF Latest
  <2> QED
    BY <1>4, <2>1 DEF FreshInv, Watched, Counted
<1> QED
  BY <1>3, <1>4 DEF Apply

LEMMA ServesCounted ==
  ASSUME MatchInv, RevisionInv, FreshInv, NEW op, OpOk(op), Serve(op), oid' = oid
  PROVE  Counted(op.board)
<1>1. op.board \in Boards /\ op.kind \in Kinds
  BY DEF OpOk, Ops
<1>2. /\ recap \in [Boards -> BOOLEAN] /\ match \in [Boards -> Played]
      /\ rev \in [Boards -> Nat] /\ oid \in Boards
  BY DEF FreshInv, MatchInv, RevisionInv
<1>3. CASE op.kind = "point"
  <2>1. CASE Over(op.board)
    BY <1>2, <1>3, <2>1 DEF Serve, server, Counted
  <2>2. CASE ~Over(op.board)
    <3>1. ScorePoint(op.board)
      BY <1>3, <2>2 DEF Serve
    <3> QED
      BY <1>1, <1>2, <3>1 DEF ScorePoint, Counted, State, Over
  <2> QED
    BY <2>1, <2>2
<1>4. CASE op.kind \in {"show", "hide"}
  <2>1. PICK on \in BOOLEAN : SetRecap(op.board, on)
    BY <1>4 DEF Serve
  <2> QED
    BY <1>1, <1>2, <2>1 DEF SetRecap, Counted, State, Over
<1>5. CASE op.kind = "save"
  <2>1. SaveLook(op.board, op.model)
    BY <1>5 DEF Serve
  <2> QED
    BY <1>1, <1>2, <2>1 DEF SaveLook, Counted, State, Over
<1>6. CASE op.kind = "sync"
  <2>1. SaveLocale(op.board)
    BY <1>6 DEF Serve
  <2> QED
    BY <1>1, <1>2, <2>1 DEF SaveLocale, Counted, State, Over
<1> QED
  BY <1>1, <1>3, <1>4, <1>5, <1>6 DEF Kinds

LEMMA FreshStep ==
  ASSUME MatchInv, RevisionInv, ScreenInv, TrafficInv, FreshInv, [Next]_vars
  PROVE  FreshInv'
<1>1. UNCHANGED <<server, oid>> => Counted(oid) /\ oid \in Boards /\ State(oid)' = State(oid)
  BY DEF server, Counted, FreshInv, MatchInv, State, Over
<1>2. rev[oid]' \in Nat
  BY ScoreStep DEF RevisionInv, MatchInv
<1>3. CASE SessionReady \/ Push
  <2>1. Apply(State(oid)) /\ UNCHANGED <<server, oid, seen>>
    BY <1>3 DEF SessionReady, Push
  <2>2. Apply(State(oid)')
    BY <1>1, <2>1 DEF Apply
  <2> QED
    BY <1>1, <1>2, <2>1, <2>2, FreshApplies
<1>4. CASE \/ CustomReady \/ LoadFails \/ UNCHANGED vars \/ Point \/ ToggleRecap \/ Send \/ Lost
           \/ OpenPanel \/ Edit \/ Save \/ ClosePanel
  <2>1. UNCHANGED <<screen, seen, unseen>>
    BY <1>4 DEF CustomReady, LoadFails, vars, Point, ToggleRecap, Send, Lost, OpenPanel, Edit,
      Save, ClosePanel, session, hook
  <2> QED
    BY <1>1, <1>4, <2>1, CalmServer, FreshRests DEF Calm
<1>5. CASE DelayEnds \/ TimeToHide \/ ToggleAuto \/ \E b \in Boards : ReadBack(b) \/ ReadBackFails(b)
  <2>1. UNCHANGED <<screen, seen>> /\ (unseen' = unseen \/ unseen' = (screen # None))
    BY <1>5 DEF DelayEnds, TimeToHide, ToggleAuto, ReadBack, ReadBackFails, session, hook
  <2> QED
    BY <1>1, <1>5, <2>1, CalmServer, FreshRests DEF Calm
<1>6. CASE RunEffect
  BY <1>6 DEF RunEffect, FreshInv, Latest, Watched, SeenNow, State, Over, server, session
<1>7. CASE Rivals
  <2>1. PICK b \in Boards : RivalScores(b) \/ RivalUndoes(b)
    BY <1>7 DEF Rivals
  <2>2. UNCHANGED <<oid, screen, seen, unseen, recap>> /\ rev' = [rev EXCEPT ![b] = @ + 1]
        /\ \E played : match' = [match EXCEPT ![b] = played]
    BY <2>1 DEF RivalScores, ScorePoint, RivalUndoes, session, hook
  <2>3. Counted(b)
    BY <2>2 DEF Counted, FreshInv, MatchInv, RevisionInv, State, Over
  <2> QED
    BY <2>2, <2>3, FreshRests
<1>8. CASE Switches
  BY <1>8 DEF Switches, Switch, server, FreshInv, Watched
<1>9. CASE Answer
  <2>1. PICK op : /\ OpOk(op) /\ (Accepted(op) \/ Refused(op)) /\ UNCHANGED <<oid, seen>>
    BY <1>9, Answers
  <2>2. \E b \in Boards : Counted(b)
    BY <1>1, <2>1, ServesCounted DEF Accepted, Refused, OpOk, Ops, MatchInv
  <2>3. CASE UNCHANGED <<screen, unseen>>
    BY <2>1, <2>2, <2>3, FreshRests
  <2>4. CASE op.board = oid /\ Accepted(op)
    <3>1. Apply(State(oid)')
      BY <2>1, <2>4 DEF Accepted, State, Over
    <3> QED
      BY <1>2, <2>1, <2>2, <3>1, FreshApplies
  <2>5. CASE op.board = oid /\ Refused(op)
    <3>1. Apply(State(oid)')
      BY <1>1, <2>1, <2>5 DEF Refused, Apply
    <3> QED
      BY <1>2, <2>1, <2>2, <3>1, FreshApplies
  <2> QED
    BY <2>1, <2>3, <2>4, <2>5 DEF Accepted, Refused
<1> QED
  BY <1>3, <1>4, <1>5, <1>6, <1>7, <1>8, <1>9, Actions DEF Calm

-----------------------------------------------------------------------------
(* The tab's recap.  Unless the effect has seen the end of a set, or of the *)
(* match, and is about to hide the recap again, every recap that the tab has *)
(* raised or is raising is followed by a request of the tab's to hide it.    *)

TabHides(op) == op.kind = "hide" /\ op.by = "tab" /\ op.board = oid
Covered == seen # None /\ seen.points # 1 /\ (dismiss \/ seen.sets = LastSet)
HideComes == \E j \in DOMAIN queue : TabHides(queue[j])
Yields ==
  /\ past.raised[oid] => HideComes \/ (running # None /\ TabHides(running.op))
  /\ running # None /\ TabRaises(running.op) => HideComes
  /\ \A i \in DOMAIN queue :
       TabRaises(queue[i]) => \E j \in DOMAIN queue : j > i /\ TabHides(queue[j])
Here(op) == TabRaises(op) => op.board = oid
Pends ==
  delay # "off" =>
    ~dismiss /\ seen # None /\ seen.points # 1 /\ (delay # "set" => seen.sets = LastSet)
Recap ==
  /\ \A b \in Boards : past.raised[b] => b = oid
  /\ \A i \in DOMAIN queue : Here(queue[i])
  /\ running # None => Here(running.op)
  /\ enabled /\ Pends
  /\ Covered \/ Yields
Astray == past.abandoned \/ past.merged
RecapInv == dismiss \in BOOLEAN /\ (Astray \/ Recap)

LEMMA RecapRests ==
  ASSUME Recap, UNCHANGED <<oid, enabled, seen, delay, dismiss, queue>>,
         past'.raised = past.raised,
         \/ running' = running
         \/ running # None /\ ~(running.op.by = "tab")
            /\ (running' # None => running'.op = running.op)
  PROVE  Recap'
<1>1. (running # None => Here(running.op)) => (running # None => Here(running.op))'
  BY DEF Here, TabRaises
<1>2. Yields => Yields'
  BY DEF Yields, HideComes, TabHides, TabRaises
<1>3. (\A i \in DOMAIN queue : Here(queue[i])) => (\A i \in DOMAIN queue : Here(queue[i]))'
  BY DEF Here
<1>4. Covered' = Covered /\ Pends' = Pends
  BY DEF Covered, Pends
<1> QED
  BY <1>1, <1>2, <1>3, <1>4 DEF Recap

\* A request of the operator's, at the end of the queue, changes nothing.
LEMMA RecapEnqueues ==
  ASSUME Recap, TrafficInv, UNCHANGED <<oid, enabled, seen, delay, dismiss, running>>,
         past'.raised = past.raised, NEW op \in Ops, Enqueue(op), ~TabRaises(op)
  PROVE  Recap'
<1>1. queue \in Seq(Ops) /\ queue' = Append(queue, op)
  BY DEF Enqueue, TrafficInv
<1>2. \A i \in DOMAIN queue' : (i \in DOMAIN queue /\ queue'[i] = queue[i]) \/ queue'[i] = op
  BY <1>1
<1>3. \A i \in DOMAIN queue : i \in DOMAIN queue' /\ queue'[i] = queue[i]
  BY <1>1
<1>4. Yields => Yields'
  BY <1>2, <1>3 DEF Yields, HideComes, TabHides, TabRaises
<1>5. (\A i \in DOMAIN queue : Here(queue[i]))'
  BY <1>2 DEF Recap, Here, TabRaises
<1>6. Covered' = Covered /\ Pends' = Pends
  BY DEF Covered, Pends
<1> QED
  BY <1>4, <1>5, <1>6 DEF Recap, Here, TabRaises

\* After a request to hide, at the end of the queue, every recap yields.
LEMMA HideYields ==
  ASSUME Recap, TrafficInv, MatchInv, UNCHANGED <<oid, running>>, past'.raised = past.raised,
         Enqueue(Request("hide", "tab"))
  PROVE  Yields' /\ (\A i \in DOMAIN queue : Here(queue[i]))'
<1> DEFINE op == Request("hide", "tab")
<1>1. op \in Ops /\ op.kind = "hide" /\ op.by = "tab" /\ op.board = oid
  BY Requested DEF OpOk, Request, Op, Kinds, Hands
<1>2. queue \in Seq(Ops) /\ queue' = Append(queue, op)
  BY DEF Enqueue, TrafficInv
<1> HIDE DEF op
<1>3. /\ Len(queue) + 1 \in DOMAIN queue' /\ queue'[Len(queue) + 1] = op
      /\ \A i \in DOMAIN queue' :
           (i \in DOMAIN queue /\ queue'[i] = queue[i] /\ Len(queue) + 1 > i) \/ queue'[i] = op
  BY <1>1, <1>2
<1>4. ~TabRaises(op)
  BY <1>1 DEF TabRaises
<1>5. (\A i \in DOMAIN queue : Here(queue[i]))'
  BY <1>3, <1>4 DEF Recap, Here
<1>6. Yields'
  BY <1>1, <1>3, <1>4 DEF Yields, HideComes, TabHides
<1> QED
  BY <1>5, <1>6

LEMMA RecapSends ==
  ASSUME Recap, ScreenInv, TrafficInv, Send, past'.raised = past.raised
  PROVE  Recap'
<1> DEFINE op == Head(queue)
<1>1. /\ running = None /\ queue # <<>> /\ queue' = Tail(queue)
      /\ UNCHANGED <<oid, enabled, seen, delay, dismiss>>
      /\ \/ running' # None /\ running'.op = op
         \/ running' = None /\ op.board # oid
  <2>1. ASSUME running' = [op |-> op, retry |-> op.kind = "sync",
                           rev |-> IF screen = None THEN None ELSE screen.rev]
        PROVE  running' # None /\ running'.op = op
    <3>1. op \in Ops /\ (op.kind = "sync") \in BOOLEAN
      BY Dequeues DEF Send, OpOk
    <3>2. (IF screen = None THEN None ELSE screen.rev) \in Nat \cup {None}
      BY DEF ScreenInv, Shows
    <3>3. running' \in Requests /\ running'.op = op
      BY <2>1, <3>1, <3>2 DEF Requests
    <3> QED
      BY <3>3, TabAssumption
  <2> QED
    BY <2>1 DEF Send, session, hook
<1>2. queue \in Seq(Ops) /\ 1 \in DOMAIN queue /\ op = queue[1]
      /\ \A i \in DOMAIN queue' : i + 1 \in DOMAIN queue /\ queue'[i] = queue[i + 1]
  BY <1>1, Dequeues DEF TrafficInv
<1>3. \A i \in DOMAIN queue : i = 1 \/ (i - 1 \in DOMAIN queue' /\ queue'[i - 1] = queue[i])
  BY <1>1, <1>2
<1>4. DOMAIN queue \subseteq Nat /\ DOMAIN queue' \subseteq Nat
  BY <1>1, <1>2
<1> HIDE DEF op
<1>5. \A i \in DOMAIN queue : i # 1 /\ TabHides(queue[i])
        => i - 1 \in DOMAIN queue' /\ queue'[i - 1].kind = "hide" /\ queue'[i - 1].by = "tab"
           /\ queue'[i - 1].board = oid
  BY <1>3 DEF TabHides
<1>6. ASSUME Yields PROVE Yields'
  <2>1. past.raised[oid] => (HideComes \/ (running # None /\ TabHides(running.op)))'
    <3> SUFFICES ASSUME past.raised[oid]
                 PROVE  (HideComes \/ (running # None /\ TabHides(running.op)))'
      OBVIOUS
    <3>1. PICK j \in DOMAIN queue : TabHides(queue[j])
      BY <1>1, <1>6 DEF Yields, HideComes
    <3>2. CASE j = 1
      BY <1>1, <1>2, <3>1, <3>2 DEF TabHides
    <3>3. CASE j # 1
      BY <1>1, <1>5, <3>1, <3>3 DEF HideComes, TabHides
    <3> QED
      BY <3>2, <3>3
  <2>2. (running # None /\ TabRaises(running.op))' => HideComes'
    <3> SUFFICES ASSUME running' # None, TabRaises(running'.op) PROVE HideComes'
      BY DEF TabRaises
    <3>1. TabRaises(queue[1])
      BY <1>1, <1>2
    <3>2. PICK j \in DOMAIN queue : j > 1 /\ TabHides(queue[j])
      BY <1>2, <1>6, <3>1 DEF Yields
    <3>3. j # 1
      BY <1>4, <3>2
    <3> QED
      BY <1>1, <1>5, <3>2, <3>3 DEF HideComes, TabHides
  <2>3. ASSUME NEW i \in DOMAIN queue', TabRaises(queue'[i])
        PROVE  \E j \in DOMAIN queue' : j > i /\ queue'[j].kind = "hide"
                 /\ queue'[j].by = "tab" /\ queue'[j].board = oid
    <3>1. PICK j \in DOMAIN queue : j > i + 1 /\ TabHides(queue[j])
      BY <1>2, <1>6, <2>3 DEF Yields
    <3>2. j # 1 /\ j - 1 > i
      BY <1>4, <3>1
    <3> QED
      BY <1>5, <3>1, <3>2
  <2>4. past'.raised[oid'] = past.raised[oid] /\ oid' = oid
    BY <1>1
  <2> QED
    BY <2>1, <2>2, <2>3, <2>4 DEF Yields, TabHides, TabRaises
<1>7. (\A i \in DOMAIN queue : Here(queue[i]))' /\ (running # None => Here(running.op))'
  BY <1>1, <1>2 DEF Recap, Here
<1>8. Covered' = Covered /\ Pends' = Pends
  BY <1>1 DEF Covered, Pends
<1> QED
  BY <1>1, <1>6, <1>7, <1>8 DEF Recap

\* The effect hides a recap that may be up when it has seen that play goes on.
LEMMA RecapRuns ==
  ASSUME MatchInv, ScreenInv, HookInv, TrafficInv, PastInv, Recap, dismiss \in BOOLEAN,
         RunEffect, ~past'.abandoned, ~past'.merged, past'.raised = past.raised
  PROVE  Recap'
<1>1. /\ seen' = SeenNow /\ Shows(screen) /\ seen' # None /\ seen'.points = screen.points
      /\ seen'.sets = screen.sets /\ UNCHANGED <<oid, enabled, running>> /\ enabled
  BY SeesTheScreen DEF RunEffect, ScreenInv, session, SeenNow, Recap
<1>2. /\ screen.sets \in 0..LastSet /\ screen.points \in 0..2
      /\ seen # None => seen.sets \in 0..LastSet /\ seen.points \in 0..2
                        /\ (seen.points = 2 <=> seen.sets = LastSet)
  BY <1>1 DEF Shows, HookInv, Seens
<1>3. ASSUME queue' = queue, UNCHANGED <<delay, dismiss>>, Pends', Covered => Covered'
      PROVE  Recap'
  <2>1. Yields => Yields'
    BY <1>1, <1>3 DEF Yields, HideComes, TabHides
  <2>2. (\A i \in DOMAIN queue : Here(queue[i]))' /\ (running # None => Here(running.op))'
    BY <1>1, <1>3 DEF Recap, Here
  <2> QED
    BY <1>1, <1>3, <2>1, <2>2 DEF Recap
<1>4. ASSUME Enqueue(Request("hide", "tab")), Pends'
      PROVE  Recap'
  <2>1. Yields' /\ (\A i \in DOMAIN queue : Here(queue[i]))'
    BY <1>1, <1>4, HideYields
  <2>2. (running # None => Here(running.op))'
    BY <1>1 DEF Recap, Here
  <2> QED
    BY <1>1, <1>4, <2>1, <2>2 DEF Recap
<1>5. CASE seen = None
  <2>1. Keep
    BY <1>1, <1>5 DEF RunEffect
  <2> QED
    BY <1>3, <1>5, <2>1 DEF Keep, Covered, Recap, Pends
<1>6. CASE seen # None /\ screen.sets < seen.sets
  <2>0. ~(screen.sets > seen.sets) /\ screen.sets # seen.sets
    BY <1>2, <1>6, TabAssumption
  <2>1. SetUndone
    BY <1>1, <1>6, <2>0 DEF RunEffect
  <2> QED
    BY <1>4, <2>1 DEF SetUndone, Quiet, Pends
<1>7. CASE seen # None /\ screen.sets > seen.sets
  <2>0. ~(screen.sets < seen.sets) /\ screen.sets # seen.sets
    BY <1>2, <1>7, TabAssumption
  <2>1. SetWon
    BY <1>1, <1>7, <2>0 DEF RunEffect
  <2>2. screen.points # 1 /\ ~dismiss
    BY <1>7 DEF RunEffect, PastInv, Pasts
  <2>3. ~Covered
    BY <1>2, <1>7, <2>2, TabAssumption DEF Covered
  <2>4. delay' # "set" => screen.over
    BY <2>1 DEF SetWon
  <2>5. screen.over => screen.sets = LastSet
    BY <1>1 DEF Shows
  <2>6. Pends'
    BY <1>1, <2>1, <2>2, <2>4, <2>5 DEF SetWon, Pends
  <2>7. Yields'
    BY <1>1, <2>1, <2>3 DEF SetWon, Recap, Yields, HideComes, TabHides
  <2>8. (\A i \in DOMAIN queue : Here(queue[i]))' /\ (running # None => Here(running.op))'
    BY <1>1, <2>1 DEF SetWon, Recap, Here
  <2> QED
    BY <1>1, <2>6, <2>7, <2>8 DEF Recap
<1>8. CASE seen # None /\ screen.sets = seen.sets /\ screen.points <= seen.points
  <2>1. Keep
    BY <1>1, <1>2, <1>8 DEF RunEffect
  <2>2. seen.points # 1 => screen.points # 1
    BY <1>1, <1>2, <1>8, TabAssumption DEF Shows
  <2> QED
    BY <1>1, <1>3, <1>8, <2>1, <2>2 DEF Keep, Covered, Recap, Pends
<1>9. CASE seen # None /\ screen.sets = seen.sets /\ screen.points > seen.points
  <2>1. PlayResumed /\ screen.sets # LastSet
    BY <1>1, <1>2, <1>9 DEF RunEffect, Shows
  <2>2. CASE delay # "off"
    <3>1. delay' = "off" /\ UNCHANGED <<dismiss, queue>> /\ ~dismiss
      BY <2>1, <2>2 DEF PlayResumed, Recap, Pends
    <3>2. ~Covered /\ Pends'
      BY <1>9, <2>1, <3>1 DEF Covered, Pends
    <3>3. Yields'
      BY <1>1, <3>1, <3>2 DEF Recap, Yields, HideComes, TabHides
    <3>4. (\A i \in DOMAIN queue : Here(queue[i]))' /\ (running # None => Here(running.op))'
      BY <1>1, <3>1 DEF Recap, Here
    <3> QED
      BY <1>1, <3>2, <3>3, <3>4 DEF Recap
  <2>3. CASE delay = "off" /\ dismiss
    BY <1>4, <2>1, <2>3 DEF PlayResumed, Pends
  <2>4. CASE delay = "off" /\ ~dismiss
    BY <1>3, <1>9, <2>1, <2>4 DEF PlayResumed, Keep, Pends, Covered
  <2> QED
    BY <2>2, <2>3, <2>4
<1> QED
  BY <1>2, <1>5, <1>6, <1>7, <1>8, <1>9, TabAssumption

LEMMA RecapAnswers ==
  ASSUME TrafficInv, RevisionInv, MatchInv, PastInv, Recap, Answer, ~past'.abandoned
  PROVE  Recap'
<1>1. PICK op : /\ running # None /\ op = running.op /\ OpOk(op) /\ (Accepted(op) \/ Refused(op))
                /\ UNCHANGED <<oid, enabled, seen, delay, dismiss>>
  BY Answers
<1>2. queue' = queue
  BY <1>1 DEF Accepted, Refused
<1>3. CASE Refused(op)
  <2>1. op.by # "tab" /\ past'.raised = past.raised
    BY <1>3 DEF Refused, PastInv, Pasts
  <2>2. running' # None => running'.op = running.op
    BY <1>1, <1>3 DEF Refused, TrafficInv, Requests
  <2> QED
    BY <1>1, <1>2, <2>1, <2>2, RecapRests
<1>4. CASE Accepted(op)
  <2>1. running' = None /\ Remember(op) /\ op.board \in Boards /\ Here(op)
    BY <1>1, <1>4 DEF Accepted, OpOk, Ops, Recap
  <2>2. \A b \in Boards :
          past'.raised[b] = IF op.kind \in {"show", "hide"} /\ b = op.board THEN TabRaises(op)
                            ELSE past.raised[b]
    <3>1. CASE op.kind \in {"show", "hide"}
      <4>1. past' = [past EXCEPT !.raised[op.board] = TabRaises(op)]
        BY <2>1, <3>1 DEF Remember
      <4> QED
        BY <2>1, <3>1, <4>1 DEF PastInv, Pasts
    <3>2. CASE op.kind \notin {"show", "hide"}
      <4>1. past' = past \/ \E edit : past' = [past EXCEPT !.edit = edit]
        BY <2>1, <3>2 DEF Remember
      <4> QED
        BY <3>2, <4>1 DEF PastInv, Pasts
    <3> QED
      BY <3>1, <3>2
  <2>3. Covered' = Covered /\ Pends' = Pends
    BY <1>1 DEF Covered, Pends
  <2>4. \A b \in Boards : past'.raised[b] => b = oid
    BY <2>1, <2>2 DEF Recap, Here
  <2>5. ASSUME Yields PROVE Yields'
    <3>1. ASSUME past'.raised[oid] PROVE HideComes'
      <4>1. TabRaises(op) \/ (past.raised[oid] /\ ~TabHides(op))
        BY <2>2, <3>1 DEF MatchInv, TabHides, TabRaises
      <4>2. HideComes
        BY <1>1, <2>5, <4>1 DEF Yields
      <4> QED
        BY <1>1, <1>2, <4>2 DEF HideComes, TabHides
    <3> QED
      BY <1>1, <1>2, <2>1, <2>5, <3>1 DEF Yields, TabHides
  <2>6. (\A i \in DOMAIN queue : Here(queue[i]))'
    BY <1>1, <1>2 DEF Recap, Here
  <2> QED
    BY <1>1, <2>1, <2>3, <2>4, <2>5, <2>6 DEF Recap
<1> QED
  BY <1>1, <1>3, <1>4

LEMMA RecapStep ==
  ASSUME MatchInv, RevisionInv, ScreenInv, HookInv, TrafficInv, PanelInv, PastInv, RecapInv,
         [Next]_vars
  PROVE  RecapInv'
<1>0. dismiss' \in BOOLEAN
  <2>1. CASE RunEffect
    BY <2>1, EffectsDismiss DEF RecapInv
  <2>2. CASE \/ SessionReady \/ CustomReady \/ LoadFails \/ Push \/ UNCHANGED vars \/ Lost \/ Rivals
             \/ Point \/ ToggleRecap \/ Send \/ Save \/ OpenPanel
    BY <2>2 DEF RecapInv, SessionReady, CustomReady, LoadFails, Push, vars, Lost, hook, Rivals,
      RivalScores, RivalUndoes, Point, ToggleRecap, Send, Save, OpenPanel
  <2>3. CASE \/ Edit \/ ClosePanel \/ Answer \/ ToggleAuto \/ DelayEnds \/ TimeToHide \/ Switches
             \/ \E b \in Boards : ReadBack(b) \/ ReadBackFails(b)
    BY <2>3 DEF RecapInv, Edit, ClosePanel, Answer, ToggleAuto, DelayEnds, TimeToHide, Switches,
      Switch, ReadBack, ReadBackFails, hook
  <2> QED
    BY <2>1, <2>2, <2>3, Actions DEF Calm
<1> SUFFICES ASSUME ~past'.abandoned, ~past'.merged
             PROVE  Recap'
  BY <1>0 DEF RecapInv, Astray
<1>1. Recap /\ dismiss \in BOOLEAN
  BY PastStep DEF RecapInv, Astray
<1>2. Answer \/ past'.raised = past.raised
  BY PastStep
<1>3. CASE SessionReady \/ CustomReady \/ LoadFails \/ Push \/ UNCHANGED vars
  <2>1. UNCHANGED <<oid, enabled, seen, delay, dismiss, queue, running, past>>
    BY <1>3 DEF SessionReady, CustomReady, LoadFails, Push, vars, session, hook
  <2> QED
    BY <1>1, <2>1, RecapRests
<1>4. CASE Rivals \/ OpenPanel \/ Edit \/ ClosePanel \/ \E b \in Boards : ReadBack(b) \/ ReadBackFails(b)
  <2>1. UNCHANGED <<oid, enabled, seen, delay, dismiss, queue, running>>
    BY <1>4 DEF Rivals, RivalScores, RivalUndoes, OpenPanel, Edit, ClosePanel, ReadBack,
      ReadBackFails, session, hook
  <2>2. past'.raised = past.raised
    BY <1>4 DEF Rivals, RivalScores, RivalUndoes, OpenPanel, Edit, ClosePanel, Leaving, ReadBack,
      ReadBackFails, PastInv, Pasts
  <2> QED
    BY <1>1, <2>1, <2>2, RecapRests
<1>5. CASE Point \/ ToggleRecap
  <2>1. PICK kind \in Kinds \ {"save"} : Enqueue(Request(kind, "hand"))
    BY <1>5 DEF Point, ToggleRecap, Kinds
  <2>2. UNCHANGED <<oid, enabled, seen, delay, dismiss, running, past>>
    BY <1>5 DEF Point, ToggleRecap, session, hook
  <2>3. Request(kind, "hand") \in Ops /\ ~TabRaises(Request(kind, "hand"))
    BY Requested DEF OpOk, Request, Op, Hands, TabRaises
  <2> QED
    BY <1>1, <2>1, <2>2, <2>3, RecapEnqueues
<1>6. CASE Save
  <2> DEFINE op == Op(oid, "save", "hand", panel.model)
  <2>1. /\ panel # None /\ Enqueue(op)
        /\ UNCHANGED <<oid, enabled, seen, delay, dismiss, running, past>>
    BY <1>6 DEF Save, session, hook
  <2>2. op \in Ops /\ ~TabRaises(op)
    BY <2>1 DEF PanelInv, Panels, Op, Ops, Kinds, Hands, MatchInv, TabRaises
  <2> HIDE DEF op
  <2> QED
    BY <1>1, <2>1, <2>2, RecapEnqueues
<1>7. CASE Send
  BY <1>1, <1>7, RecapSends DEF Send
<1>8. CASE Lost
  <2>1. /\ UNCHANGED <<oid, enabled, seen, delay, dismiss, queue>>
        /\ running # None /\ running' = None /\ ~(running.op.by = "tab")
        /\ past'.raised = past.raised
    BY <1>8 DEF Lost, session, hook, PastInv, Pasts
  <2> QED
    BY <1>1, <2>1, RecapRests
<1>9. CASE Switches
  <2>1. PICK b \in Boards : /\ Switch(b) /\ Enqueue(Op(b, "sync", "locale", None))
    BY <1>9 DEF Switches, Switch
  <2> DEFINE op == Op(b, "sync", "locale", None)
  <2>2. ~RecapLeft /\ past'.raised = past.raised
        /\ UNCHANGED <<running, enabled, seen, delay, dismiss>>
    BY <2>1 DEF Switch, PastInv, Pasts
  <2>3. op \in Ops /\ ~TabRaises(op)
    BY Requested DEF OpOk, Op, Kinds, Hands, TabRaises
  <2>4. queue \in Seq(Ops) /\ queue' = Append(queue, op)
    BY <2>1 DEF Enqueue, TrafficInv
  <2> HIDE DEF op
  <2>5. \A i \in DOMAIN queue' : (i \in DOMAIN queue /\ queue'[i] = queue[i]) \/ queue'[i] = op
    BY <2>3, <2>4
  <2>6. (\A i \in DOMAIN queue' : ~TabRaises(queue'[i])) /\ (running' # None => ~TabRaises(running'.op))
    BY <2>2, <2>3, <2>5 DEF RecapLeft
  <2>7. \A c \in Boards : ~past'.raised[c]
    BY <1>1, <2>2 DEF RecapLeft, Recap
  <2>8. oid' \in Boards
    BY ScoreStep DEF MatchInv
  <2>9. enabled' /\ Pends'
    BY <1>1, <2>2 DEF Recap, Pends
  <2> QED
    BY <2>6, <2>7, <2>8, <2>9 DEF Recap, Yields, Here, TabRaises
<1>10. CASE RunEffect
  BY <1>1, <1>10, RecapRuns DEF RunEffect, PastInv, Pasts
<1>11. CASE DelayEnds
  <2> DEFINE op == Request("show", "tab")
  <2>1. /\ delay # "off" /\ Enqueue(op) /\ delay' = "off" /\ dismiss' = (delay = "set")
        /\ UNCHANGED <<oid, enabled, seen, running, past>>
    BY <1>11 DEF DelayEnds, session, hook
  <2>2. op \in Ops /\ op.board = oid
    BY Requested DEF OpOk, Request, Op, Kinds, Hands
  <2>3. queue \in Seq(Ops) /\ queue' = Append(queue, op)
    BY <2>1 DEF Enqueue, TrafficInv
  <2> HIDE DEF op
  <2>4. \A i \in DOMAIN queue' : (i \in DOMAIN queue /\ queue'[i] = queue[i]) \/ queue'[i] = op
    BY <2>2, <2>3
  <2>5. (\A i \in DOMAIN queue : Here(queue[i]))' /\ (running # None => Here(running.op))'
    BY <1>1, <2>1, <2>2, <2>4 DEF Recap, Here
  <2>6. Covered' /\ Pends'
    BY <1>1, <2>1 DEF Recap, Pends, Covered
  <2> QED
    BY <1>1, <2>1, <2>5, <2>6 DEF Recap
<1>12. CASE TimeToHide
  <2>1. /\ dismiss /\ ~dismiss' /\ Enqueue(Request("hide", "tab"))
        /\ UNCHANGED <<oid, enabled, seen, running, past, delay>>
    BY <1>12 DEF TimeToHide, session, hook
  <2>2. Yields' /\ (\A i \in DOMAIN queue : Here(queue[i]))'
    BY <1>1, <2>1, HideYields
  <2>3. Pends' /\ (running # None => Here(running.op))'
    BY <1>1, <2>1 DEF Recap, Pends, Here
  <2> QED
    BY <1>1, <2>1, <2>2, <2>3 DEF Recap
<1>13. CASE ToggleAuto
  <2>1. past'.abandoned
    BY <1>1, <1>13 DEF ToggleAuto, PastInv, Pasts, Recap
  <2> QED
    BY <2>1
<1>14. CASE Answer
  BY <1>1, <1>14, RecapAnswers
<1> QED
  BY <1>3, <1>4, <1>5, <1>6, <1>7, <1>8, <1>9, <1>10, <1>11, <1>12, <1>13, <1>14, Actions DEF Calm

-----------------------------------------------------------------------------
Inv ==
  /\ MatchInv /\ RevisionInv /\ ScreenInv /\ HookInv
  /\ TrafficInv /\ PanelInv /\ PastInv /\ OwnInv /\ DelayInv
  /\ TypedInv /\ FreshInv /\ RecapInv

LEMMA Begins == ASSUME Init PROVE Inv
<1>1. MatchInv
  <2>1. PICK start \in Starts : match = [b \in Boards |-> [sets |-> start[b], points |-> 1]]
    BY DEF Init
  <2>2. start \in [Boards -> 0..LastSet - 1] /\ LastSet \in Nat
    BY TabAssumption
  <2>3. \A b \in Boards : [sets |-> start[b], points |-> 1] \in Played /\ start[b] # LastSet
    BY <2>2 DEF Played
  <2>4. oid \in Boards
    BY DEF Init
  <2>5. match \in [Boards -> Played]
    BY <2>1, <2>3
  <2>6. ASSUME NEW b \in Boards PROVE match[b].points = 2 <=> match[b].sets = LastSet
    <3>1. match[b] = [sets |-> start[b], points |-> 1]
      BY <2>1
    <3> QED
      BY <2>3, <3>1
  <2> QED
    BY <2>4, <2>5, <2>6 DEF MatchInv
<1>2. RevisionInv /\ ScreenInv /\ HookInv
  BY DEF Init, RevisionInv, ScreenInv, HookInv
<1>3. OpOk(Op(oid, "sync", "locale", None)) /\ OpOwn(Op(oid, "sync", "locale", None))
  <2>1. "sync" \in Kinds \ {"save"} /\ "locale" \in Hands /\ oid \in Boards
    BY <1>1 DEF Kinds, Hands, MatchInv
  <2> QED
    BY <1>1, <2>1, Requested DEF OpOwn, Op
<1>4. TrafficInv
  <2> DEFINE op == Op(oid, "sync", "locale", None)
  <2>1. queue = <<op>> /\ running = None /\ op \in Ops
    BY <1>3 DEF Init, OpOk
  <2> HIDE DEF op
  <2>2. queue \in Seq(Ops) /\ \A i \in DOMAIN queue : queue[i] = op
    BY <2>1
  <2> QED
    BY <1>3, <2>1, <2>2 DEF TrafficInv, op
<1>5. PanelInv
  <2>1. \A b \in Boards : Look(b, FALSE) \in Looks
    BY DEF Look, Looks
  <2> QED
    BY <2>1 DEF Init, PanelInv
<1>6. PastInv
  BY DEF Init, PastInv, Pasts, Edits
<1>7. OwnInv
  <2>1. \A b \in Boards : look[b].of = b
    BY DEF Init, Look
  <2>2. custom = None /\ panel = None /\ running = None
    BY DEF Init
  <2>3. \A i \in DOMAIN queue : OpOwn(queue[i])
    <3> DEFINE op == Op(oid, "sync", "locale", None)
    <3>1. queue = <<op>> /\ OpOwn(op)
      BY <1>3 DEF Init
    <3> HIDE DEF op
    <3> QED
      BY <3>1
  <2> QED
    BY <2>1, <2>2, <2>3 DEF OwnInv, Own
<1>8. DelayInv
  BY DEF Init, DelayInv
<1>9. TypedInv
  BY DEF Init, TypedInv
<1>10. FreshInv
  BY DEF Init, FreshInv, Watched
<1>11. RecapInv
  <2> DEFINE op == Op(oid, "sync", "locale", None)
  <2>1. queue = <<op>> /\ op.kind = "sync"
    BY DEF Init, Op
  <2> HIDE DEF op
  <2>2. \A i \in DOMAIN queue : ~TabRaises(queue[i])
    BY <2>1 DEF TabRaises
  <2>3. /\ running = None /\ enabled /\ dismiss \in BOOLEAN /\ delay = "off"
        /\ \A b \in Boards : ~past.raised[b]
    BY DEF Init
  <2> QED
    BY <1>1, <2>2, <2>3 DEF RecapInv, Recap, Here, Pends, Yields, MatchInv
<1> QED
  BY <1>1, <1>2, <1>4, <1>5, <1>6, <1>7, <1>8, <1>9, <1>10, <1>11 DEF Inv

LEMMA Steps == ASSUME Inv, [Next]_vars PROVE Inv'
BY ScoreStep, ScreenStep, HookStep, TrafficStep, PanelStep, PastStep, OwnStep, DelayStep,
  TypedStep, FreshStep, RecapStep DEF Inv

\* The tab shows the board its operator chose, for boards, answers and changes of
\* board of any number, but for a look that is being read back across one.
THEOREM TheScreenIsOfTheBoard == Spec => []ScreenIsOfTheBoard
<1>1. Inv => ScreenIsOfTheBoard
  BY DEF Inv, ScreenInv, Shows, OwnInv, Own, ScreenIsOfTheBoard
<1> QED
  BY <1>1, Begins, Steps, PTL DEF Spec

\* The tab raises a recap only between sets, or after the match, for matches of any
\* length: a recap that is pending when play goes on is given up.
THEOREM RaisedBetweenSets == Spec => RecapsAreBetweenSets
<1> DEFINE Raises == RaisesNow /\ ~past.merged /\ ~past.carried
                       => /\ seen.of = oid /\ seen.sets > 0
                          /\ seen.points = 0 \/ seen.sets = LastSet
<1>1. ASSUME Inv, [Next]_vars, RaisesNow PROVE delay # "off"
  <2>0. queue \in Seq(Ops)
    BY <1>1 DEF Inv, TrafficInv
  <2>1. \A op : Enqueue(op) /\ op \in Ops => op = Request("show", "tab")
    <3> SUFFICES ASSUME NEW op \in Ops, Enqueue(op) PROVE op = Request("show", "tab")
      OBVIOUS
    <3>1. queue'[Len(queue')] = op
      BY <2>0 DEF Enqueue
    <3> QED
      BY <1>1, <3>1 DEF RaisesNow
  <2>2. queue' # queue
    BY <1>1, <2>0 DEF RaisesNow
  <2>3. \A kind \in Kinds \ {"save"}, by \in Hands :
          Enqueue(Request(kind, by)) => kind = "show" /\ by = "tab"
    <3> SUFFICES ASSUME NEW kind \in Kinds \ {"save"}, NEW by \in Hands, Enqueue(Request(kind, by))
                 PROVE  kind = "show" /\ by = "tab"
      OBVIOUS
    <3>1. Request(kind, by) \in Ops
      BY <1>1, Requested DEF Inv, OpOk
    <3>2. Request(kind, by) = Request("show", "tab")
      BY <2>1, <3>1
    <3> QED
      BY <3>2 DEF Request, Op
  <2>4. ~Point /\ ~ToggleRecap /\ ~TimeToHide
    BY <2>3 DEF Point, ToggleRecap, TimeToHide, Kinds, Hands
  <2>5. ~RunEffect
    <3> SUFFICES ASSUME RunEffect PROVE FALSE
      OBVIOUS
    <3>1. Enqueue(Request("hide", "tab"))
      BY <1>1, <2>2, Effects DEF Inv, Keep, SetWon
    <3>2. "hide" \in Kinds \ {"save"} /\ "tab" \in Hands
      BY DEF Kinds, Hands
    <3> QED
      BY <2>3, <3>1, <3>2
  <2>6. ~Save
    <3> SUFFICES ASSUME Save PROVE FALSE
      OBVIOUS
    <3>1. panel # None /\ Enqueue(Op(oid, "save", "hand", panel.model))
      BY DEF Save
    <3>2. Op(oid, "save", "hand", panel.model) \in Ops
      BY <1>1, <3>1 DEF Inv, PanelInv, Panels, Op, Ops, Kinds, Hands, MatchInv
    <3>3. Op(oid, "save", "hand", panel.model) = Request("show", "tab")
      BY <2>1, <3>1, <3>2
    <3> QED
      BY <3>3 DEF Request, Op
  <2>7. ~Switches
    <3> SUFFICES ASSUME NEW b \in Boards, Enqueue(Op(b, "sync", "locale", None)) PROVE FALSE
      BY DEF Switches, Switch
    <3>1. Op(b, "sync", "locale", None) \in Ops
      BY <1>1, Requested DEF Inv, OpOk, Kinds, Hands
    <3>2. Op(b, "sync", "locale", None) = Request("show", "tab")
      BY <2>1, <3>1
    <3> QED
      BY <3>2 DEF Request, Op
  <2>8. ~Send
    <3> SUFFICES ASSUME Send PROVE FALSE
      OBVIOUS
    <3>1. queue # <<>> /\ queue' = Tail(queue)
      BY DEF Send
    <3>2. Len(queue') < Len(queue)
      BY <2>0, <3>1
    <3>3. Len(queue') \in Nat /\ Len(queue) \in Nat
      BY <2>0, <3>1
    <3> QED
      BY <1>1, <3>2, <3>3 DEF RaisesNow
  <2>9. ~(SessionReady \/ CustomReady \/ LoadFails \/ Push \/ UNCHANGED vars \/ Lost \/ OpenPanel)
    BY <2>2 DEF SessionReady, CustomReady, LoadFails, Push, vars, Lost, OpenPanel
  <2>10. ~(Edit \/ ClosePanel \/ ToggleAuto \/ Rivals)
    BY <2>2 DEF Edit, ClosePanel, ToggleAuto, Rivals, RivalScores, RivalUndoes
  <2>11. ~(Answer \/ \E b \in Boards : ReadBack(b) \/ ReadBackFails(b))
    BY <2>2 DEF Answer, Accepted, Refused, ReadBack, ReadBackFails
  <2>12. DelayEnds
    BY <1>1, <2>4, <2>5, <2>6, <2>7, <2>8, <2>9, <2>10, <2>11, Actions DEF Calm
  <2> QED
    BY <2>12 DEF DelayEnds
<1>2. Inv /\ [Next]_vars => [Raises]_vars
  BY <1>1 DEF Inv, DelayInv, Between
<1> QED
  BY <1>2, Begins, Steps, PTL DEF Spec, RecapsAreBetweenSets

\* An edit that no answer was on its way to overtake when it was typed is lost by
\* nothing: whatever fails, is refused, comes late or is done by others, for any
\* number of boards, requests and read-backs.
THEOREM TypedEditsStay == Spec => []EditsAreNotLost
<1>1. Inv => EditsAreNotLost
  BY DEF Inv, TypedInv, Typed, Holds, EditsAreNotLost
<1> QED
  BY <1>1, Begins, Steps, PTL DEF Spec

\* A recap that the tab raised leaves the screen when play goes on, in matches of any
\* length and with any number of controllers: a request to hide it is on its way
\* whenever the effect has seen play.
THEOREM TheRecapYields == Spec => []RecapYieldsToPlay
<1>1. ASSUME Inv PROVE RecapYieldsToPlay
  <2> SUFFICES ASSUME AtRest, ~past.abandoned, ~past.merged, past.raised[oid],
                      match[oid].points = 1
               PROVE  FALSE
    BY DEF RecapYieldsToPlay
  <2>1. Recap /\ ~HideComes
    BY <1>1 DEF Inv, RecapInv, Astray, AtRest, HideComes
  <2>2. Covered
    BY <2>1 DEF Recap, Yields, AtRest
  <2>3. screen = State(oid) /\ seen = SeenNow
    BY <1>1 DEF Inv, FreshInv, Latest, Watched, AtRest
  <2> QED
    BY <2>2, <2>3 DEF Covered, SeenNow, State
<1> QED
  BY <1>1, Begins, Steps, PTL DEF Spec

-----------------------------------------------------------------------------
(* The hub of the control sockets *)

\* The endpoint of a connection tells the others before it is open.
Joining == {"joining", "ready", "greeted"}

PlacesInv ==
  /\ place \in [Sockets -> Places]
  /\ DOMAIN count = Sockets /\ DOMAIN snapshot = Sockets
  /\ heard \in [Sockets -> BOOLEAN]
  /\ \A s \in Sockets : heard[s] => place[s] \in Inside \cup {"gone"}

\* A set that has left the registry is empty.
SetsInv ==
  /\ sets \in Seq(SUBSET Sockets) /\ entry \in 0..Len(sets)
  /\ \A i \in 1..Len(sets) : i # entry => sets[i] = {}

RegistryInv ==
  /\ Registered = {s \in Sockets : place[s] \in Inside} \ dropped
  /\ \A s \in dropped : s \in Sockets /\ place[s] \in Inside

\* A broadcast drops from the registry's set, or those that are out of it already.
Out(s) == place[s] = "gone" \/ s \in dropped
TasksInv ==
  \A t \in tasks :
    /\ t.of \in 1..Len(sets) /\ t.bad \subseteq Sockets
    /\ \A s \in t.bad : Out(s) \/ (t.of = entry /\ s \in Registered)

Accepting == {s \in Sockets : place[s] = "accepting"}
Crowded == IF crowd = 0 THEN 0 ELSE crowd - 1
CapInv ==
  /\ crowd \in Nat /\ Cardinality(Accepting) <= crowd
  /\ Cardinality(Registered) + Cardinality(Accepting) <= Cap + Crowded

\* A tab may show another count while it is to be told: a connection that joins will
\* announce itself, and who drops the tab from the registry tells the others.
Excused(s) ==
  \/ s \in behind
  \/ \E v \in Sockets \ {s} : place[v] \in Joining
  \/ \E t \in tasks : s \in t.bad

Current(s, c) == c = Count(Registered) \/ Excused(s)

ShownInv ==
  \A s \in Registered : place[s] \in {"greeted", "open"} \/ heard[s] => Current(s, count[s])
SnapshotInv ==
  \A s \in Registered : place[s] = "ready" /\ ~heard[s] => Current(s, snapshot[s])
PayloadInv ==
  /\ payload.to \subseteq Sockets
  /\ \A s \in payload.to : place[s] \in {"ready", "greeted", "open", "gone"}
  /\ \A s \in Registered : s \in payload.to /\ ~heard[s] => Current(s, payload.count)

HubInv ==
  /\ PlacesInv /\ SetsInv /\ RegistryInv /\ TasksInv /\ CapInv
  /\ ShownInv /\ SnapshotInv /\ PayloadInv
  /\ beat \subseteq Sockets

-----------------------------------------------------------------------------
(* The registry and the broadcasts that hold sets of it. *)

LEMMA RegisteredAreSockets == SetsInv => Registered \in SUBSET Sockets
BY DEF SetsInv, Registered, Members

LEMMA Removes ==
  ASSUME SetsInv, NEW S, Remove(S)
  PROVE  /\ SetsInv' /\ Len(sets') = Len(sets)
         /\ Registered' = Registered \ S
         /\ entry' = entry \/ Registered' = {}
<1>1. CASE entry = 0
  BY <1>1 DEF SetsInv, Remove, Without, Still, Members, Registered
<1>2. CASE entry # 0
  <2>1. entry \in 1..Len(sets) /\ sets' = [sets EXCEPT ![entry] = @ \ S]
    BY <1>2 DEF SetsInv, Remove, Without
  <2>2. /\ sets' \in Seq(SUBSET Sockets) /\ Len(sets') = Len(sets)
        /\ sets'[entry] = sets[entry] \ S
        /\ \A i \in 1..Len(sets) : i # entry => sets'[i] = {}
    BY <2>1 DEF SetsInv
  <2>3. entry' = IF sets'[entry] = {} THEN 0 ELSE entry
    BY <1>2 DEF Remove, Still, Members
  <2> QED
    BY <1>2, <2>1, <2>2, <2>3 DEF SetsInv, Members, Registered
<1> QED
  BY <1>1, <1>2

LEMMA Inserts ==
  ASSUME SetsInv, NEW s \in Sockets, Insert(s)
  PROVE  /\ SetsInv' /\ Len(sets') >= Len(sets)
         /\ Registered' = Registered \cup {s}
         /\ entry' = entry \/ Registered = {}
<1>1. CASE entry = 0
  <2>1. {s} \in SUBSET Sockets /\ sets' = Append(sets, {s}) /\ entry' = Len(sets) + 1
    BY <1>1 DEF Insert
  <2>2. /\ sets' \in Seq(SUBSET Sockets) /\ Len(sets') = Len(sets) + 1
        /\ \A i \in 1..Len(sets) : sets'[i] = sets[i]
        /\ sets'[Len(sets) + 1] = {s}
    BY <2>1, AppendProperties DEF SetsInv
  <2> QED
    BY <1>1, <2>1, <2>2 DEF SetsInv, Members, Registered
<1>2. CASE entry # 0
  <2>1. entry \in 1..Len(sets) /\ sets' = [sets EXCEPT ![entry] = @ \cup {s}] /\ entry' = entry
    BY <1>2 DEF SetsInv, Insert
  <2> QED
    BY <2>1, <1>2 DEF SetsInv, Members, Registered
<1> QED
  BY <1>1, <1>2

LEMMA RegistryStays ==
  ASSUME SetsInv, UNCHANGED hub
  PROVE  SetsInv' /\ Registered' = Registered /\ entry' = entry /\ Len(sets') = Len(sets)
BY DEF SetsInv, hub, Registered, Members

\* A broadcast that has begun finds what it will drop where it left it, or out already.
Begun(t) == t.of = entry /\ t.bad \subseteq Registered /\ t.bad # {}

LEMMA TasksStay ==
  ASSUME TasksInv, SetsInv', Len(sets') >= Len(sets), Len(sets) \in Nat, Len(sets') \in Nat,
         entry' = entry \/ (\A s \in Registered : Out(s)'),
         \A s \in Registered : s \in Registered' \/ Out(s)',
         \A s \in Sockets : Out(s) => Out(s)',
         \A t \in tasks' : t \in tasks \/ Begun(t)'
  PROVE  TasksInv'
<1> SUFFICES ASSUME NEW t \in tasks'
             PROVE  /\ t.of \in 1..Len(sets') /\ t.bad \subseteq Sockets
                    /\ \A s \in t.bad : Out(s)' \/ (t.of = entry' /\ s \in Registered')
  BY DEF TasksInv
<1>1. CASE t \in tasks
  BY <1>1 DEF TasksInv
<1>2. CASE Begun(t)'
  <2>1. Registered' \in SUBSET Sockets /\ (entry' = 0 => Registered' = {})
    BY RegisteredAreSockets DEF SetsInv, Registered, Members
  <2> QED
    BY <1>2, <2>1 DEF Begun, SetsInv
<1> QED
  BY <1>1, <1>2

-----------------------------------------------------------------------------
(* The cap. *)

LEMMA CapStays ==
  ASSUME CapInv, SetsInv, Registered' \subseteq Registered,
         Accepting' \subseteq Accepting, crowd' = crowd
  PROVE  CapInv'
<1>1. Registered \in SUBSET Sockets /\ Accepting \in SUBSET Sockets
  BY RegisteredAreSockets DEF Accepting
<1>2. IsFiniteSet(Registered) /\ IsFiniteSet(Accepting)
  BY <1>1, FS_Subset, HubAssumption
<1>3. /\ Cardinality(Registered') <= Cardinality(Registered)
      /\ Cardinality(Accepting') <= Cardinality(Accepting)
      /\ Cardinality(Registered) \in Nat /\ Cardinality(Accepting) \in Nat
      /\ Cardinality(Registered') \in Nat /\ Cardinality(Accepting') \in Nat
  BY <1>2, FS_Subset, FS_CardinalityType
<1>4. Crowded' = Crowded /\ Crowded \in Nat /\ Cap \in Nat
  BY HubAssumption DEF Crowded, CapInv
<1> QED
  BY <1>3, <1>4 DEF CapInv

LEMMA ChecksFit ==
  ASSUME PlacesInv, SetsInv, CapInv, NEW s \in Sockets, Check(s),
         Registered' = Registered
  PROVE  CapInv'
<1>1. Registered \in SUBSET Sockets /\ Accepting \in SUBSET Sockets /\ Accepting' \in SUBSET Sockets
  BY RegisteredAreSockets DEF Accepting
<1>2. /\ IsFiniteSet(Accepting) /\ IsFiniteSet(Accepting') /\ Cardinality(Registered) \in Nat
      /\ Cardinality(Accepting) \in Nat /\ Cardinality(Accepting') \in Nat
  BY <1>1, FS_Subset, FS_CardinalityType, HubAssumption
<1>3. crowd' = IF Cardinality(Accepting') > crowd THEN Cardinality(Accepting') ELSE crowd
  BY DEF Check, Accepting
<1>4. crowd \in Nat /\ Cap \in Nat
  BY HubAssumption DEF CapInv
<1>5. CASE Cardinality(Registered) >= Cap
  <2>1. Accepting' = Accepting
    BY <1>5 DEF Check, Accepting, PlacesInv
  <2> QED
    BY <1>2, <1>3, <1>4, <2>1 DEF CapInv, Crowded
<1>6. CASE ~(Cardinality(Registered) >= Cap)
  <2>1. Accepting' = Accepting \cup {s} /\ s \notin Accepting
    BY <1>6 DEF Check, Accepting, PlacesInv
  <2>2. Cardinality(Accepting') = Cardinality(Accepting) + 1
    BY <2>1, <1>2, FS_AddElement
  <2> QED
    BY <1>2, <1>3, <1>4, <1>6, <2>2 DEF CapInv, Crowded
<1> QED
  BY <1>5, <1>6

LEMMA RegistersFit ==
  ASSUME PlacesInv, SetsInv, CapInv, NEW s \in Sockets, Register(s),
         Registered' = Registered \cup {s}
  PROVE  CapInv'
<1>1. Registered \in SUBSET Sockets /\ Accepting \in SUBSET Sockets
  BY RegisteredAreSockets DEF Accepting
<1>2. /\ IsFiniteSet(Accepting) /\ IsFiniteSet(Registered)
      /\ Cardinality(Registered) \in Nat /\ Cardinality(Accepting) \in Nat
  BY <1>1, FS_Subset, FS_CardinalityType, HubAssumption
<1>3. Accepting' = Accepting \ {s} /\ s \in Accepting /\ crowd' = crowd
  BY DEF Register, Accepting, PlacesInv
<1>4. Cardinality(Accepting') = Cardinality(Accepting) - 1
  BY <1>2, <1>3, FS_RemoveElement
<1>5. Cardinality(Registered') \in {Cardinality(Registered), Cardinality(Registered) + 1}
  BY <1>2, FS_AddElement
<1>6. Crowded' = Crowded /\ Crowded \in Nat /\ Cap \in Nat
  BY <1>3, HubAssumption DEF Crowded, CapInv
<1> QED
  BY <1>2, <1>3, <1>4, <1>5, <1>6 DEF CapInv

-----------------------------------------------------------------------------
(* What the tabs show. *)

CountsShown == ShownInv /\ SnapshotInv /\ PayloadInv

\* A broadcast of the count reaches a tab or waits to drop it.
LEMMA PresenceTells ==
  ASSUME PlacesInv, SetsInv', NEW except, NEW kept, Presence(except, kept)
  PROVE  /\ \A s \in Registered' \ except :
              \/ heard'[s] /\ count'[s] = Count(Registered')
              \/ \E t \in tasks' : s \in t.bad
         /\ \A s \in Sockets :
              \/ s \in Registered' \ except /\ heard'[s] /\ count'[s] = Count(Registered')
              \/ heard'[s] = heard[s] /\ count'[s] = count[s] /\ (s \in behind => s \in behind')
         /\ kept \subseteq tasks' /\ \A t \in tasks' : t \in kept \/ Begun(t)'
         /\ DOMAIN count' = Sockets /\ heard' \in [Sockets -> BOOLEAN]
<1> DEFINE now == Members(sets', entry')
<1>1. Registered' = now /\ now \subseteq Sockets
  BY RegisteredAreSockets DEF Registered, Members, SetsInv
<1>2. PICK bad \in SUBSET (now \ except) :
        /\ Tell((now \ except) \ bad, Count(now))
        /\ tasks' = kept \cup Task(bad, entry', FALSE)
  BY DEF Presence, Unreached
<1>3. \A t \in Task(bad, entry', FALSE) : t.bad = bad /\ t.of = entry' /\ bad # {}
  BY DEF Task
<1>4. \A s \in bad : \E t \in tasks' : s \in t.bad
  <2> SUFFICES ASSUME NEW s \in bad PROVE \E t \in tasks' : s \in t.bad
    OBVIOUS
  <2>1. [bad |-> bad, of |-> entry', notify |-> FALSE] \in tasks'
    BY <1>2 DEF Task
  <2> QED
    BY <2>1
<1>5. \A s \in Sockets :
        /\ s \in (now \ except) \ bad => heard'[s] /\ count'[s] = Count(now)
        /\ s \notin (now \ except) \ bad => heard'[s] = heard[s] /\ count'[s] = count[s] /\ (s \in behind => s \in behind')
  BY <1>2 DEF Tell, PlacesInv
<1>6. DOMAIN count' = Sockets /\ heard' \in [Sockets -> BOOLEAN]
  BY <1>2 DEF Tell, PlacesInv
<1>7. \A t \in tasks' : t \in kept \/ Begun(t)'
  BY <1>1, <1>2, <1>3 DEF Begun
<1> HIDE DEF now
<1>8. \A s \in now \ except :
        \/ heard'[s] /\ count'[s] = Count(now)
        \/ \E t \in tasks' : s \in t.bad
  BY <1>1, <1>4, <1>5
<1> QED
  BY <1>1, <1>2, <1>5, <1>6, <1>7, <1>8

\* Who is told of the count shows it.
LEMMA ToldShow ==
  ASSUME NEW s, (heard'[s] /\ count'[s] = Count(Registered')) \/ \E t \in tasks' : s \in t.bad
  PROVE  /\ Current(s, count[s])'
         /\ ~heard'[s] => Current(s, snapshot[s])' /\ Current(s, payload.count)'
BY DEF Current, Excused

\* Everyone is told.
LEMMA AllAreTold ==
  ASSUME PlacesInv, SetsInv', NEW kept, Presence({}, kept),
         payload' = payload, \A s \in payload.to : place'[s] \in {"ready", "greeted", "open", "gone"},
         PayloadInv
  PROVE  CountsShown'
<1>1. \A s \in Registered' : (heard'[s] /\ count'[s] = Count(Registered')) \/ \E t \in tasks' : s \in t.bad
  BY PresenceTells
<1>2. \A s \in Registered' :
         /\ Current(s, count[s])'
         /\ ~heard'[s] => Current(s, snapshot[s])' /\ Current(s, payload.count)'
  BY <1>1, ToldShow
<1> QED
  BY <1>2 DEF CountsShown, ShownInv, SnapshotInv, PayloadInv

\* Whoever may show another count may do so still.
LEMMA StillExcused ==
  ASSUME NEW s, NEW c, Current(s, c), Count(Registered') = Count(Registered),
         s \in behind => s \in behind',
         \A v \in Sockets \ {s} : place[v] \in Joining => place'[v] \in Joining,
         \A t \in tasks : s \in t.bad => t \in tasks'
  PROVE  c = Count(Registered') \/ Excused(s)'
BY DEF Current, Excused

\* A step that neither tells a tab anything nor opens one.
LEMMA CountedStay ==
  ASSUME CountsShown, Registered' = Registered, UNCHANGED <<count, heard, snapshot>>,
         \A r \in Registered : place'[r] = place[r],
         \A r \in Registered : Excused(r) => Excused(r)',
         payload'.to = {} \/ (payload'.to = payload.to /\ payload'.count = payload.count),
         \A r \in payload'.to : place'[r] \in {"ready", "greeted", "open", "gone"}
  PROVE  CountsShown'
<1>1. \A c : \A r \in Registered : Current(r, c) => c = Count(Registered') \/ Excused(r)'
  BY DEF Current
<1>2. ShownInv'
  <2> SUFFICES ASSUME NEW r \in Registered', place'[r] \in {"greeted", "open"} \/ heard'[r]
               PROVE  count'[r] = Count(Registered') \/ Excused(r)'
    BY DEF ShownInv, Current
  <2> QED
    BY <1>1 DEF CountsShown, ShownInv
<1>3. SnapshotInv'
  <2> SUFFICES ASSUME NEW r \in Registered', place'[r] = "ready" /\ ~heard'[r]
               PROVE  snapshot'[r] = Count(Registered') \/ Excused(r)'
    BY DEF SnapshotInv, Current
  <2> QED
    BY <1>1 DEF CountsShown, SnapshotInv
<1>4. PayloadInv'
  <2> SUFFICES ASSUME NEW r \in Registered', r \in payload'.to /\ ~heard'[r]
               PROVE  payload'.count = Count(Registered') \/ Excused(r)'
    BY DEF CountsShown, PayloadInv, Current
  <2> QED
    BY <1>1 DEF CountsShown, PayloadInv
<1> QED
  BY <1>2, <1>3, <1>4 DEF CountsShown

LEMMA StaysExcused ==
  ASSUME NEW r \in Sockets, behind \subseteq behind', tasks \subseteq tasks',
         \A v \in Sockets : place[v] \in Joining => place'[v] \in Joining
  PROVE  Excused(r) => Excused(r)'
BY DEF Excused

\* A state that reaches tabs: to those that hear of presence its count says nothing, and
\* the others that it was not meant for fall behind.
LEMMA AppliesShow ==
  ASSUME PlacesInv, SetsInv, CountsShown, NEW S \in SUBSET Sockets, ApplyState(S),
         Registered' = Registered, UNCHANGED <<place, snapshot>>, tasks \subseteq tasks',
         payload'.to = {} \/ (payload'.to = payload.to /\ payload'.count = payload.count)
  PROVE  PlacesInv' /\ CountsShown'
<1>1. /\ heard' = heard /\ behind \subseteq behind' /\ DOMAIN count' = Sockets
      /\ \A r \in Sockets : count'[r] = IF r \in S /\ ~heard[r] THEN payload.count ELSE count[r]
      /\ \A r \in S : ~heard[r] /\ Late(r) => r \in behind'
  BY DEF ApplyState, PlacesInv
<1>2. PlacesInv'
  BY <1>1 DEF PlacesInv
<1>3. Registered \in SUBSET Sockets
  BY RegisteredAreSockets
<1>4. \A r \in Registered : Excused(r) => Excused(r)'
  BY <1>1, <1>3, StaysExcused
<1>5. \A c : \A r \in Registered : Current(r, c) => c = Count(Registered') \/ Excused(r)'
  BY <1>4 DEF Current
<1>6. ShownInv'
  <2> SUFFICES ASSUME NEW r \in Registered, place[r] \in {"greeted", "open"} \/ heard[r]
               PROVE  count'[r] = Count(Registered') \/ Excused(r)'
    BY <1>1 DEF ShownInv, Current
  <2>1. CASE r \in S /\ ~heard[r]
    <3>1. count'[r] = payload.count
      BY <1>1, <1>3, <2>1
    <3>2. CASE r \in payload.to
      BY <1>5, <2>1, <3>1, <3>2 DEF CountsShown, PayloadInv
    <3>3. CASE r \notin payload.to
      BY <1>1, <2>1, <3>3 DEF Late, Excused
    <3> QED
      BY <3>2, <3>3
  <2>2. CASE ~(r \in S /\ ~heard[r])
    <3>1. count'[r] = count[r]
      BY <1>1, <1>3, <2>2
    <3> QED
      BY <1>5, <3>1 DEF CountsShown, ShownInv
  <2> QED
    BY <2>1, <2>2
<1>7. SnapshotInv'
  <2> SUFFICES ASSUME NEW r \in Registered, place[r] = "ready" /\ ~heard[r]
               PROVE  snapshot[r] = Count(Registered') \/ Excused(r)'
    BY <1>1 DEF SnapshotInv, Current
  <2> QED
    BY <1>5 DEF CountsShown, SnapshotInv
<1>8. PayloadInv'
  <2> SUFFICES ASSUME NEW r \in Registered, r \in payload'.to /\ ~heard[r]
               PROVE  payload'.count = Count(Registered') \/ Excused(r)'
    BY <1>1 DEF CountsShown, PayloadInv, Current
  <2> QED
    BY <1>5 DEF CountsShown, PayloadInv
<1> QED
  BY <1>2, <1>6, <1>7, <1>8 DEF CountsShown

-----------------------------------------------------------------------------
(* The endpoint's steps. *)

LEMMA CheckKeeps == ASSUME HubInv, NEW s \in Sockets, Check(s) PROVE HubInv'
<1>1. SetsInv' /\ Registered' = Registered /\ entry' = entry /\ Len(sets') = Len(sets) /\ Len(sets) \in Nat
  BY RegistryStays DEF HubInv, Check, SetsInv
<1>2. /\ place[s] = "new" /\ place' \in [Sockets -> Places] /\ place'[s] \in {"gone", "accepting"}
      /\ \A r \in Sockets : r # s => place'[r] = place[r]
  BY DEF HubInv, PlacesInv, Check, Places
<1>3. Registered \in SUBSET Sockets /\ s \notin Registered
  BY <1>2, RegisteredAreSockets DEF HubInv, RegistryInv, Inside
<1>4. PlacesInv'
  BY <1>2 DEF HubInv, PlacesInv, Check, tabs, Inside
<1>5. RegistryInv'
  BY <1>1, <1>2 DEF HubInv, RegistryInv, Check, Inside
<1>6. TasksInv'
  <2>1. \A r \in Sockets : Out(r) => Out(r)'
    BY <1>2 DEF Out, Check
  <2> QED
    BY <1>1, <2>1, TasksStay DEF HubInv, Check
<1>7. CapInv'
  BY <1>1, ChecksFit DEF HubInv
<1>8. CountsShown'
  <2>1. \A r \in Registered : Excused(r) => Excused(r)'
    BY <1>2, <1>3, StaysExcused DEF Check, tabs, Joining
  <2>2. \A r \in payload'.to : place'[r] \in {"ready", "greeted", "open", "gone"}
    BY <1>2 DEF Check, HubInv, PayloadInv
  <2>3. UNCHANGED <<count, heard, snapshot, payload>> /\ \A r \in Registered : place'[r] = place[r]
    BY <1>2, <1>3 DEF Check, tabs
  <2> QED
    BY <1>1, <2>1, <2>2, <2>3, CountedStay DEF HubInv, CountsShown
<1> QED
  BY <1>1, <1>4, <1>5, <1>6, <1>7, <1>8 DEF HubInv, CountsShown, Check

\* Until a connection has announced itself no other tab's count counts.
LEMMA OthersExcused ==
  ASSUME NEW v \in Sockets, place'[v] \in Joining
  PROVE  \A r \in Sockets \ {v} : Excused(r)'
BY DEF Excused

LEMMA RegisterKeeps == ASSUME HubInv, NEW s \in Sockets, Register(s) PROVE HubInv'
<1>1. /\ SetsInv' /\ Registered' = Registered \cup {s} /\ Len(sets') >= Len(sets)
      /\ entry' = entry \/ Registered = {}
      /\ Len(sets) \in Nat /\ Len(sets') \in Nat
  BY Inserts DEF HubInv, Register, SetsInv
<1>2. /\ place[s] = "accepting" /\ place' \in [Sockets -> Places] /\ place'[s] = "joining"
      /\ \A r \in Sockets : r # s => place'[r] = place[r]
  BY DEF HubInv, PlacesInv, Register, Places
<1>3. ~heard[s] /\ UNCHANGED <<count, heard, snapshot, payload, dropped, tasks, beat>>
  BY <1>2 DEF HubInv, PlacesInv, Inside, Register, tabs
<1>5. PlacesInv'
  BY <1>2, <1>3 DEF HubInv, PlacesInv, Inside
<1>6. RegistryInv'
  BY <1>1, <1>2, <1>3 DEF HubInv, RegistryInv, Inside
<1>7. TasksInv'
  <2>1. \A r \in Sockets : Out(r) => Out(r)'
    BY <1>2, <1>3 DEF Out
  <2> QED
    BY <1>1, <1>3, <2>1, TasksStay DEF HubInv
<1>8. CapInv'
  BY <1>1, RegistersFit DEF HubInv
<1>9. CountsShown'
  <2>1. \A r \in Sockets \ {s} : Excused(r)'
    BY <1>2, OthersExcused DEF Joining
  <2>2. Registered' \in SUBSET Sockets
    BY <1>1, RegisteredAreSockets DEF HubInv
  <2>3. s \notin payload.to /\ \A r \in payload.to : place'[r] \in {"ready", "greeted", "open", "gone"}
    BY <1>2 DEF HubInv, PayloadInv
  <2>4. ShownInv' /\ SnapshotInv'
    BY <1>2, <1>3, <2>1, <2>2 DEF ShownInv, SnapshotInv, Current
  <2>5. PayloadInv'
    BY <1>3, <2>1, <2>2, <2>3 DEF HubInv, PayloadInv, Current
  <2> QED
    BY <2>4, <2>5 DEF CountsShown
<1> QED
  BY <1>1, <1>3, <1>5, <1>6, <1>7, <1>8, <1>9 DEF HubInv, CountsShown

LEMMA SnapshotKeeps == ASSUME HubInv, NEW s \in Sockets, Snapshot(s) PROVE HubInv'
<1>1. /\ SetsInv' /\ Registered' = Registered /\ entry' = entry /\ Len(sets') = Len(sets)
      /\ Len(sets) \in Nat
  BY RegistryStays DEF HubInv, Snapshot, SetsInv
<1>2. /\ place[s] = "joining" /\ place' \in [Sockets -> Places] /\ place'[s] = "ready"
      /\ \A r \in Sockets : r # s => place'[r] = place[r]
  BY DEF HubInv, PlacesInv, Snapshot, Places
<1>3. UNCHANGED <<count, heard, payload, dropped, tasks, beat, crowd>>
  BY DEF Snapshot
<1>4. DOMAIN snapshot' = Sockets /\ snapshot'[s] = Count(Registered)
  BY DEF HubInv, PlacesInv, Snapshot
<1>5. PlacesInv'
  BY <1>2, <1>3, <1>4 DEF HubInv, PlacesInv, Inside
<1>6. RegistryInv'
  BY <1>1, <1>2, <1>3 DEF HubInv, RegistryInv, Inside
<1>7. TasksInv'
  <2>1. \A r \in Sockets : Out(r) => Out(r)'
    BY <1>2, <1>3 DEF Out
  <2> QED
    BY <1>1, <1>3, <2>1, TasksStay DEF HubInv
<1>8. CapInv'
  <2>1. Accepting' = Accepting
    BY <1>2 DEF Accepting
  <2> QED
    BY <1>1, <1>3, <2>1, CapStays DEF HubInv
<1>9. CountsShown'
  <2>1. \A r \in Sockets \ {s} : Excused(r)'
    BY <1>2, OthersExcused DEF Joining
  <2>2. Registered' \in SUBSET Sockets
    BY <1>1, RegisteredAreSockets DEF HubInv
  <2>3. s \notin payload.to /\ \A r \in payload.to : place'[r] \in {"ready", "greeted", "open", "gone"}
    BY <1>2 DEF HubInv, PayloadInv
  <2>4. heard[s] /\ Excused(s) => Excused(s)'
    BY <1>2, <1>3 DEF Snapshot, Excused
  <2>5. ShownInv'
    <3> SUFFICES ASSUME NEW r \in Registered, place'[r] \in {"greeted", "open"} \/ heard[r]
                 PROVE  count[r] = Count(Registered) \/ Excused(r)'
      BY <1>1, <1>3 DEF ShownInv, Current
    <3>1. CASE r = s
      BY <1>2, <2>4, <3>1 DEF HubInv, ShownInv, Current
    <3>2. CASE r # s
      BY <2>1, <2>2, <1>1, <3>2
    <3> QED
      BY <3>1, <3>2
  <2>6. SnapshotInv'
    BY <1>1, <1>4, <2>1, <2>2 DEF SnapshotInv, Current
  <2>7. PayloadInv'
    BY <1>3, <2>1, <2>2, <2>3 DEF HubInv, PayloadInv, Current
  <2> QED
    BY <2>5, <2>6, <2>7 DEF CountsShown
<1> QED
  BY <1>1, <1>3, <1>5, <1>6, <1>7, <1>8, <1>9 DEF HubInv, CountsShown

LEMMA GreetKeeps == ASSUME HubInv, NEW s \in Sockets, Greet(s) PROVE HubInv'
<1>1. /\ SetsInv' /\ Registered' = Registered /\ entry' = entry /\ Len(sets') = Len(sets)
      /\ Len(sets) \in Nat
  BY RegistryStays DEF HubInv, Greet, SetsInv
<1>2. /\ place[s] = "ready" /\ place' \in [Sockets -> Places] /\ place'[s] = "greeted"
      /\ \A r \in Sockets : r # s => place'[r] = place[r]
  BY DEF HubInv, PlacesInv, Greet, Places
<1>3. UNCHANGED <<heard, behind, payload, dropped, tasks, beat, crowd>>
  BY DEF Greet
<1>4. /\ DOMAIN snapshot' = Sockets /\ DOMAIN count' = Sockets
      /\ \A r \in Sockets : r # s => snapshot'[r] = snapshot[r] /\ count'[r] = count[r]
      /\ count'[s] = IF heard[s] THEN count[s] ELSE snapshot[s]
  BY DEF HubInv, PlacesInv, Greet
<1>5. PlacesInv'
  BY <1>2, <1>3, <1>4 DEF HubInv, PlacesInv, Inside
<1>6. RegistryInv'
  BY <1>1, <1>2, <1>3 DEF HubInv, RegistryInv, Inside
<1>7. TasksInv'
  <2>1. \A r \in Sockets : Out(r) => Out(r)'
    BY <1>2, <1>3 DEF Out
  <2> QED
    BY <1>1, <1>3, <2>1, TasksStay DEF HubInv
<1>8. CapInv'
  <2>1. Accepting' = Accepting
    BY <1>2 DEF Accepting
  <2> QED
    BY <1>1, <1>3, <2>1, CapStays DEF HubInv
<1>9. CountsShown'
  <2>1. Registered \in SUBSET Sockets
    BY RegisteredAreSockets DEF HubInv
  <2>2. \A r \in Registered : Excused(r) => Excused(r)'
    BY <1>2, <1>3, <2>1, StaysExcused DEF Joining
  <2>3. \A c : \A r \in Registered : Current(r, c) => c = Count(Registered) \/ Excused(r)'
    BY <2>2 DEF Current
  <2>4. ShownInv'
    <3> SUFFICES ASSUME NEW r \in Registered, place'[r] \in {"greeted", "open"} \/ heard[r]
                 PROVE  count'[r] = Count(Registered) \/ Excused(r)'
      BY <1>1, <1>3 DEF ShownInv, Current
    <3>1. CASE r = s /\ ~heard[s]
      <4>1. Current(s, snapshot[s])
        BY <1>2, <3>1 DEF HubInv, SnapshotInv
      <4> QED
        BY <1>4, <2>1, <2>3, <3>1, <4>1
    <3>2. CASE ~(r = s /\ ~heard[s])
      <4>1. count'[r] = count[r] /\ (place[r] \in {"greeted", "open"} \/ heard[r])
        BY <1>2, <1>4, <2>1, <3>2
      <4> QED
        BY <2>3, <4>1 DEF HubInv, ShownInv
    <3> QED
      BY <3>1, <3>2
  <2>5. SnapshotInv'
    <3> SUFFICES ASSUME NEW r \in Registered, place'[r] = "ready" /\ ~heard[r]
                 PROVE  snapshot'[r] = Count(Registered) \/ Excused(r)'
      BY <1>1, <1>3 DEF SnapshotInv, Current
    <3>1. r # s
      BY <1>2
    <3> QED
      BY <1>2, <1>4, <2>1, <2>3, <3>1 DEF HubInv, SnapshotInv
  <2>6. PayloadInv'
    <3>1. \A r \in payload.to : place'[r] \in {"ready", "greeted", "open", "gone"}
      BY <1>2 DEF HubInv, PayloadInv
    <3>2. \A r \in Registered : r \in payload.to /\ ~heard[r] => payload.count = Count(Registered) \/ Excused(r)'
      BY <2>3 DEF HubInv, PayloadInv
    <3> QED
      BY <1>1, <1>3, <3>1, <3>2 DEF HubInv, PayloadInv, Current
  <2> QED
    BY <2>4, <2>5, <2>6 DEF CountsShown
<1> QED
  BY <1>1, <1>3, <1>5, <1>6, <1>7, <1>8, <1>9 DEF HubInv, CountsShown

LEMMA AnnounceKeeps == ASSUME HubInv, NEW s \in Sockets, Announce(s) PROVE HubInv'
<1>1. /\ SetsInv' /\ Registered' = Registered /\ entry' = entry /\ Len(sets') = Len(sets)
      /\ Len(sets) \in Nat
  BY RegistryStays DEF HubInv, Announce, SetsInv
<1>2. /\ place[s] = "greeted" /\ place' \in [Sockets -> Places] /\ place'[s] = "open"
      /\ \A r \in Sockets : r # s => place'[r] = place[r]
  BY DEF HubInv, PlacesInv, Announce, Places
<1>3. UNCHANGED <<snapshot, payload, dropped, beat, crowd>> /\ Presence({s}, tasks)
  BY DEF Announce
<1>4. /\ \A r \in Registered \ {s} :
           \/ heard'[r] /\ count'[r] = Count(Registered')
           \/ \E t \in tasks' : r \in t.bad
      /\ \A r \in Sockets :
           \/ r \in Registered \ {s} /\ heard'[r] /\ count'[r] = Count(Registered')
           \/ heard'[r] = heard[r] /\ count'[r] = count[r] /\ (r \in behind => r \in behind')
      /\ tasks \subseteq tasks' /\ \A t \in tasks' : t \in tasks \/ Begun(t)'
      /\ DOMAIN count' = Sockets /\ heard' \in [Sockets -> BOOLEAN]
  BY <1>1, <1>3, PresenceTells DEF HubInv
<1>5. Registered \in SUBSET Sockets
  BY RegisteredAreSockets DEF HubInv
<1>6. PlacesInv'
  BY <1>2, <1>3, <1>4, <1>5 DEF HubInv, PlacesInv, RegistryInv, Inside
<1>7. RegistryInv'
  BY <1>1, <1>2, <1>3 DEF HubInv, RegistryInv, Inside
<1>8. TasksInv'
  <2>1. \A r \in Sockets : Out(r) => Out(r)'
    BY <1>2, <1>3 DEF Out
  <2> QED
    BY <1>1, <1>4, <2>1, TasksStay DEF HubInv
<1>9. CapInv'
  <2>1. Accepting' = Accepting
    BY <1>2 DEF Accepting
  <2> QED
    BY <1>1, <1>3, <2>1, CapStays DEF HubInv
<1>10. CountsShown'
  <2>1. \A r \in Registered \ {s} :
          /\ Current(r, count[r])'
          /\ ~heard'[r] => Current(r, snapshot[r])' /\ Current(r, payload.count)'
    BY <1>4, ToldShow
  <2>2. /\ heard'[s] = heard[s] /\ count'[s] = count[s]
        /\ Excused(s) => Excused(s)'
    BY <1>2, <1>4 DEF Excused
  <2>3. \A c : Current(s, c) => c = Count(Registered') \/ Excused(s)'
    BY <1>1, <2>2 DEF Current
  <2>4. ShownInv'
    <3> SUFFICES ASSUME NEW r \in Registered PROVE Current(r, count[r])'
      BY <1>1 DEF ShownInv
    <3>1. CASE r = s
      BY <1>2, <2>2, <2>3, <3>1 DEF HubInv, ShownInv, Current
    <3>2. CASE r # s
      BY <2>1, <3>2
    <3> QED
      BY <3>1, <3>2
  <2>5. SnapshotInv'
    BY <1>1, <1>2, <2>1 DEF SnapshotInv
  <2>6. PayloadInv'
    <3>1. \A r \in payload.to : place'[r] \in {"ready", "greeted", "open", "gone"}
      BY <1>2 DEF HubInv, PayloadInv
    <3>2. \A r \in Registered : r \in payload.to /\ ~heard'[r] => Current(r, payload.count)'
      <4> SUFFICES ASSUME NEW r \in Registered, r \in payload.to, ~heard'[r]
                   PROVE  Current(r, payload.count)'
        OBVIOUS
      <4>1. CASE r = s
        <5>1. Current(s, payload.count)
          BY <2>2, <4>1 DEF HubInv, PayloadInv
        <5> QED
          BY <1>3, <2>3, <4>1, <5>1 DEF Current
      <4>2. CASE r # s
        BY <2>1, <4>2
      <4> QED
        BY <4>1, <4>2
    <3> QED
      BY <1>1, <1>3, <3>1, <3>2 DEF HubInv, PayloadInv
  <2> QED
    BY <2>4, <2>5, <2>6 DEF CountsShown
<1> QED
  BY <1>1, <1>3, <1>6, <1>7, <1>8, <1>9, <1>10 DEF HubInv, CountsShown

LEMMA LeaveKeeps == ASSUME HubInv, NEW s \in Sockets, Leave(s) PROVE HubInv'
<1>1. /\ SetsInv' /\ Len(sets') = Len(sets) /\ Len(sets) \in Nat
      /\ Registered' = Registered \ {s} /\ (entry' = entry \/ Registered' = {})
  BY Removes DEF HubInv, Leave, SetsInv
<1>2. /\ place[s] \in Inside /\ place' \in [Sockets -> Places] /\ place'[s] = "gone"
      /\ \A r \in Sockets : r # s => place'[r] = place[r]
  BY DEF HubInv, PlacesInv, Leave, Places
<1>3. UNCHANGED <<payload, beat, crowd>> /\ Presence({}, tasks) /\ dropped' = dropped \ {s}
  BY DEF Leave
<1>4. /\ \A r \in Sockets : heard'[r] = heard[r] \/ r \in Registered'
      /\ \A t \in tasks' : t \in tasks \/ Begun(t)'
      /\ DOMAIN count' = Sockets /\ heard' \in [Sockets -> BOOLEAN]
  BY <1>1, <1>3, PresenceTells DEF HubInv
<1>5. PlacesInv'
  BY <1>1, <1>2, <1>4 DEF HubInv, PlacesInv, RegistryInv, Inside, Leave
<1>6. RegistryInv'
  BY <1>1, <1>2, <1>3 DEF HubInv, RegistryInv, Inside
<1>7. TasksInv'
  <2>1. \A r \in Sockets : Out(r) => Out(r)'
    BY <1>2, <1>3 DEF Out
  <2>2. Out(s)'
    BY <1>2 DEF Out
  <2> QED
    BY <1>1, <1>4, <2>1, <2>2, TasksStay DEF HubInv
<1>8. CapInv'
  <2>1. Accepting' = Accepting
    BY <1>2 DEF Accepting, Inside
  <2> QED
    BY <1>1, <1>3, <2>1, CapStays DEF HubInv
<1>9. CountsShown'
  <2>1. \A r \in payload.to : place'[r] \in {"ready", "greeted", "open", "gone"}
    BY <1>2 DEF HubInv, PayloadInv
  <2> QED
    BY <1>1, <1>3, <2>1, AllAreTold DEF HubInv
<1> QED
  BY <1>1, <1>3, <1>5, <1>6, <1>7, <1>8, <1>9 DEF HubInv, CountsShown

-----------------------------------------------------------------------------
(* Broadcasts and the heartbeat. *)

LEMMA EndBeatKeeps == ASSUME HubInv, EndBeat PROVE HubInv'
<1>1. /\ SetsInv' /\ Len(sets') = Len(sets) /\ Len(sets) \in Nat
      /\ Registered' = Registered \ beat /\ (entry' = entry \/ Registered' = {})
  BY Removes DEF HubInv, EndBeat, SetsInv
<1>2. /\ UNCHANGED <<place, snapshot, payload, crowd>> /\ Presence({}, tasks) /\ beat' = {}
      /\ dropped' = dropped \cup {r \in beat : place[r] \in Inside} /\ beat \subseteq Sockets
  BY DEF EndBeat, HubInv
<1>3. /\ \A r \in Sockets : heard'[r] = heard[r] \/ r \in Registered'
      /\ \A t \in tasks' : t \in tasks \/ Begun(t)'
      /\ DOMAIN count' = Sockets /\ heard' \in [Sockets -> BOOLEAN]
  BY <1>1, <1>2, PresenceTells DEF HubInv
<1>4. PlacesInv'
  BY <1>1, <1>2, <1>3 DEF HubInv, PlacesInv, RegistryInv, Inside
<1>5. RegistryInv'
  BY <1>1, <1>2 DEF HubInv, RegistryInv, PlacesInv, Inside
<1>6. TasksInv'
  <2>1. \A r \in Sockets : Out(r) => Out(r)'
    BY <1>2 DEF Out
  <2>2. \A r \in Registered : r \in beat => Out(r)'
    BY <1>2 DEF Out, HubInv, RegistryInv
  <2> QED
    BY <1>1, <1>3, <2>1, <2>2, TasksStay DEF HubInv
<1>7. CapInv'
  <2>1. Accepting' = Accepting
    BY <1>2 DEF Accepting
  <2> QED
    BY <1>1, <1>2, <2>1, CapStays DEF HubInv
<1>8. CountsShown'
  BY <1>1, <1>2, AllAreTold DEF HubInv, PayloadInv
<1> QED
  BY <1>1, <1>2, <1>4, <1>5, <1>6, <1>7, <1>8 DEF HubInv, CountsShown

LEMMA Sweeps ==
  ASSUME HubInv, NEW t \in tasks, Sweep(t)
  PROVE  /\ SetsInv' /\ Len(sets') = Len(sets) /\ Len(sets) \in Nat
         /\ Registered' = Registered \ t.bad /\ (entry' = entry \/ Registered' = {})
<1>1. /\ t.of \in 1..Len(sets) /\ t.bad \subseteq Sockets
      /\ \A r \in t.bad : Out(r) \/ (t.of = entry /\ r \in Registered)
  BY DEF HubInv, TasksInv
<1>2. /\ sets \in Seq(SUBSET Sockets) /\ entry \in 0..Len(sets) /\ Len(sets) \in Nat
      /\ \A i \in 1..Len(sets) : i # entry => sets[i] = {}
  BY DEF HubInv, SetsInv
<1>3. sets' = [sets EXCEPT ![t.of] = @ \ t.bad]
  BY <1>1, <1>2 DEF Sweep, Without
<1>4. /\ sets' \in Seq(SUBSET Sockets) /\ Len(sets') = Len(sets)
      /\ sets'[t.of] = sets[t.of] \ t.bad
      /\ \A i \in 1..Len(sets) : i # t.of => sets'[i] = sets[i]
  BY <1>1, <1>2, <1>3
<1>5. entry' = IF sets'[t.of] = {} /\ entry = t.of THEN 0 ELSE entry
  BY DEF Sweep, AfterSweep
<1>6. CASE t.of = entry
  BY <1>1, <1>2, <1>4, <1>5, <1>6 DEF SetsInv, Registered, Members
<1>7. CASE t.of # entry
  <2>1. entry' = entry /\ sets'[t.of] = {}
    BY <1>1, <1>2, <1>4, <1>5, <1>7
  <2>2. SetsInv' /\ Registered' = Registered
    BY <1>1, <1>2, <1>4, <1>7, <2>1 DEF SetsInv, Registered, Members
  <2>3. \A r \in t.bad : r \notin Registered
    BY <1>1, <1>7 DEF Out, HubInv, RegistryInv, Inside
  <2> QED
    BY <1>2, <1>4, <2>1, <2>2, <2>3
<1> QED
  BY <1>6, <1>7

LEMMA SweepKeeps == ASSUME HubInv, NEW t \in tasks, Sweep(t) PROVE HubInv'
<1>1. /\ SetsInv' /\ Len(sets') = Len(sets) /\ Len(sets) \in Nat
      /\ Registered' = Registered \ t.bad /\ (entry' = entry \/ Registered' = {})
  BY Sweeps
<1>2. /\ UNCHANGED <<place, snapshot, payload, beat, crowd>> /\ t.bad \subseteq Sockets
      /\ dropped' = dropped \cup {r \in t.bad : place[r] \in Inside}
  BY DEF Sweep, HubInv, TasksInv
<1>3. RegistryInv'
  BY <1>1, <1>2 DEF HubInv, RegistryInv, PlacesInv, Inside
<1>4. /\ \A r \in Sockets : Out(r) => Out(r)'
      /\ \A r \in Registered : r \in t.bad => Out(r)'
  BY <1>2 DEF Out, HubInv, RegistryInv
<1>5. CapInv'
  <2>1. Accepting' = Accepting
    BY <1>2 DEF Accepting
  <2> QED
    BY <1>1, <1>2, <2>1, CapStays DEF HubInv
<1>6. CASE t.notify
  <2>1. Presence({}, tasks \ {t})
    BY <1>6 DEF Sweep
  <2>2. /\ \A r \in Sockets : heard'[r] = heard[r] \/ r \in Registered'
        /\ \A u \in tasks' : u \in tasks \/ Begun(u)'
        /\ DOMAIN count' = Sockets /\ heard' \in [Sockets -> BOOLEAN]
    BY <1>1, <2>1, PresenceTells DEF HubInv
  <2>3. PlacesInv'
    BY <1>1, <1>2, <2>2 DEF HubInv, PlacesInv, RegistryInv, Inside
  <2>4. TasksInv'
    BY <1>1, <1>4, <2>2, TasksStay DEF HubInv
  <2>5. CountsShown'
    BY <1>1, <1>2, <2>1, AllAreTold DEF HubInv, PayloadInv
  <2> QED
    BY <1>1, <1>2, <1>3, <1>5, <2>3, <2>4, <2>5 DEF HubInv, CountsShown
<1>7. CASE ~t.notify
  <2>1. /\ tasks' = tasks \ {t} /\ UNCHANGED <<count, heard>>
        /\ behind' = IF t.bad \cap Registered = {} THEN behind ELSE behind \cup Registered'
    BY <1>7 DEF Sweep, Registered
  <2>2. PlacesInv'
    BY <1>2, <2>1 DEF HubInv, PlacesInv
  <2>3. TasksInv'
    BY <1>1, <1>4, <2>1, TasksStay DEF HubInv
  <2>4. CASE t.bad \cap Registered = {}
    <3>1. \A r \in Registered : Excused(r) => Excused(r)'
      BY <1>2, <2>1, <2>4 DEF Excused
    <3>2. Registered' = Registered
      BY <1>1, <2>4
    <3>3. CountsShown'
      BY <1>2, <2>1, <3>1, <3>2, CountedStay DEF HubInv, CountsShown, PayloadInv
    <3> QED
      BY <1>1, <1>2, <1>3, <1>5, <2>2, <2>3, <3>3 DEF HubInv, CountsShown
  <2>5. CASE t.bad \cap Registered # {}
    <3>1. \A r \in Registered' : Excused(r)'
      BY <2>1, <2>5 DEF Excused
    <3>2. CountsShown'
      BY <1>2, <3>1 DEF HubInv, CountsShown, ShownInv, SnapshotInv, PayloadInv, Current
    <3> QED
      BY <1>1, <1>2, <1>3, <1>5, <2>2, <2>3, <3>2 DEF HubInv, CountsShown
  <2> QED
    BY <2>4, <2>5
<1> QED
  BY <1>6, <1>7

\* A step that leaves every connection where it is and in the registry.
LEMMA ConnectionsStay ==
  ASSUME HubInv, UNCHANGED <<place, hub, dropped, crowd>>,
         \A t \in tasks' : t \in tasks \/ Begun(t)'
  PROVE  /\ SetsInv' /\ RegistryInv' /\ TasksInv' /\ CapInv'
         /\ Registered' = Registered /\ Registered \in SUBSET Sockets
<1>1. /\ SetsInv' /\ Registered' = Registered /\ entry' = entry /\ Len(sets') = Len(sets)
      /\ Len(sets) \in Nat /\ Registered \in SUBSET Sockets
  BY RegistryStays, RegisteredAreSockets DEF HubInv, SetsInv
<1>2. RegistryInv'
  BY <1>1 DEF HubInv, RegistryInv
<1>3. TasksInv'
  <2>1. \A r \in Sockets : Out(r) => Out(r)'
    BY DEF Out
  <2> QED
    BY <1>1, <2>1, TasksStay DEF HubInv
<1>4. CapInv'
  <2>1. Accepting' = Accepting
    BY DEF Accepting
  <2> QED
    BY <1>1, <2>1, CapStays DEF HubInv
<1> QED
  BY <1>1, <1>2, <1>3, <1>4

LEMMA ComposeKeeps == ASSUME HubInv, Compose PROVE HubInv'
<1>1. UNCHANGED <<place, hub, tasks, beat, snapshot, count, heard, behind, dropped, crowd>>
  BY DEF Compose, tabs
<1>2. /\ payload'.count = Count(Registered)
      /\ payload'.to = {r \in Registered : place[r] # "joining"}
  BY DEF Compose
<1>3. /\ SetsInv' /\ RegistryInv' /\ TasksInv' /\ CapInv'
      /\ Registered' = Registered /\ Registered \in SUBSET Sockets
  BY <1>1, ConnectionsStay
<1>4. PlacesInv'
  BY <1>1 DEF HubInv, PlacesInv
<1>5. \A c : \A r \in Registered : Current(r, c) => c = Count(Registered') \/ Excused(r)'
  BY <1>1, <1>3 DEF Current, Excused
<1>6. ShownInv'
  BY <1>1, <1>3, <1>5 DEF HubInv, ShownInv, Current
<1>7. SnapshotInv'
  BY <1>1, <1>3, <1>5 DEF HubInv, SnapshotInv, Current
<1>8. PayloadInv'
  <2>1. \A r \in payload'.to : r \in Sockets /\ place[r] \in {"ready", "greeted", "open", "gone"}
    BY <1>2, <1>3 DEF HubInv, RegistryInv, Inside
  <2> QED
    BY <1>1, <1>2, <1>3, <2>1 DEF PayloadInv, Current
<1> QED
  BY <1>1, <1>3, <1>4, <1>6, <1>7, <1>8 DEF HubInv

\* What is left of a state on its way is for those it was for, or nothing.
LEMMA LeftOf ==
  ASSUME NEW p, p.to = payload.to, p.count = payload.count
  PROVE  Left(p).to = {} \/ (Left(p).to = payload.to /\ Left(p).count = payload.count)
BY DEF Left, Nothing

LEMMA PushKeeps == ASSUME HubInv, PushState PROVE HubInv'
<1>1. UNCHANGED <<place, hub, beat, snapshot, dropped, crowd>>
  BY DEF PushState
<1>2. payload'.to = {} \/ (payload'.to = payload.to /\ payload'.count = payload.count)
  <2>1. [payload EXCEPT !.push = FALSE].to = payload.to /\ [payload EXCEPT !.push = FALSE].count = payload.count
    OBVIOUS
  <2> QED
    BY <2>1, LeftOf DEF PushState
<1>3. PICK bad \in SUBSET Registered :
        ApplyState(Registered \ bad) /\ tasks' = tasks \cup Task(bad, entry, TRUE)
  BY DEF PushState, Unreached
<1>4. entry' = entry /\ Registered' = Registered /\ Registered \in SUBSET Sockets
  BY <1>1, RegistryStays, RegisteredAreSockets DEF HubInv
<1>5. \A t \in tasks' : t \in tasks \/ Begun(t)'
  BY <1>3, <1>4 DEF Task, Begun
<1>6. SetsInv' /\ RegistryInv' /\ TasksInv' /\ CapInv'
  BY <1>1, <1>5, ConnectionsStay
<1>7. PlacesInv' /\ CountsShown'
  <2>1. Registered \ bad \in SUBSET Sockets /\ tasks \subseteq tasks'
    BY <1>3, <1>4
  <2> QED
    BY <1>1, <1>2, <1>3, <1>4, <2>1, AppliesShow DEF HubInv, CountsShown
<1> QED
  BY <1>1, <1>6, <1>7 DEF HubInv, CountsShown

LEMMA AnswerKeeps == ASSUME HubInv, NEW s \in Sockets, AnswerState(s) PROVE HubInv'
<1>1. UNCHANGED <<place, hub, tasks, beat, snapshot, dropped, crowd>> /\ ApplyState({s})
  BY DEF AnswerState
<1>2. payload'.to = {} \/ (payload'.to = payload.to /\ payload'.count = payload.count)
  <2>1. [payload EXCEPT !.answer = FALSE].to = payload.to /\ [payload EXCEPT !.answer = FALSE].count = payload.count
    OBVIOUS
  <2> QED
    BY <2>1, LeftOf DEF AnswerState
<1>3. SetsInv' /\ RegistryInv' /\ TasksInv' /\ CapInv' /\ Registered' = Registered
  BY <1>1, ConnectionsStay
<1>4. PlacesInv' /\ CountsShown'
  BY <1>1, <1>2, <1>3, AppliesShow DEF HubInv, CountsShown
<1> QED
  BY <1>1, <1>3, <1>4 DEF HubInv, CountsShown

LEMMA NoAnswerKeeps == ASSUME HubInv, NoAnswer PROVE HubInv'
<1>1. UNCHANGED <<place, hub, tasks, beat, snapshot, count, heard, behind, dropped, crowd>>
  BY DEF NoAnswer, tabs
<1>2. payload'.to = {} \/ (payload'.to = payload.to /\ payload'.count = payload.count)
  <2>1. [payload EXCEPT !.answer = FALSE].to = payload.to /\ [payload EXCEPT !.answer = FALSE].count = payload.count
    OBVIOUS
  <2> QED
    BY <2>1, LeftOf DEF NoAnswer
<1>3. SetsInv' /\ RegistryInv' /\ TasksInv' /\ CapInv' /\ Registered' = Registered
  BY <1>1, ConnectionsStay
<1>4. PlacesInv'
  BY <1>1 DEF HubInv, PlacesInv
<1>5. CountsShown'
  <2>1. \A r \in Registered : Excused(r) => Excused(r)'
    BY <1>1 DEF Excused
  <2> QED
    BY <1>1, <1>2, <1>3, <2>1, CountedStay DEF HubInv, CountsShown, PayloadInv
<1> QED
  BY <1>1, <1>3, <1>4, <1>5 DEF HubInv, CountsShown

LEMMA BeatKeeps == ASSUME HubInv, Beat PROVE HubInv'
<1>1. UNCHANGED <<place, hub, tasks, snapshot, payload, count, heard, behind, dropped, crowd>>
  BY DEF Beat, tabs
<1>2. /\ SetsInv' /\ RegistryInv' /\ TasksInv' /\ CapInv'
      /\ Registered' = Registered /\ Registered \in SUBSET Sockets
  BY <1>1, ConnectionsStay
<1>3. beat' \subseteq Sockets
  BY <1>2 DEF Beat
<1>4. PlacesInv'
  BY <1>1 DEF HubInv, PlacesInv
<1>5. CountsShown'
  <2>1. \A r \in Registered : Excused(r) => Excused(r)'
    BY <1>1 DEF Excused
  <2> QED
    BY <1>1, <1>2, <2>1, CountedStay DEF HubInv, CountsShown, PayloadInv
<1> QED
  BY <1>2, <1>3, <1>4, <1>5 DEF HubInv, CountsShown

-----------------------------------------------------------------------------
(* The invariant. *)

LEMMA HubBegins == HubInit => HubInv
<1> SUFFICES ASSUME HubInit PROVE HubInv
  OBVIOUS
<1>1. PlacesInv
  BY DEF HubInit, PlacesInv, Places
<1>2. sets = <<>> /\ entry = 0 /\ Registered = {}
  BY DEF HubInit, Registered, Members
<1>3. SetsInv
  BY <1>2 DEF SetsInv
<1>4. RegistryInv /\ TasksInv /\ beat \subseteq Sockets
  BY <1>2 DEF HubInit, RegistryInv, TasksInv, Inside
<1>5. CapInv
  <2>1. Accepting = {} /\ Crowded = 0 /\ crowd = 0
    BY DEF HubInit, Accepting, Crowded
  <2> QED
    BY <1>2, <2>1, FS_EmptySet, HubAssumption DEF CapInv
<1>6. ShownInv /\ SnapshotInv /\ PayloadInv
  BY <1>2 DEF HubInit, ShownInv, SnapshotInv, PayloadInv, Nothing
<1> QED
  BY <1>1, <1>3, <1>4, <1>5, <1>6 DEF HubInv

LEMMA HubStutters == ASSUME HubInv, UNCHANGED hubVars PROVE HubInv'
<1>1. UNCHANGED <<place, sets, entry, tasks, beat, snapshot, payload, count, heard, behind, dropped, crowd>>
  BY DEF hubVars, hub, tabs
<1>2. Registered' = Registered /\ Accepting' = Accepting /\ Crowded' = Crowded
  BY <1>1 DEF Registered, Accepting, Crowded
<1>3. \A r, c : Current(r, c)' <=> Current(r, c)
  BY <1>1, <1>2 DEF Current, Excused
<1>4. PlacesInv' /\ SetsInv' /\ RegistryInv' /\ TasksInv' /\ CapInv' /\ beat' \subseteq Sockets
  BY <1>1, <1>2 DEF HubInv, PlacesInv, SetsInv, RegistryInv, TasksInv, CapInv, Out
<1>5. ShownInv' /\ SnapshotInv' /\ PayloadInv'
  BY <1>1, <1>2, <1>3 DEF HubInv, ShownInv, SnapshotInv, PayloadInv
<1> QED
  BY <1>4, <1>5 DEF HubInv

LEMMA HubKeeps == HubInv /\ [HubNext]_hubVars => HubInv'
<1> SUFFICES ASSUME HubInv, [HubNext]_hubVars PROVE HubInv'
  OBVIOUS
<1>1. ASSUME NEW s \in Sockets, Endpoint(s) PROVE HubInv'
  BY <1>1, CheckKeeps, RegisterKeeps, SnapshotKeeps, GreetKeeps, AnnounceKeeps, LeaveKeeps DEF Endpoint
<1>2. CASE UNCHANGED hubVars
  BY <1>2, HubStutters
<1> QED
  BY <1>1, <1>2, AnswerKeeps, SweepKeeps, ComposeKeeps, PushKeeps, NoAnswerKeeps, BeatKeeps, EndBeatKeeps
  DEF HubNext

LEMMA HubShows == HubInv => ConnectionsAgree
<1> SUFFICES ASSUME HubInv PROVE ConnectionsAgree
  OBVIOUS
<1>1. RegistryIsSound
  <2>1. Registered \in SUBSET Sockets /\ Accepting \in SUBSET Sockets
    BY RegisteredAreSockets DEF HubInv, Accepting
  <2>2. Cardinality(Registered) \in Nat /\ Cardinality(Accepting) \in Nat
    BY <2>1, FS_Subset, FS_CardinalityType, HubAssumption
  <2>3. Crowded \in Nat /\ Cap \in Nat
    BY HubAssumption DEF HubInv, CapInv, Crowded
  <2> QED
    BY <2>2, <2>3 DEF HubInv, RegistryInv, CapInv, Crowded, RegistryIsSound
<1>2. PresenceSettles
  <2> SUFFICES ASSUME AllSettled, NEW s \in Registered PROVE count[s] = Count(Registered) \/ s \in behind
    BY DEF PresenceSettles
  <2>1. s \in Sockets /\ place[s] = "open"
    BY DEF AllSettled, HubInv, RegistryInv, Inside
  <2>2. Current(s, count[s])
    BY <2>1 DEF HubInv, ShownInv
  <2> QED
    BY <2>2 DEF Current, Excused, AllSettled, Joining
<1> QED
  BY <1>1, <1>2 DEF ConnectionsAgree

\* The registry is the connections whose endpoint goes on, within the cap but for those
\* accepted together; and once nothing is on its way every tab that is told of presence
\* shows how many controllers there are (ws_hub.py, useGameState.ts), for any number of
\* connections, failures and states on their way.
THEOREM TheConnectionsAgree == HubSpec => []ConnectionsAgree
<1>1. HubInit => HubInv
  BY HubBegins
<1>2. HubInv /\ [HubNext]_hubVars => HubInv'
  BY HubKeeps
<1>3. HubInv => ConnectionsAgree
  BY HubShows
<1> QED
  BY <1>1, <1>2, <1>3, PTL DEF HubSpec
=============================================================================
