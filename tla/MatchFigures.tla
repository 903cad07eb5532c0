---------------------------- MODULE MatchFigures ----------------------------
(***************************************************************************)
(* What three pages tell of a match: the spectator's follow page           *)
(* (overlay_static/js/spectator.js), the set recap of the overlay in its   *)
(* six styles (set_summary.js) and the operator's board (the panels of     *)
(* frontend/src/components).  The server computes part of their figures    *)
(* from the audit log (app/api/live_stats.py) and sends them with every    *)
(* broadcast; the pages compute the rest from it, or from the log itself,  *)
(* and each has its own way to trade the teams' places when the sides are  *)
(* swapped.                                                                *)
(*                                                                         *)
(* The log keeps the records that some figure reads, without the undone    *)
(* ones; the record of an undo stays.  A page's content is a function of   *)
(* what it was last sent, so it is not a variable; that a page may be      *)
(* behind is in ObsBroadcast, RevisionProtocol and AuditFeed.              *)
(***************************************************************************)
EXTENDS GameManager, SequencesExt

CONSTANTS
  rules,       \* the match's limits
  Values,      \* values a manual edit of the score may write
  MaxRecords,  \* bound: records in the log
  Classified,  \* bound: the teams whose points may be classified
  MaxTagged,   \* bound: classified points in it
  MaxOthers,   \* bound: serves, timeouts and edits in the log
  MaxUndos     \* bound: undos in the log

ASSUME FiguresAssumption ==
  rules \in Rules /\ Values \subseteq Nat /\ Classified \subseteq Team /\ {MaxRecords, MaxTagged, MaxOthers, MaxUndos} \subseteq Nat

VARIABLES
  board,    \* the match; its setNo is the session's current set
  log,      \* the audit log
  heard,    \* how much of it the last broadcast was computed from
  swapped   \* sides_swapped

vars == <<board, log, heard, swapped>>

\* The sets a page can show.
Played == 1..rules.sets

-----------------------------------------------------------------------------
(* The log and the statistics of live_stats.py *)

\* Of a point, or its undo, the set being played before it; of anything else the
\* current one.
Record(action, t, set, b, tagged) ==
  [action |-> action, team |-> t, set |-> set, serve |-> b.serve, tagged |-> tagged,
   score |-> <<b.score[1][set], b.score[2][set]>>, sets |-> b.sets,
   finished |-> MatchFinished(b, rules.sets)]

IsUndo(r) == r.action = "undo"

\* The first n records, each with its position for its ts.
Stamped(n) == [i \in 1..n |-> log[i] @@ [ts |-> i]]

Heard == SelectSeq(Stamped(heard), LAMBDA r : ~IsUndo(r))

IsPoint(r) == r.action = "add_point"
IsScore(r) == r.action \in {"add_point", "set_score"}

\* Each reads l, the records heard.
PointsBySet(l, s) == SelectSeq(l, LAMBDA r : IsScore(r) /\ r.set = s)
TimeoutsBySet(l, s) == SelectSeq(l, LAMBDA r : r.action = "add_timeout" /\ r.set = s)

\* The points with whoever the records before them had serving.
Rallies(l) ==
  LET Play(c, r) ==
        [server |-> IF r.serve = 0 THEN c.server ELSE r.serve,
         played |-> IF IsPoint(r) /\ c.server # 0
                    THEN Append(c.played, [set |-> r.set, by |-> c.server, won |-> r.team])
                    ELSE c.played]
  IN FoldLeft(Play, [server |-> 0, played |-> <<>>], l).played

Services(rallies, Sets) ==
  LET Of(t) == SelectSeq(rallies, LAMBDA r : r.by = t /\ r.set \in Sets)
  IN [t \in Team |-> [served |-> Len(Of(t)),
                      won |-> Len(SelectSeq(Of(t), LAMBDA r : r.won = t))]]

\* Any other record breaks a run, and so does a new set.
LongestStreakBySet(l) ==
  LET none == [team |-> 0, n |-> 0, set |-> 0,
               longest |-> [s \in Played |-> [t \in Team |-> 0]]]
      Count(c, r) ==
        LET n == IF r.team = c.team /\ r.set = c.set THEN c.n + 1 ELSE 1
        IN IF ~IsPoint(r) THEN [none EXCEPT !.longest = c.longest]
           ELSE [team |-> r.team, n |-> n, set |-> r.set,
                 longest |-> [c.longest EXCEPT ![r.set][r.team] = Max({@, n})]]
  IN FoldLeft(Count, none, l).longest

\* The classified points, for the one classification the model knows.
PointTypes(l, Sets) ==
  LET typed == SelectSeq(l, LAMBDA r : IsPoint(r) /\ r.tagged /\ r.set \in Sets)
  IN [t \in Team |-> Len(SelectSeq(typed, LAMBDA r : r.team = t))]

\* The team of the last point, when it was classified.
LastPoint(l) ==
  LET points == SelectSeq(l, IsPoint)
  IN IF points = <<>> THEN 0 ELSE IF Last(points).tagged THEN Last(points).team ELSE 0

\* The trailing run: another team's point or an edit breaks it, a new set does not.
CurrentStreak(l) ==
  LET Count(c, r) ==
        IF r.action = "set_score" THEN [team |-> 0, n |-> 0]
        ELSE IF IsPoint(r) THEN [team |-> r.team, n |-> IF r.team = c.team THEN c.n + 1 ELSE 1]
        ELSE c
  IN FoldLeft(Count, [team |-> 0, n |-> 0], l)

\* The records of each set, the set that was begun first before the others.
BySet(l) ==
  LET order == FoldLeft(LAMBDA q, r : IF r.set \in ToSet(q) THEN q ELSE Append(q, r.set), <<>>, l)
  IN [i \in DOMAIN order |-> SelectSeq(l, LAMBDA r : r.set = order[i])]

\* The first of the longest runs, each of one set.
LongestStreak(l) ==
  LET Count(c, r) ==
        LET run == [team |-> r.team, n |-> IF r.team = c.run.team THEN c.run.n + 1 ELSE 1]
        IN IF ~IsPoint(r) THEN [c EXCEPT !.run = [team |-> 0, n |-> 0]]
           ELSE [run |-> run, best |-> IF run.n > c.best.n THEN run ELSE c.best]
      none == [team |-> 0, n |-> 0]
  IN FoldLeft(LAMBDA best, of : FoldLeft(Count, [run |-> none, best |-> best], of).best, none, BySet(l))

\* What the team that is not ahead in a set has won back of its deficit there, the
\* home team when neither is; of each, the most in a set.
PartialComeback(l) ==
  LET Behind(of) == IF Last(of).score[1] > Last(of).score[2] THEN 2 ELSE 1
      Walk(t, w, r) ==
        LET d == r.score[Rival(t)] - r.score[t]
            least == Max({0, d})
        IN IF d > w.peak THEN [w EXCEPT !.peak = d, !.least = d]
           ELSE IF w.peak > 0 /\ least < w.least
                THEN [w EXCEPT !.least = least, !.won = Max({@, w.peak - least})] ELSE w
      Recovery(t, of) ==
        FoldLeft(LAMBDA w, r : Walk(t, w, r), [peak |-> 0, least |-> 0, won |-> 0], of).won
  IN [t \in Team |-> Max({0} \cup {Recovery(t, of) : of \in {q \in ToSet(BySet(l)) : Behind(q) = t}})]

SummarySet ==
  IF (\E i \in 1..heard : IsPoint(log[i]) /\ log[i].set = board.setNo) \/ board.setNo = 1
  THEN board.setNo ELSE board.setNo - 1

HasSetPoint(t) ==
  /\ ~MatchFinished(board, rules.sets)
  /\ IsWinningScore(board.score[t][board.setNo] + 1, board.score[Rival(t)][board.setNo],
                    GameLimit(rules, board.setNo))

HasMatchPoint(t) == HasSetPoint(t) /\ board.sets[t] + 1 >= SoftLimit(rules.sets)

TeamPayload(t) ==
  [team |-> t, points |-> board.score[t][board.setNo], sets |-> board.sets[t],
   timeouts |-> board.timeouts[t][board.setNo], serving |-> board.serve = t,
   history |-> board.score[t]]

Payload ==
  LET l == Heard
      rallies == Rallies(l)
  IN [home |-> TeamPayload(1), away |-> TeamPayload(2), swapped |-> swapped,
      finished |-> MatchFinished(board, rules.sets),
      setPoint |-> [t \in Team |-> HasSetPoint(t)],
      matchPoint |-> [t \in Team |-> HasMatchPoint(t)],
      summarySet |-> SummarySet,
      points |-> [s \in Played |-> PointsBySet(l, s)],
      timeouts |-> [s \in Played |-> TimeoutsBySet(l, s)],
      services |-> Services(rallies, Played),
      servicesBySet |-> [s \in Played |-> Services(rallies, {s})],
      longest |-> LongestStreakBySet(l),
      types |-> PointTypes(l, Played),
      typesBySet |-> [s \in Played |-> PointTypes(l, {s})],
      last |-> LastPoint(l), current |-> board.setNo,
      streak |-> CurrentStreak(l), longestOfAll |-> LongestStreak(l), comeback |-> PartialComeback(l),
      total |-> Len(SelectSeq(l, IsPoint)), history |-> SelectSeq(l, IsScore)]

-----------------------------------------------------------------------------
(* The follow page.  Its left column, 1, is the payload's home team, and its *)
(* right one, 2, the away team.                                              *)

\* Mutant: the running scores of the events stay as they were.
TurnedTeamsOnly(events) == [i \in DOMAIN events |-> [events[i] EXCEPT !.team = Rival(@)]]

Turned(events) ==
  [i \in DOMAIN events |-> [events[i] EXCEPT !.team = Rival(@), !.score = <<@[2], @[1]>>]]

TurnedPair(pair) == [c \in Team |-> pair[Rival(c)]]

ApplySideSwap(p) ==
  IF ~p.swapped THEN p
  ELSE [p EXCEPT !.home = p.away, !.away = p.home,
                 !.points = [s \in Played |-> Turned(@[s])],
                 !.timeouts = [s \in Played |-> Turned(@[s])],
                 !.services = TurnedPair(@),
                 !.last = IF @ = 0 THEN 0 ELSE Rival(@),
                 !.setPoint = TurnedPair(@), !.matchPoint = TurnedPair(@)]

\* The run under way, each column's longest, and what each has won back of its
\* largest deficit, up to the tie.
PerSetStreakAndComeback(events) ==
  LET Deficit(r, c) == r.score[Rival(c)] - r.score[c]
      Back(w, c, d) ==
        IF d > w.peak[c] THEN [peak |-> d, least |-> d, won |-> w.won[c]]
        ELSE LET least == IF w.peak[c] > 0 /\ Max({0, d}) < w.least[c]
                          THEN Max({0, d}) ELSE w.least[c]
             IN [peak |-> w.peak[c], least |-> least,
                 won |-> Max({w.won[c], w.peak[c] - least})]
      Walk(w, r) ==
        LET n    == IF r.team = w.team THEN w.n + 1 ELSE 1
            back == [c \in Team |-> Back(w, c, Deficit(r, c))]
        IN IF r.action = "set_score" THEN [w EXCEPT !.team = 0, !.n = 0]
           ELSE [team |-> r.team, n |-> n,
                 longest |-> [w.longest EXCEPT ![r.team] = Max({@, n})],
                 peak |-> [c \in Team |-> back[c].peak],
                 least |-> [c \in Team |-> back[c].least],
                 won |-> [c \in Team |-> back[c].won]]
      none == [c \in Team |-> 0]
  IN FoldLeft(Walk, [team |-> 0, n |-> 0, longest |-> none, peak |-> none,
                     least |-> none, won |-> none], events)

\* The row of longest runs shows when one reaches three and it says more than
\* the row of the run under way.
ShowsLongest(walked) ==
  /\ \E c \in Team : walked.longest[c] >= 3
  /\ \/ walked.team = 0
     \/ walked.longest[walked.team] > walked.n
     \/ walked.longest[Rival(walked.team)] >= 3

ShowsComeback(walked) == \E c \in Team : walked.won[c] >= 3

SumSetHistory(history) == FoldFunction(+, 0, history)

\* Timeouts are marked between the first and the last event of the chart.
Marks(p, s) ==
  SelectSeq(p.timeouts[s], LAMBDA r : /\ Len(p.points[s]) >= 2
                                      /\ Head(p.points[s]).ts <= r.ts
                                      /\ r.ts <= Last(p.points[s]).ts)

\* renderScoreboard and renderHistory: a column's own score and its sets.
Scoreboard(p, c) == IF c = 1 THEN p.home ELSE p.away

\* renderAlerts: one badge for a team, none once the match is over.
Alert(p, c) ==
  IF p.finished THEN "no"
  ELSE IF p.matchPoint[c] THEN "match" ELSE IF p.setPoint[c] THEN "set" ELSE "no"

\* renderStats: the match's totals, services and classified points, and the runs
\* of set s.
StatRows(p, walked, c) ==
  [total    |-> SumSetHistory(Scoreboard(p, c).history),
   served   |-> p.services[c].served, won |-> p.services[c].won,
   streak   |-> IF walked.team = c /\ walked.n >= 2 THEN walked.n ELSE 0,
   longest  |-> IF ShowsLongest(walked) THEN walked.longest[c] ELSE 0,
   comeback |-> IF ShowsComeback(walked) THEN walked.won[c] ELSE 0,
   types    |-> p.types[c]]

\* renderSetChart
Chart(p, s, c) ==
  [line  |-> [i \in DOMAIN p.points[s] |-> p.points[s][i].score[c]],
   marks |-> Len(SelectSeq(Marks(p, s), LAMBDA r : r.team = c))]

\* What each column tells while set s is viewed.
FollowPage(p, s) ==
  LET walked == PerSetStreakAndComeback(p.points[s]) IN
  [c \in Team |-> Scoreboard(p, c) @@ StatRows(p, walked, c) @@ Chart(p, s, c) @@
                 [last |-> p.last = c, alert |-> Alert(p, c)]]

-----------------------------------------------------------------------------
(* The recap, in its six styles.  Home is team 1, whatever side it is on. *)

ViewModel(p) ==
  LET s == p.summarySet
  IN [set |-> s, score |-> <<p.home.history[s], p.away.history[s]>>,
      longest |-> p.longest[s], services |-> p.servicesBySet[s], types |-> p.typesBySet[s],
      points |-> SelectSeq(p.points[s], IsPoint), timeouts |-> p.timeouts[s],
      taken |-> <<p.home.timeouts, p.away.timeouts>>, sets |-> <<p.home.sets, p.away.sets>>]

\* Points and timeouts by time: a team's row has its score at each point of its
\* own, -1 for its timeouts, and a gap, -2, where the rival has one of either.
Ledger(vm, t) ==
  LET Cell(r) == IF r.team # t THEN -2 ELSE IF IsPoint(r) THEN r.score[t] ELSE -1
      merged  == SortSeq(vm.points \o vm.timeouts, LAMBDA q, r : q.ts < r.ts)
  IN [i \in DOMAIN merged |-> Cell(merged[i])]

ChartPolylinePoints(vm, t) == [i \in DOMAIN vm.points |-> vm.points[i].score[t]]

\* The margin of the home team over the away one.
DiffChart(vm) == [i \in DOMAIN vm.points |-> vm.points[i].score[1] - vm.points[i].score[2]]

\* Of every style.
Basics(vm, t) ==
  [score |-> vm.score[t], longest |-> vm.longest[t], served |-> vm.services[t].served,
   won |-> vm.services[t].won, types |-> vm.types[t]]

StatsTile(vm, t) == [timeouts |-> vm.taken[t], total |-> vm.score[1] + vm.score[2]]

BrandLedger(vm, t)  == Basics(vm, t) @@ [ledger |-> Ledger(vm, t)]
BrandColumns(vm, t) == Basics(vm, t) @@ [line |-> ChartPolylinePoints(vm, t)]
Bento(vm, t)  == Basics(vm, t) @@ StatsTile(vm, t) @@ [ledger |-> Ledger(vm, t)]
Glass(vm, t)  == Basics(vm, t) @@ StatsTile(vm, t) @@
                 [sets |-> vm.sets[t], line |-> ChartPolylinePoints(vm, t)]
LedgerDiff(vm, t) == Basics(vm, t) @@ [timeouts |-> vm.taken[t], sets |-> vm.sets[t],
                                       margin |-> DiffChart(vm)]
Bumper(vm, t) == Basics(vm, t) @@ StatsTile(vm, t) @@ [ledger |-> Ledger(vm, t)]

\* pickRenderer
Recaps(vm, t) == {BrandLedger(vm, t), BrandColumns(vm, t), Bento(vm, t), Glass(vm, t),
                  LedgerDiff(vm, t), Bumper(vm, t)}

-----------------------------------------------------------------------------
(* The overlay (app.js), whose places trade the teams and nothing else.        *)

SwappedTeamView(p) == IF p.swapped THEN [p EXCEPT !.home = p.away, !.away = p.home] ELSE p

\* One pip for each set it takes to win the match; those won are filled.
SetPips(p, c) ==
  [i \in 1..((rules.sets + 1) \div 2) |-> i <= Scoreboard(p, c).sets]

\* How much of the target of the current set.
SetProgress(p, c) ==
  LET target == IF p.current >= rules.sets THEN rules.lastPoints ELSE rules.points
  IN [points |-> Min({Scoreboard(p, c).points, target}), target |-> target]

TimeoutDots == 1..2

UpdateTimeouts(p, c) == [i \in TimeoutDots |-> i <= Scoreboard(p, c).timeouts]

SetLabel(p) == p.current

\* The rows of the statistics, each with the place whose colour it has.
LiveStats(p) ==
  LET none == [n |-> 0, team |-> 0]
      peak == Max({p.comeback[1], p.comeback[2]})
      longest == p.longestOfAll.n >= 4 /\ p.longestOfAll.n > p.streak.n
  IN [streak   |-> IF p.streak.n >= 2 THEN p.streak ELSE none,
      longest  |-> IF longest THEN p.longestOfAll ELSE none,
      comeback |-> IF longest \/ peak < 3 THEN none
                   ELSE [n |-> peak, team |-> IF p.comeback[1] = peak THEN 1 ELSE 2],
      total    |-> p.total]

\* A chip for each point and edit, of the colour of its team's place.
PointsHistory(p) == [i \in DOMAIN p.history |-> p.history[i].team]

Overlay(p) ==
  [c \in Team |-> [team |-> Scoreboard(p, c).team, pips |-> SetPips(p, c), progress |-> SetProgress(p, c),
                   dots |-> UpdateTimeouts(p, c), label |-> SetLabel(p)]]

-----------------------------------------------------------------------------
(* The operator's board.  p is the state it was sent, l the log it mirrors.   *)

\* App's computeCurrentSet
ShownSet(p) ==
  Max({1, Min({rules.sets, p.home.sets + p.away.sets + (IF p.finished THEN 0 ELSE 1)})})

PickAlert(p) ==
  LET with(flags) == {t \in Team : flags[t]}
  IN IF p.finished THEN [kind |-> "finished", team |-> 0]
     ELSE IF with(p.matchPoint) # {} THEN [kind |-> "match", team |-> Min(with(p.matchPoint))]
     ELSE IF with(p.setPoint) # {} THEN [kind |-> "set", team |-> Min(with(p.setPoint))]
     ELSE [kind |-> "no", team |-> 0]

\* The place, left or right, that the alert stands at and points to.
AlertPlace(p) == IF PickAlert(p).team = 0 \/ (PickAlert(p).team = 1) # p.swapped THEN 1 ELSE 2

\* The sets up to the last that has points, the one being played only once it is
\* the decider.
ScoreTable(p, t) ==
  LET begun == {1} \cup {s \in Played : p.home.history[s] + p.away.history[s] > 0}
      stops == {s \in Played : \/ s > Max(begun)
                               \/ s = ShownSet(p) /\ s < rules.sets /\ ~p.finished}
  IN SubSeq(Scoreboard(p, t).history, 1, IF stops = {} THEN rules.sets ELSE Min(stops) - 1)

TeamPanel(p, t) ==
  LET team == Scoreboard(p, t)
  IN [team |-> t, points |-> team.history[ShownSet(p)], timeouts |-> team.timeouts,
      serving |-> team.serving]

\* The star or trophy of a team whose sets a record tells have grown.
SetChips(c, r) ==
  LET kind == IF r.finished /\ ~c.finished THEN "match_won" ELSE "set_won"
      of(t) == IF c.sets # <<>> /\ r.sets[t] > c.sets[t]
               THEN <<[ts |-> r.ts, team |-> t, kind |-> kind]>> ELSE <<>>
  IN of(1) \o of(2)

\* An edit that writes what the chips before it had makes none.
ActionChip(c, r) ==
  LET chip(kind) == <<[ts |-> r.ts, team |-> r.team, kind |-> kind]>>
  IN CASE IsPoint(r) -> chip(IF r.tagged THEN "typed" ELSE "point")
       [] r.action = "add_timeout" -> chip("timeout")
       [] r.action = "set_score" ->
            IF r.value = c.last[r.number][r.team] THEN <<>> ELSE chip("manual")
       [] OTHER -> <<>>

Tracked(c, r, chips) ==
  [chips |-> c.chips \o chips, sets |-> r.sets, finished |-> r.finished,
   last |-> [c.last EXCEPT ![r.set] = r.score]]

NoChips == [chips |-> <<>>, sets |-> <<>>, finished |-> FALSE,
            last |-> [s \in Played |-> <<0, 0>>]]

\* classifyRecords: an undo makes no chip and is taken note of.
ClassifyRecords(l) ==
  FoldLeft(LAMBDA c, r : Tracked(c, r, ActionChip(c, r) \o SetChips(c, r)), NoChips, l).chips

StripRow(l, t) == SelectSeq(ClassifyRecords(l), LAMBDA chip : chip.team = t)

\* What stands at each place, the left or the upper one first.
BoardScreen(p, l) ==
  [place \in Team |->
     LET t == IF p.swapped THEN Rival(place) ELSE place
     IN TeamPanel(p, t) @@
        [sets |-> Scoreboard(p, t).sets, table |-> ScoreTable(p, t), row |-> StripRow(l, t),
         alert |-> IF AlertPlace(p) = place THEN PickAlert(p).kind ELSE "no"]]

-----------------------------------------------------------------------------
(* The requests.  Each saves the board and broadcasts it; what is appended to *)
(* the log before the broadcast is computed from is heard at once, and what   *)
(* is appended after it at the next one.                                      *)

Tell(b, l, n) ==
  board' = b /\ log' = l /\ heard' = n

Undos == Len(SelectSeq(log, IsUndo))
Room == Len(log) - Undos < MaxRecords
RoomForOther == Room /\ Len(SelectSeq(log, LAMBDA r : ~IsPoint(r))) - Undos < MaxOthers

Live == ~MatchFinished(board, rules.sets)

ScorePoint(t, tagged) ==
  LET set == board.setNo
      b   == AddGame(board, t, set, rules)
      won == SetWonBy(b, t, set, rules)
  IN /\ Room /\ Live
     /\ tagged => t \in Classified /\ Len(SelectSeq(log, LAMBDA r : r.tagged)) < MaxTagged
     /\ Tell(Save(b, IF won THEN ComputeCurrentSet(b, rules.sets) ELSE set),
             Append(log, Record("add_point", t, set, b, tagged)), Len(log) + 1)
     /\ UNCHANGED swapped

CallTimeout(t) ==
  LET b == AddTimeout(board, t)
  IN /\ RoomForOther /\ Live
     /\ Tell(b, Append(log, Record("add_timeout", t, b.setNo, b, FALSE)), Len(log) + 1)
     /\ UNCHANGED swapped

ChangeServeTo(t) ==
  LET b == ChangeServe(board, t, FALSE)
  IN /\ RoomForOther
     /\ Tell(b, Append(log, Record("change_serve", t, b.setNo, b, FALSE)), Len(log))
     /\ UNCHANGED swapped

\* Its record is tagged with the current set, whichever set was edited.
EditScore(t, set, value) ==
  LET edited == SetGameValue(board, t, set, value)
      b      == CheckSetWon(edited, t, set, rules)
      after  == Save(b, IF SetWonBy(edited, t, set, rules)
                        THEN ComputeCurrentSet(b, rules.sets) ELSE b.setNo)
  IN /\ RoomForOther
     /\ Tell(after, Append(log, Record("set_score", t, after.setNo, after, FALSE)
                             @@ [number |-> set, value |-> value]), Len(log))
     /\ UNCHANGED swapped

Undoables == {i \in DOMAIN log : log[i].action \in {"add_point", "add_timeout"}}

UndoLast ==
  /\ Undoables # {} /\ Undos < MaxUndos
  /\ LET r   == log[Max(Undoables)]
         won == UnwinsSet(board, r.team, board.setNo, rules)
         b   == IF IsPoint(r) THEN UndoGame(board, r.team, board.setNo, rules)
                ELSE UndoTimeout(board, r.team)
         set == IF IsPoint(r) /\ won THEN ComputeCurrentSet(b, rules.sets) ELSE b.setNo
     IN Tell(Save(b, set),
             Append(RemoveAt(log, Max(Undoables)),
                    Record("undo", r.team, b.setNo, b, FALSE)), Len(log))
  /\ UNCHANGED swapped

SwapSides ==
  /\ Tell(board, log, Len(log))
  /\ swapped' = ~swapped

Init ==
  /\ board = ResetBoard /\ log = <<>> /\ heard = 0
  /\ swapped = FALSE

Next ==
  \/ \E t \in Team, tagged \in BOOLEAN : ScorePoint(t, tagged)
  \/ \E t \in Team : CallTimeout(t)
  \/ \E t \in Team : ChangeServeTo(t)
  \/ \E t \in Team, s \in Played, value \in Values : EditScore(t, s, value)
  \/ UndoLast
  \/ SwapSides

Spec == Init /\ [][Next]_vars

-----------------------------------------------------------------------------
(* What the figures mean, read off the log and the board one by one. *)

PointsOf(t, s) == {i \in 1..heard : IsPoint(log[i]) /\ log[i].team = t /\ log[i].set = s}
Points(s) == PointsOf(1, s) \cup PointsOf(2, s)

\* Who served point i: whom the latest record before it that knows has serving.
ServedBy(i) ==
  LET known == {j \in 1..(i - 1) : ~IsUndo(log[j]) /\ log[j].serve # 0}
  IN IF known = {} THEN 0 ELSE log[Max(known)].serve

Served(t, Sets) == {i \in UNION {Points(s) : s \in Sets} : ServedBy(i) = t}
Won(t, Sets) == {i \in Served(t, Sets) : log[i].team = t}

\* The longest run of t's points in set s, among those that end at record n or
\* later, with none of the records that break a run among them.
LongestRun(t, s, n, breaks(_)) ==
  LET mine   == PointsOf(t, s)
      broken == {k \in 1..heard : breaks(log[k])}
      runs   == {r \in mine \X (n..heard) : r[1]..r[2] \cap broken = {}}
  IN Max({0} \cup {Cardinality(mine \cap r[1]..r[2]) : r \in runs})

\* Follow page: another team's point or an edit breaks a run, nothing else does.
BreaksRally(t, s, r) == r.set = s /\ (IsPoint(r) => r.team # t) /\ IsScore(r)
\* Recap: everything but a point of that team in that set does, an undo apart.
BreaksRecord(t, s, r) == ~IsUndo(r) /\ ~(IsPoint(r) /\ r.team = t /\ r.set = s)
\* Overlay: so does everything else of that set.
BreaksInSet(t, s, r) == BreaksRecord(t, s, r) /\ r.set = s

Deficit(t, i) == log[i].score[Rival(t)] - log[i].score[t]

Comeback(t, s) ==
  LET later == {p \in Points(s) \X Points(s) : p[1] < p[2]}
  IN Max({0} \cup {Deficit(t, p[1]) - Max({0, Deficit(t, p[2])}) : p \in later})

Scores(t, events) == [i \in DOMAIN events |-> events[i].score[t]]

\* What the next point would do for a team.
NextPoint(t) ==
  LET b == AddGame(board, t, board.setNo, rules)
  IN IF ~Live \/ ~SetWonBy(b, t, board.setNo, rules) THEN "no"
     ELSE IF MatchFinished(b, rules.sets) THEN "match" ELSE "set"

\* Whether or not the sides are swapped, and whichever set is viewed, all that a
\* column of the follow page tells is true of the team it names: its score and
\* the point it plays for, its total, the rallies it served and won, its run
\* under way and its comeback, its line in the chart and its timeouts there; and
\* no run of three or more stays untold.  (The classified points stay with their
\* old column: README.)
FollowPageAgrees(p) ==
  LET told  == ApplySideSwap(p)
      last  == Max({0} \cup UNION {Points(n) : n \in Played})
      scored(s) == {i \in 1..heard : IsScore(log[i]) /\ log[i].set = s}
      marked(t, s) == {i \in 1..heard : /\ log[i].action = "add_timeout" /\ log[i].team = t
                                        /\ log[i].set = s
                                        /\ \E j \in scored(s) : j < i
                                        /\ \E j \in scored(s) : i < j}
  IN \A c \in Team :
       LET t    == IF swapped THEN Rival(c) ELSE c
           main == Scoreboard(told, c)
       IN /\ main.team = t
          /\ main.points = board.score[t][board.setNo]
          /\ main.sets = board.sets[t]
          /\ main.timeouts = board.timeouts[t][board.setNo]
          /\ main.serving <=> board.serve = t
          /\ Alert(told, c) = NextPoint(t)
          /\ \A s \in Played :
               LET column  == FollowPage(told, s)[c]
                   longest == LongestRun(t, s, 1, LAMBDA r : BreaksRally(t, s, r))
                   run     == LongestRun(t, s, heard, LAMBDA r : BreaksRally(t, s, r))
                   back3   == \E u \in Team : Comeback(u, s) >= 3
                   chart   == SelectSeq(Heard, LAMBDA r : IsScore(r) /\ r.set = s)
               IN /\ column.total = SumSetHistory(board.score[t])
                  /\ column.served = Cardinality(Served(t, Played))
                  /\ column.won = Cardinality(Won(t, Played))
                  /\ column.last <=> last # 0 /\ log[last].team = t /\ log[last].tagged
                  /\ column.streak = IF run >= 2 THEN run ELSE 0
                  /\ column.longest \in {0, longest}
                  /\ longest >= 3 => longest \in {column.longest, column.streak}
                  /\ column.comeback = IF back3 THEN Comeback(t, s) ELSE 0
                  /\ column.line = Scores(t, chart)
                  /\ column.marks = Cardinality(marked(t, s))

\* The row of team t: its score at each of its points, a mark at its timeouts.
Row(t, s) ==
  LET told == SelectSeq(Heard, LAMBDA r :
                r.set = s /\ (IsPoint(r) \/ r.action = "add_timeout"))
  IN [i \in DOMAIN told |-> IF told[i].team # t THEN -2
                            ELSE IF IsPoint(told[i]) THEN told[i].score[t] ELSE -1]

Figures(t, s) ==
  LET rallies == SelectSeq(Heard, LAMBDA r : IsPoint(r) /\ r.set = s)
  IN [score |-> board.score[t][s], sets |-> board.sets[t],
      total |-> board.score[1][s] + board.score[2][s],
      timeouts |-> board.timeouts[t][s],
      longest |-> LongestRun(t, s, 1, LAMBDA r : BreaksRecord(t, s, r)),
      served |-> Cardinality(Served(t, {s})), won |-> Cardinality(Won(t, {s})),
      types |-> Cardinality({i \in PointsOf(t, s) : log[i].tagged}),
      line |-> Scores(t, rallies), ledger |-> Row(t, s),
      margin |-> [i \in DOMAIN rallies |-> rallies[i].score[1] - rallies[i].score[2]]]

RecapSet ==
  IF Points(board.setNo) # {} \/ board.setNo = 1 THEN board.setNo ELSE board.setNo - 1

Edited == \E i \in 1..Len(log) : log[i].action = "set_score"

\* The recap is of the set being played once a point of it has been, and of the
\* one before until then.  Every style tells, of each team, figures of that set:
\* its score, longest run, services, classified points, chart and row; only the
\* timeouts are those of the current set (README).  In a match nobody edited the
\* row counts the team's points up, one by one, to its score.
RecapAgrees(p) ==
  LET vm == ViewModel(p)
  IN /\ vm.set = RecapSet
     /\ \A t \in Team :
          /\ LET figures == Figures(t, vm.set)
             IN \A style \in Recaps(vm, t) : \A f \in DOMAIN style :
                  (f = "timeouts" => vm.set = board.setNo) => style[f] = figures[f]
          /\ ~Edited => SelectSeq(Ledger(vm, t), LAMBDA n : n >= 0)
                          = [n \in 1..vm.score[t] |-> n]

\* Whichever sides the teams are on, what the operator's board shows at a place
\* is of the team whose taps it takes: the score is that of the set the next
\* point will count in, the alert is that of the team there, and the table has
\* every set before.  In a match nobody edited the strip has that team's points
\* and timeouts, a star at the point of every set it has and a trophy once it has
\* won.  (Stars beside a change of serve, and the edits: README.)
BoardAgrees(p) ==
  LET told == BoardScreen(p, Stamped(Len(log)))
  IN \A place \in Team :
       LET t     == IF swapped THEN Rival(place) ELSE place
           shown == told[place]
           chips(Kinds) == SelectSeq(shown.row, LAMBDA c : c.kind \in Kinds)
           stars(Kinds) == SelectSeq(chips(Kinds), LAMBDA c : IsPoint(log[c.ts]))
           records(P(_)) == {i \in DOMAIN log : P(log[i]) /\ log[i].team = t}
       IN /\ shown.team = t /\ shown.sets = board.sets[t]
          /\ Live => shown.points = board.score[t][board.setNo]
          /\ shown.timeouts = board.timeouts[t][board.setNo]
          /\ shown.serving <=> board.serve = t
          /\ Live => shown.alert = NextPoint(t)
          /\ \A s \in 1..(board.setNo - 1) :
               board.score[1][s] + board.score[2][s] > 0 =>
                 s \in DOMAIN shown.table /\ shown.table[s] = board.score[t][s]
          /\ ~Edited =>
               /\ Len(chips({"point", "typed"})) = Cardinality(records(IsPoint))
               /\ Len(chips({"timeout"})) =
                    Cardinality(records(LAMBDA r : r.action = "add_timeout"))
               /\ Len(stars({"set_won", "match_won"})) = board.sets[t]
               /\ Len(stars({"match_won"})) = IF board.sets[t] >= SoftLimit(rules.sets) THEN 1 ELSE 0

\* The sets of which team t has a trailing score, or an even one that is the home team's.
NotAhead(t) ==
  {s \in Played : LET of == {i \in 1..heard : ~IsUndo(log[i]) /\ log[i].set = s} IN
     of # {} /\ Deficit(t, Max(of)) >= IF t = 1 THEN 0 ELSE 1}

WonBack(t, s) ==
  LET of == {i \in 1..heard : ~IsUndo(log[i]) /\ log[i].set = s}
  IN Max({0} \cup {Deficit(t, p[1]) - Max({0, Deficit(t, p[2])}) : p \in {q \in of \X of : q[1] < q[2]}})

\* Whichever sides the teams are on, the overlay's pips, bar and dots at a place are of the
\* team named there: all its pips are filled once it has won the match, and its bar lacks no
\* more than a point when the next one wins the set.  Its statistics tell the run under way,
\* the longest one of a set and the comeback as the log has them, and in a match nobody edited
\* as many points, of each team, as were scored.  (Their colours when the sides are swapped,
\* and the comeback of the away team at a tie: README.)
OverlayAgrees(p) ==
  LET told  == Overlay(SwappedTeamView(p))
      stats == LiveStats(p)
      chips == PointsHistory(p)
      run(t) == Max({0} \cup {Cardinality({i \in n..heard : IsPoint(log[i])}) :
                    n \in {m \in 1..heard : \A i \in m..heard : IsScore(log[i]) => IsPoint(log[i]) /\ log[i].team = t}})
      ofSet(t, s) == LongestRun(t, s, 1, LAMBDA r : BreaksInSet(t, s, r))
      longest == Max({ofSet(t, s) : t \in Team, s \in Played})
      back(t) == Max({0} \cup {WonBack(t, s) : s \in NotAhead(t)})
  IN /\ \A c \in Team :
          LET t == IF swapped THEN Rival(c) ELSE c IN
          /\ told[c].team = t /\ told[c].label = board.setNo
          /\ Cardinality({i \in DOMAIN told[c].pips : told[c].pips[i]}) = board.sets[t]
          /\ (\A i \in DOMAIN told[c].pips : told[c].pips[i]) <=> ~Live /\ board.sets[t] > board.sets[Rival(t)]
          /\ Cardinality({i \in TimeoutDots : told[c].dots[i]}) = board.timeouts[t][board.setNo]
          /\ told[c].progress.target = GameLimit(rules, board.setNo)
          /\ NextPoint(t) # "no" => told[c].progress.points >= told[c].progress.target - 1
     /\ \A t \in Team : stats.streak = [n |-> run(t), team |-> t] <=> run(t) >= 2
     /\ stats.longest.n = IF longest >= 4 /\ longest > Max({run(1), run(2)}) THEN longest ELSE 0
     /\ stats.longest.n > 0 => \E s \in Played : ofSet(stats.longest.team, s) = longest
     /\ LET most == Max({back(1), back(2)}) IN
        IF stats.longest.n = 0 /\ most >= 3
        THEN stats.comeback.n = most /\ back(stats.comeback.team) = most ELSE stats.comeback.n = 0
     /\ ~Edited =>
          /\ stats.total = SumSetHistory(board.score[1]) + SumSetHistory(board.score[2])
          /\ \A t \in Team : Len(SelectSeq(chips, LAMBDA c : c = t)) = SumSetHistory(board.score[t])

\* The follow page, the recaps, the overlay and the operator's board tell of each team what is true of it.
FiguresAgree ==
  LET p == Payload IN FollowPageAgrees(p) /\ RecapAgrees(p) /\ OverlayAgrees(p) /\ BoardAgrees(p)
=============================================================================
