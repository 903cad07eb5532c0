-------------------------- MODULE ScoreboardProofs --------------------------
(***************************************************************************)
(* What holds of a scoreboard whatever its limits, its clients' requests,  *)
(* the writes that fail and the length of the match.  Where actions are    *)
(* taken back by undo_last alone it is an undo stack: what the log says    *)
(* when it is played again is what the board shows, and the record that    *)
(* undo_last hides is the last one played.                                 *)
(***************************************************************************)
EXTENDS ScoreboardReplay, FiniteSetTheorems, SequenceTheorems, TLAPS

-----------------------------------------------------------------------------
\* The scoring rules lead from boards to boards.

LEMMA SlotUpdate ==
  ASSUME NEW R, NEW f \in [Team -> [SetNo -> R]], NEW t \in Team, NEW s \in SetNo,
         NEW v \in R
  PROVE  [f EXCEPT ![t][s] = v] \in [Team -> [SetNo -> R]]
OBVIOUS

LEMMA ScoreUpdate ==
  ASSUME NEW b \in Board, NEW t \in Team, NEW s \in SetNo, NEW v \in Nat
  PROVE  [b EXCEPT !.score[t][s] = v] \in Board
<1> DEFINE f == [b.score EXCEPT ![t][s] = v]
<1>1. f \in [Team -> [SetNo -> Nat]]
  BY SlotUpdate DEF Board
<1> HIDE DEF f
<1>2. [b EXCEPT !.score = f] \in Board
  BY <1>1 DEF Board
<1> QED
  BY <1>2 DEF f

LEMMA TimeoutsUpdate ==
  ASSUME NEW b \in Board, NEW t \in Team, NEW s \in SetNo, NEW v \in 0..2
  PROVE  [b EXCEPT !.timeouts[t][s] = v] \in Board
<1> DEFINE f == [b.timeouts EXCEPT ![t][s] = v]
<1>1. f \in [Team -> [SetNo -> 0..2]]
  BY SlotUpdate DEF Board
<1> HIDE DEF f
<1>2. [b EXCEPT !.timeouts = f] \in Board
  BY <1>1 DEF Board
<1> QED
  BY <1>2 DEF f

LEMMA ResetBoardType == ResetBoard \in Board
BY DEF ResetBoard, Board, Team, SetNo, Serve

LEMMA SaveType ==
  ASSUME NEW b \in Board, NEW set \in SetNo
  PROVE  Save(b, set) \in Board
BY DEF Save, Board

LEMMA ChangeServeType ==
  ASSUME NEW b \in Board, NEW t \in Serve
  PROVE  ChangeServe(b, t, TRUE) \in Board /\ ChangeServe(b, t, FALSE) \in Board
BY SMTT(30) DEF ChangeServe, Board, Serve

LEMMA AddSetType ==
  ASSUME NEW b \in Board, NEW t \in Team, NEW setsLimit
  PROVE  AddSet(b, t, setsLimit) \in Board
<1> DEFINE c == [b EXCEPT !.sets[t] = @ + 1]
<1>1. c \in Board
  BY DEF Board, Team
<1>2. ChangeServe(c, 0, FALSE) \in Board
  <2> HIDE DEF c
  <2>1. 0 \in Serve
    BY DEF Serve
  <2> QED
    BY <1>1, <2>1, ChangeServeType, Zenon
<1> QED
  BY <1>2 DEF AddSet

LEMMA UndoSetType ==
  ASSUME NEW b \in Board, NEW t \in Team
  PROVE  UndoSet(b, t) \in Board
BY DEF UndoSet, Board, Team

LEMMA AddGameType ==
  ASSUME NEW b \in Board, NEW t \in Team, NEW set \in SetNo, NEW r \in Rules
  PROVE  AddGame(b, t, set, r) \in Board
<1> DEFINE c == ChangeServe(b, t, TRUE)
           d == [c EXCEPT !.score[t][set] = @ + 1]
<1>1. c \in Board
  <2>1. t \in Serve
    BY DEF Serve, Team
  <2> QED
    BY <2>1, ChangeServeType, Zenon
<1>2. d \in Board
  <2> HIDE DEF c
  <2>1. c.score[t][set] + 1 \in Nat
    BY <1>1 DEF Board
  <2> QED
    BY <1>1, <2>1, ScoreUpdate
<1>3. AddSet(d, t, r.sets) \in Board
  BY <1>2, AddSetType
<1> QED
  BY <1>2, <1>3 DEF AddGame

LEMMA UndoTargetType ==
  ASSUME NEW b, NEW t, NEW set \in SetNo
  PROVE  UndoTarget(b, t, set) \in SetNo
BY DEF UndoTarget, SetNo

LEMMA UnscoredType ==
  ASSUME NEW b \in Board, NEW t \in Team, NEW set \in SetNo
  PROVE  Unscored(b, t, set) \in Board
<1> DEFINE c == ChangeServe(b, t, TRUE)
           target == UndoTarget(b, t, set)
<1>1. c \in Board
  <2>1. t \in Serve
    BY DEF Serve, Team
  <2> QED
    BY <2>1, ChangeServeType, Zenon
<1>2. target \in SetNo
  BY UndoTargetType
<1> HIDE DEF c, target
<1>3. [c EXCEPT !.score[t][target] = IF @ > 0 THEN @ - 1 ELSE 0] \in Board
  <2> DEFINE v == c.score[t][target]
             w == IF v > 0 THEN v - 1 ELSE 0
  <2>1. v \in Nat
    BY <1>1, <1>2 DEF Board
  <2>2. w \in Nat
    BY <2>1
  <2> HIDE DEF w
  <2>3. [c EXCEPT !.score[t][target] = w] \in Board
    BY <1>1, <1>2, <2>2, ScoreUpdate
  <2> QED
    BY <2>3 DEF w
<1> QED
  BY <1>3 DEF Unscored, c, target

LEMMA UndoGameType ==
  ASSUME NEW b \in Board, NEW t \in Team, NEW set \in SetNo, NEW r
  PROVE  UndoGame(b, t, set, r) \in Board
BY UnscoredType, UndoSetType DEF UndoGame

LEMMA AddTimeoutType ==
  ASSUME NEW b \in Board, NEW t \in Team
  PROVE  AddTimeout(b, t) \in Board
<1> DEFINE v == b.timeouts[t][b.setNo]
           w == IF v < 2 THEN v + 1 ELSE v
<1>1. v \in 0..2 /\ b.setNo \in SetNo
  BY DEF Board
<1>2. w \in 0..2
  BY <1>1
<1> HIDE DEF w
<1>3. [b EXCEPT !.timeouts[t][b.setNo] = w] \in Board
  BY <1>1, <1>2, TimeoutsUpdate
<1> QED
  BY <1>3 DEF AddTimeout, w

LEMMA UndoTimeoutType ==
  ASSUME NEW b \in Board, NEW t \in Team
  PROVE  UndoTimeout(b, t) \in Board
<1> DEFINE v == b.timeouts[t][b.setNo]
           w == IF v > 0 THEN v - 1 ELSE v
<1>1. v \in 0..2 /\ b.setNo \in SetNo
  BY DEF Board
<1>2. w \in 0..2
  BY <1>1
<1> HIDE DEF w
<1>3. [b EXCEPT !.timeouts[t][b.setNo] = w] \in Board
  BY <1>1, <1>2, TimeoutsUpdate
<1> QED
  BY <1>3 DEF UndoTimeout, w

LEMMA SetGameValueType ==
  ASSUME NEW b \in Board, NEW t \in Team, NEW set \in SetNo, NEW value \in Nat
  PROVE  SetGameValue(b, t, set, value) \in Board
BY DEF SetGameValue, Board

LEMMA SetSetsValueType ==
  ASSUME NEW b \in Board, NEW t \in Team, NEW value \in Nat
  PROVE  SetSetsValue(b, t, value) \in Board
BY DEF SetSetsValue, Board

LEMMA CheckSetWonType ==
  ASSUME NEW b \in Board, NEW t \in Team, NEW set, NEW r
  PROVE  CheckSetWon(b, t, set, r) \in Board
BY AddSetType DEF CheckSetWon

\* The session's current set is always one the board has arrays for.
LEMMA CurrentSetType ==
  ASSUME NEW b \in Board, NEW setsLimit \in SetNo
  PROVE  ComputeCurrentSet(b, setsLimit) \in SetNo
BY DEF ComputeCurrentSet, Board, SetNo, Team

-----------------------------------------------------------------------------
\* The log.

LEMMA LatestExists ==
  ASSUME NEW n \in Nat, NEW S \in SUBSET (1..n), S # {}
  PROVE  Latest(S) \in S /\ \A j \in S : j <= Latest(S)
<1> DEFINE R == OpToRel(<, Nat)
           Bounds == {k \in 0..n : \A j \in S : j <= k}
<1>0. \A i, j \in Nat : i < j => <<i, j>> \in R
  BY DEF OpToRel
<1>1. PICK k \in Bounds : \A m \in Bounds : <<m, k>> \notin R
  <2>1. Bounds \subseteq Nat /\ n \in Bounds
    OBVIOUS
  <2>2. IsWellFoundedOn(R, Nat)
    BY NatLessThanWellFounded
  <2> HIDE DEF R, Bounds
  <2> QED
    BY <2>1, <2>2, WFMin
<1> HIDE DEF R
<1>2. \A m \in Bounds : ~(m < k)
  <2> SUFFICES ASSUME NEW m \in Bounds, m < k PROVE FALSE
    OBVIOUS
  <2>1. m \in Nat /\ k \in Nat
    OBVIOUS
  <2>2. <<m, k>> \in R
    BY <1>0, <2>1
  <2> QED
    BY <1>1, <2>2
<1>3. k \in S
  <2>1. SUFFICES ASSUME k \notin S PROVE FALSE
    OBVIOUS
  <2>2. PICK j \in S : j \in 1..n /\ j <= k
    <3>1. PICK j \in S : TRUE
      OBVIOUS
    <3> QED
      BY <3>1
  <2>3. \A i \in S : i <= k - 1
    BY <1>1, <2>1
  <2>4. k - 1 \in Bounds
    BY <1>1, <2>2, <2>3
  <2> QED
    BY <1>1, <1>2, <2>4
<1> QED
  BY <1>1, <1>3 DEF Latest

\* Hiding a record and bringing it back change its visibility and nothing else.
LEMMA TombstoneEffect ==
  ASSUME NEW l \in Seq(Record), NEW i
  PROVE  /\ Tombstone(l, i) \in Seq(Record)
         /\ Len(Tombstone(l, i)) = Len(l)
         /\ \A j \in 1..Len(l) :
              /\ j # i => Tombstone(l, i)[j] = l[j]
              /\ Tombstone(l, i)[j].undo = l[j].undo
              /\ Tombstone(l, i)[j].team = l[j].team
              /\ Tombstone(l, i)[j].visible <=> (l[j].visible /\ j # i)
<1>1. CASE i \in 1..Len(l)
  <2> DEFINE r == [l[i] EXCEPT !.visible = FALSE]
  <2>1. l[i] \in Record
    BY <1>1, ElementOfSeq
  <2>2. r \in Record /\ r.undo = l[i].undo /\ r.team = l[i].team /\ r.visible = FALSE
    BY <2>1 DEF Record
  <2>3. Tombstone(l, i) = [l EXCEPT ![i] = r]
    BY DEF Tombstone
  <2> HIDE DEF r
  <2> QED
    BY <1>1, <2>2, <2>3, ExceptSeq
<1>2. CASE i \notin 1..Len(l)
  <2>1. l = [j \in 1..Len(l) |-> l[j]]
    BY LenProperties
  <2>2. Tombstone(l, i) = l
    BY <1>2, <2>1 DEF Tombstone
  <2> QED
    BY <1>2, <2>2
<1> QED
  BY <1>1, <1>2

LEMMA RestoreEffect ==
  ASSUME NEW l \in Seq(Record), NEW i
  PROVE  /\ Restore(l, i) \in Seq(Record)
         /\ Len(Restore(l, i)) = Len(l)
         /\ \A j \in 1..Len(l) :
              /\ j # i => Restore(l, i)[j] = l[j]
              /\ Restore(l, i)[j].undo = l[j].undo
              /\ Restore(l, i)[j].team = l[j].team
              /\ Restore(l, i)[j].visible <=> (l[j].visible \/ j = i)
<1>1. CASE i \in 1..Len(l)
  <2> DEFINE r == [l[i] EXCEPT !.visible = TRUE]
  <2>1. l[i] \in Record
    BY <1>1, ElementOfSeq
  <2>2. r \in Record /\ r.undo = l[i].undo /\ r.team = l[i].team /\ r.visible = TRUE
    BY <2>1 DEF Record
  <2>3. Restore(l, i) = [l EXCEPT ![i] = r]
    BY DEF Restore
  <2> HIDE DEF r
  <2> QED
    BY <1>1, <2>2, <2>3, ExceptSeq
<1>2. CASE i \notin 1..Len(l)
  <2>1. l = [j \in 1..Len(l) |-> l[j]]
    BY LenProperties
  <2>2. Restore(l, i) = l
    BY <1>2, <2>1 DEF Restore
  <2> QED
    BY <1>2, <2>2
<1> QED
  BY <1>1, <1>2

LEMMA LiveForwardsInLog ==
  ASSUME TypeOK
  PROVE  /\ LiveForwards \subseteq 1..Len(log)
         /\ LiveForwards # {} => LastForward \in LiveForwards
         /\ \A action, t :
              LastForwardOf(action, t) = 0 \/ LastForwardOf(action, t) \in LiveForwards
<1>1. LiveForwards \subseteq 1..Len(log) /\ Len(log) \in Nat
  BY LenProperties DEF TypeOK, LiveForwards
<1>2. ASSUME NEW S \in SUBSET LiveForwards
      PROVE  IF S = {} THEN Latest(S) = 0 ELSE Latest(S) \in S
  <2>1. CASE S = {}
    BY <2>1 DEF Latest
  <2>2. CASE S # {}
    BY <1>1, <2>2, LatestExists
  <2> QED
    BY <2>1, <2>2
<1>3. LiveForwards # {} => LastForward \in LiveForwards
  BY <1>2 DEF LastForward
<1>4. ASSUME NEW action, NEW t
      PROVE  LastForwardOf(action, t) = 0 \/ LastForwardOf(action, t) \in LiveForwards
  <2> DEFINE S == {i \in LiveForwards : log[i].action = action /\ log[i].team = t}
  <2>1. S \subseteq LiveForwards
    OBVIOUS
  <2>2. LastForwardOf(action, t) = Latest(S)
    BY DEF LastForwardOf
  <2> HIDE DEF S
  <2> QED
    BY <1>2, <2>1, <2>2
<1> QED
  BY <1>1, <1>3, <1>4

-----------------------------------------------------------------------------
\* The types that each part of a request leaves behind.

MatchTypeOK == /\ board \in Board
               /\ rules \in Rules
               /\ curSet \in SetNo
               /\ started \in BOOLEAN
               /\ finished \in BOOLEAN

TrailTypeOK == /\ log \in Seq(Record)
               /\ dropped \in 0..Len(log)
               /\ count \in Nat

LEMMA TypeParts == TypeOK <=> MatchTypeOK /\ TrailTypeOK /\ rapid \in [Team -> Pair]
BY DEF TypeOK, MatchTypeOK, TrailTypeOK

LEMMA CommitType ==
  ASSUME TypeOK, NEW b \in Board, NEW set \in SetNo, Commit(b, set)
  PROVE  board' \in Board /\ curSet' \in SetNo
BY SaveType DEF Commit

LEMMA StampType ==
  ASSUME TypeOK, NEW b, SyncMatchFinishedAt(b)
  PROVE  finished' \in BOOLEAN
BY DEF SyncMatchFinishedAt, MatchFinished, TypeOK

LEMMA RecomputedSetType ==
  ASSUME TypeOK, NEW b \in Board
  PROVE  ComputeCurrentSet(b, rules.sets) \in SetNo
BY CurrentSetType DEF TypeOK, Rules

LEMMA ScorePointType ==
  ASSUME TypeOK, NEW t \in Team, ScorePoint(t)
  PROVE  MatchTypeOK'
<1> DEFINE b == AddGame(board, t, curSet, rules)
           set == IF SetWonBy(b, t, curSet, rules)
                  THEN ComputeCurrentSet(b, rules.sets) ELSE curSet
<1>1. b \in Board
  BY AddGameType DEF TypeOK
<1> HIDE DEF b
<1>2. set \in SetNo
  BY <1>1, RecomputedSetType DEF TypeOK
<1>3. Commit(b, set) /\ SyncMatchFinishedAt(b) /\ started' = TRUE /\ rules' = rules
  BY DEF ScorePoint, b
<1> HIDE DEF set
<1> QED
  BY <1>1, <1>2, <1>3, CommitType, StampType DEF MatchTypeOK, TypeOK

LEMMA UnscorePointType ==
  ASSUME TypeOK, NEW t \in Team, UnscorePoint(t)
  PROVE  MatchTypeOK'
<1> DEFINE b == UndoGame(board, t, curSet, rules)
           set == IF UnwinsSet(board, t, curSet, rules)
                  THEN ComputeCurrentSet(b, rules.sets) ELSE curSet
<1>1. b \in Board
  BY UndoGameType DEF TypeOK
<1> HIDE DEF b
<1>2. set \in SetNo
  BY <1>1, RecomputedSetType DEF TypeOK
<1>3. Commit(b, set) /\ SyncMatchFinishedAt(b) /\ started' = started /\ rules' = rules
  BY DEF UnscorePoint, b
<1> HIDE DEF set
<1> QED
  BY <1>1, <1>2, <1>3, CommitType, StampType DEF MatchTypeOK, TypeOK

LEMMA AuditForwardType ==
  ASSUME TypeOK, NEW action \in Undoable, NEW t \in Team, NEW tag \in Tags, NEW ok,
         NEW n \in RotationDrops, AuditForward(action, t, tag, ok, n)
  PROVE  TrailTypeOK'
<1>1. Forward(action, t, tag) \in Record
  BY DEF Forward, Record
<1>2. dropped' = dropped + n /\ dropped' <= Len(log) /\ n \in Nat
  BY ScoreboardAssumption DEF AuditForward, Rotated
<1>3. /\ log' = log \/ log' = Append(log, Forward(action, t, tag))
      /\ count' \in {count, count + 1}
  BY DEF AuditForward
<1>4. log' \in Seq(Record) /\ Len(log') >= Len(log)
  BY <1>1, <1>3, AppendProperties, LenProperties DEF TypeOK
<1>5. Len(log) \in Nat /\ Len(log') \in Nat /\ dropped \in Nat /\ count \in Nat
  BY <1>4, LenProperties DEF TypeOK
<1> QED
  BY <1>2, <1>3, <1>4, <1>5 DEF TrailTypeOK

LEMMA AuditUndoType ==
  ASSUME TypeOK, NEW action \in Undoable, NEW t \in Team, NEW i, NEW okPop, NEW okAppend,
         NEW n \in RotationDrops, AuditUndo(action, t, i, okPop, okAppend, n)
  PROVE  TrailTypeOK'
<1>1. Undo(action, t) \in Record
  BY ScoreboardAssumption DEF Undo, Record
<1>2. dropped' = dropped + n /\ dropped' <= Len(log) /\ n \in Nat
  BY ScoreboardAssumption DEF AuditUndo, Rotated
<1>3. PICK hidden \in {log, Tombstone(log, i)} :
         log' = hidden \/ log' = Append(hidden, Undo(action, t))
  BY DEF AuditUndo
<1>4. hidden \in Seq(Record) /\ Len(hidden) = Len(log)
  BY TombstoneEffect DEF TypeOK
<1>5. count' \in Nat
  BY DEF AuditUndo, CountDown, TypeOK
<1>6. log' \in Seq(Record) /\ Len(log') >= Len(log)
  BY <1>1, <1>3, <1>4, AppendProperties, LenProperties
<1>7. Len(log) \in Nat /\ Len(log') \in Nat /\ dropped \in Nat
  BY <1>6, LenProperties DEF TypeOK
<1> QED
  BY <1>2, <1>5, <1>6, <1>7 DEF TrailTypeOK

LEMMA AuditOtherType ==
  ASSUME TypeOK, NEW n \in RotationDrops, AuditOther(n)
  PROVE  TrailTypeOK'
BY ScoreboardAssumption DEF AuditOther, Rotated, TypeOK, TrailTypeOK

LEMMA SeededType ==
  ASSUME TypeOK, NEW t, NEW seed \in Pair
  PROVE  Seeded(t, seed) \in [Team -> Pair]
BY ScoreboardAssumption DEF Seeded, NoPair, Pair, TypeOK

LEMMA NoPairType == NoPair \in Pair /\ [t \in Team |-> NoPair] \in [Team -> Pair]
BY ScoreboardAssumption DEF NoPair, Pair

LEMMA RotatedType ==
  ASSUME TypeOK, NEW n \in RotationDrops, dropped' = Rotated(n), dropped' <= Len(log)
  PROVE  dropped' \in 0..Len(log)
BY ScoreboardAssumption, LenProperties DEF Rotated, TypeOK

-----------------------------------------------------------------------------
\* Each request preserves the types.

LEMMA AddPointType ==
  ASSUME TypeOK, NEW t \in Team, NEW tag \in Tags, NEW ok, NEW n \in RotationDrops,
         AddPoint(t, tag, ok, n)
  PROVE  TypeOK'
<1> DEFINE seed == IF ok THEN ForwardSeed(Len(log) + 1) ELSE NoPair
<1>1. MatchTypeOK'
  BY ScorePointType DEF AddPoint
<1>2. TrailTypeOK'
  BY AuditForwardType DEF AddPoint, Undoable
<1>3. seed \in Pair
  BY ScoreboardAssumption, NoPairType, LenProperties DEF ForwardSeed, Pair, TypeOK
<1>4. rapid' = Seeded(t, seed)
  BY DEF AddPoint
<1> HIDE DEF seed
<1>5. rapid' \in [Team -> Pair]
  BY <1>3, <1>4, SeededType
<1> QED
  BY <1>1, <1>2, <1>5 DEF TypeOK, MatchTypeOK, TrailTypeOK

LEMMA RecoverPointType ==
  ASSUME TypeOK, NEW t \in Team, NEW tag \in Tags, NEW okPop, NEW okRestore,
         NEW n \in RotationDrops, RecoverPoint(t, tag, okPop, okRestore, n)
  PROVE  TypeOK'
<1> DEFINE forgot == IF okPop THEN Tombstone(log, rapid[t].at) ELSE log
<1>1. MatchTypeOK'
  BY ScorePointType DEF RecoverPoint
<1>2. forgot \in Seq(Record) /\ Len(forgot) = Len(log)
  BY TombstoneEffect DEF TypeOK
<1>3. log' \in {forgot, Restore(forgot, rapid[t].popped)} /\ count' \in {count, count + 1}
  BY DEF RecoverPoint
<1> HIDE DEF forgot
<1>4. log' \in Seq(Record) /\ Len(log') = Len(log)
  BY <1>2, <1>3, RestoreEffect
<1>5. dropped' \in 0..Len(log)
  BY RotatedType DEF RecoverPoint
<1>6. rapid' \in [Team -> Pair]
  BY NoPairType DEF RecoverPoint, TypeOK
<1> QED
  BY <1>1, <1>3, <1>4, <1>5, <1>6 DEF TypeOK, MatchTypeOK

LEMMA UndoPointType ==
  ASSUME TypeOK, NEW t \in Team, NEW okPop, NEW okAppend, NEW n \in RotationDrops,
         UndoPoint(t, okPop, okAppend, n)
  PROVE  TypeOK'
<1> DEFINE i    == IF okPop THEN LastForwardOf("add_point", t) ELSE 0
           seed == IF okAppend THEN UndoSeed(Len(log) + 1, i) ELSE NoPair
<1>1. MatchTypeOK'
  BY UnscorePointType DEF UndoPoint
<1>2. TrailTypeOK'
  BY AuditUndoType DEF UndoPoint, Undoable
<1>3. i = 0 \/ i \in 1..Len(log)
  BY LiveForwardsInLog
<1>4. rapid' = Seeded(t, seed)
  BY DEF UndoPoint
<1> HIDE DEF i
<1>5. UndoSeed(Len(log) + 1, i) \in Pair
  <2>1. i # 0 => log[i] \in Record
    BY <1>3, ElementOfSeq DEF TypeOK
  <2>2. (IF i = 0 THEN NoTag ELSE log[i].tag) \in Tags
    BY <2>1, ScoreboardAssumption DEF Record
  <2>3. Len(log) + 1 \in Nat /\ i \in Nat
    BY <1>3, LenProperties DEF TypeOK
  <2> QED
    BY <2>2, <2>3 DEF UndoSeed, Pair
<1>6. seed \in Pair
  BY <1>5, NoPairType
<1> HIDE DEF seed
<1>7. rapid' \in [Team -> Pair]
  BY <1>4, <1>6, SeededType
<1> QED
  BY <1>1, <1>2, <1>7 DEF TypeOK, MatchTypeOK, TrailTypeOK

LEMMA RetractPointType ==
  ASSUME TypeOK, NEW t \in Team, NEW okPop, NEW n \in RotationDrops,
         RetractPoint(t, okPop, n)
  PROVE  TypeOK'
<1>1. MatchTypeOK'
  BY UnscorePointType DEF RetractPoint
<1>2. log' \in {log, Tombstone(log, rapid[t].at)} /\ count' \in Nat
  BY DEF RetractPoint, CountDown, TypeOK
<1>3. log' \in Seq(Record) /\ Len(log') = Len(log)
  BY <1>2, TombstoneEffect DEF TypeOK
<1>4. dropped' \in 0..Len(log)
  BY RotatedType DEF RetractPoint
<1>5. rapid' \in [Team -> Pair]
  BY NoPairType DEF RetractPoint, TypeOK
<1> QED
  BY <1>1, <1>2, <1>3, <1>4, <1>5 DEF TypeOK, MatchTypeOK

LEMMA AwardSetType ==
  ASSUME TypeOK, NEW t \in Team, NEW ok, NEW n \in RotationDrops, AwardSet(t, ok, n)
  PROVE  TypeOK'
<1> DEFINE b == AddSet(board, t, rules.sets)
<1>1. b \in Board
  BY AddSetType DEF TypeOK
<1>2. Commit(b, ComputeCurrentSet(b, rules.sets)) /\ SyncMatchFinishedAt(b)
  BY DEF AwardSet
<1> HIDE DEF b
<1>3. MatchTypeOK'
  BY <1>1, <1>2, RecomputedSetType, CommitType, StampType DEF AwardSet, TypeOK, MatchTypeOK
<1>4. TrailTypeOK'
  BY AuditForwardType, ScoreboardAssumption DEF AwardSet, Undoable
<1> QED
  BY <1>3, <1>4, NoPairType DEF TypeOK, MatchTypeOK, TrailTypeOK, AwardSet, InvalidateRapidPairs

LEMMA RevokeSetType ==
  ASSUME TypeOK, NEW t \in Team, NEW okPop, NEW okAppend, NEW n \in RotationDrops,
         RevokeSet(t, okPop, okAppend, n)
  PROVE  TypeOK'
<1> DEFINE b == UndoSet(board, t)
<1>1. b \in Board
  BY UndoSetType DEF TypeOK
<1>2. Commit(b, ComputeCurrentSet(b, rules.sets)) /\ SyncMatchFinishedAt(b)
  BY DEF RevokeSet
<1> HIDE DEF b
<1>3. MatchTypeOK'
  BY <1>1, <1>2, RecomputedSetType, CommitType, StampType DEF RevokeSet, TypeOK, MatchTypeOK
<1>4. TrailTypeOK'
  BY AuditUndoType DEF RevokeSet, Undoable
<1> QED
  BY <1>3, <1>4, NoPairType DEF TypeOK, MatchTypeOK, TrailTypeOK, RevokeSet, InvalidateRapidPairs

LEMMA CallTimeoutType ==
  ASSUME TypeOK, NEW t \in Team, NEW ok, NEW n \in RotationDrops, CallTimeout(t, ok, n)
  PROVE  TypeOK'
<1> DEFINE b == AddTimeout(board, t)
<1>1. b \in Board
  BY AddTimeoutType DEF TypeOK
<1>2. Commit(b, curSet)
  BY DEF CallTimeout
<1> HIDE DEF b
<1>3. MatchTypeOK'
  BY <1>1, <1>2, CommitType DEF CallTimeout, TypeOK, MatchTypeOK
<1>4. TrailTypeOK'
  BY AuditForwardType, ScoreboardAssumption DEF CallTimeout, Undoable
<1> QED
  BY <1>3, <1>4, NoPairType DEF TypeOK, MatchTypeOK, TrailTypeOK, CallTimeout, InvalidateRapidPairs

LEMMA CancelTimeoutType ==
  ASSUME TypeOK, NEW t \in Team, NEW okPop, NEW okAppend, NEW n \in RotationDrops,
         CancelTimeout(t, okPop, okAppend, n)
  PROVE  TypeOK'
<1> DEFINE b == UndoTimeout(board, t)
<1>1. b \in Board
  BY UndoTimeoutType DEF TypeOK
<1>2. Commit(b, curSet)
  BY DEF CancelTimeout
<1> HIDE DEF b
<1>3. MatchTypeOK'
  BY <1>1, <1>2, CommitType DEF CancelTimeout, TypeOK, MatchTypeOK
<1>4. TrailTypeOK'
  BY AuditUndoType DEF CancelTimeout, Undoable
<1> QED
  BY <1>3, <1>4, NoPairType DEF TypeOK, MatchTypeOK, TrailTypeOK, CancelTimeout, InvalidateRapidPairs

LEMMA ToggleServeType ==
  ASSUME TypeOK, NEW t \in Team, NEW n \in RotationDrops, ToggleServe(t, n)
  PROVE  TypeOK'
<1>1. ChangeServe(board, t, FALSE) \in Board
  <2>1. t \in Serve /\ board \in Board
    BY DEF Serve, Team, TypeOK
  <2> QED
    BY <2>1, ChangeServeType, Zenon
<1>2. Commit(ChangeServe(board, t, FALSE), curSet)
  BY DEF ToggleServe
<1>3. MatchTypeOK'
  BY <1>1, <1>2, CommitType DEF ToggleServe, TypeOK, MatchTypeOK
<1>4. TrailTypeOK'
  BY AuditOtherType DEF ToggleServe
<1> QED
  BY <1>3, <1>4, NoPairType DEF TypeOK, MatchTypeOK, TrailTypeOK, ToggleServe, InvalidateRapidPairs

LEMMA SetScoreType ==
  ASSUME TypeOK, NEW t \in Team, NEW set \in SetNo, NEW value \in ScoreValues,
         NEW n \in RotationDrops, SetScore(t, set, value, n)
  PROVE  TypeOK'
<1> DEFINE e == SetGameValue(board, t, set, value)
           b == CheckSetWon(e, t, set, rules)
           s == IF SetWonBy(e, t, set, rules) THEN ComputeCurrentSet(b, rules.sets) ELSE curSet
<1>1. b \in Board
  BY SetGameValueType, CheckSetWonType, ScoreboardAssumption DEF TypeOK
<1>2. Commit(b, s) /\ SyncMatchFinishedAt(b)
  BY DEF SetScore
<1> HIDE DEF b
<1>3. s \in SetNo
  BY <1>1, RecomputedSetType DEF TypeOK
<1> HIDE DEF s
<1>4. MatchTypeOK'
  BY <1>1, <1>2, <1>3, CommitType, StampType DEF SetScore, TypeOK, MatchTypeOK
<1>5. TrailTypeOK'
  BY AuditOtherType DEF SetScore
<1> QED
  BY <1>4, <1>5, NoPairType DEF TypeOK, MatchTypeOK, TrailTypeOK, SetScore, InvalidateRapidPairs

LEMMA SetSetsType ==
  ASSUME TypeOK, NEW t \in Team, NEW value \in SetsValues, NEW n \in RotationDrops,
         SetSets(t, value, n)
  PROVE  TypeOK'
<1> DEFINE b == SetSetsValue(board, t, value)
<1>1. b \in Board
  BY SetSetsValueType, ScoreboardAssumption DEF TypeOK
<1>2. Commit(b, ComputeCurrentSet(b, rules.sets)) /\ SyncMatchFinishedAt(b)
  BY DEF SetSets
<1> HIDE DEF b
<1>3. MatchTypeOK'
  BY <1>1, <1>2, RecomputedSetType, CommitType, StampType DEF SetSets, TypeOK, MatchTypeOK
<1>4. TrailTypeOK'
  BY AuditOtherType DEF SetSets
<1> QED
  BY <1>3, <1>4, NoPairType DEF TypeOK, MatchTypeOK, TrailTypeOK, SetSets, InvalidateRapidPairs

LEMMA ManageType ==
  ASSUME TypeOK, Manage
  PROVE  TypeOK'
<1>1. ASSUME NEW r \in RuleSets, NEW n \in RotationDrops, SetRules(r, n)
      PROVE  TypeOK'
  <2>1. r \in Rules /\ r.sets \in SetNo
    BY ScoreboardAssumption DEF Rules
  <2>2. ComputeCurrentSet(board, r.sets) \in SetNo
    BY <2>1, CurrentSetType DEF TypeOK
  <2>3. MatchTypeOK'
    BY <1>1, <2>1, <2>2, CommitType DEF SetRules, TypeOK, MatchTypeOK
  <2>4. TrailTypeOK'
    BY <1>1, AuditOtherType DEF SetRules
  <2> QED
    BY <1>1, <2>3, <2>4, NoPairType
    DEF TypeOK, MatchTypeOK, TrailTypeOK, SetRules, InvalidateRapidPairs
<1>2. ASSUME NEW r \in RuleSets, ReinitSession(r)
      PROVE  TypeOK'
  BY <1>2, ScoreboardAssumption DEF ReinitSession, TypeOK, trail
<1>3. ASSUME NEW n \in RotationDrops, StartMatch(n)
      PROVE  TypeOK'
  <2>1. TrailTypeOK'
    BY <1>3, AuditOtherType DEF StartMatch
  <2> QED
    BY <1>3, <2>1, NoPairType DEF TypeOK, TrailTypeOK, StartMatch, InvalidateRapidPairs
<1>4. ASSUME NEW ok, Reset(ok)
      PROVE  TypeOK'
  <2>1. MatchTypeOK'
    BY <1>4, ResetBoardType, RecomputedSetType, CommitType DEF Reset, TypeOK, MatchTypeOK
  <2>2. TrailTypeOK'
    BY <1>4, EmptySeq DEF Reset, TypeOK, TrailTypeOK
  <2> QED
    BY <1>4, <2>1, <2>2, NoPairType
    DEF TypeOK, MatchTypeOK, TrailTypeOK, Reset, InvalidateRapidPairs
<1> QED
  BY <1>1, <1>2, <1>3, <1>4 DEF Manage

LEMMA UndoRequestType ==
  ASSUME TypeOK, NEW action, NEW t \in Team, NEW okPop, NEW okAppend,
         NEW n \in RotationDrops, UndoRequest(action, t, okPop, okAppend, n)
  PROVE  TypeOK'
BY UndoPointType, RetractPointType, RevokeSetType, CancelTimeoutType DEF UndoRequest

LEMMA InitType == Init => TypeOK
<1> SUFFICES ASSUME Init PROVE TypeOK
  OBVIOUS
<1>1. board \in Board /\ rules \in Rules /\ curSet \in SetNo
  BY ResetBoardType, ScoreboardAssumption DEF Init, SetNo
<1>2. log \in Seq(Record) /\ dropped \in 0..Len(log) /\ count \in Nat
  BY EmptySeq DEF Init
<1> QED
  BY <1>1, <1>2, NoPairType DEF Init, TypeOK

LEMMA StepType == TypeOK /\ [Next]_vars => TypeOK'
<1> SUFFICES ASSUME TypeOK, [Next]_vars PROVE TypeOK'
  OBVIOUS
<1>1. CASE Point
  BY <1>1, AddPointType, RecoverPointType DEF Point
<1>2. CASE OtherForward
  BY <1>2, AwardSetType, CallTimeoutType, ToggleServeType DEF OtherForward
<1>3. CASE UndoStep
  <2>1. ASSUME NEW ok1, NEW ok2, NEW n \in RotationDrops, UndoLast(ok1, ok2, n)
        PROVE  TypeOK'
    <3>1. log[LastForward] \in Record
      <4>1. LastForward \in 1..Len(log)
        BY <2>1, LiveForwardsInLog DEF UndoLast, LastForward, Latest
      <4> QED
        BY <4>1, ElementOfSeq DEF TypeOK
    <3>2. log[LastForward].team \in Team
      BY <3>1 DEF Record
    <3> QED
      BY <2>1, <3>2, UndoRequestType DEF UndoLast
  <2>2. ASSUME NEW ok1, NEW ok2, NEW n \in RotationDrops, NEW action \in Undoable,
               NEW t \in Team, UndoOne(action, t, ok1, ok2, n)
        PROVE  TypeOK'
    BY <2>2, UndoRequestType DEF UndoOne
  <2> QED
    BY <1>3, <2>1, <2>2 DEF UndoStep
<1>4. CASE Edit
  BY <1>4, SetScoreType, SetSetsType DEF Edit
<1>5. CASE Manage
  BY <1>5, ManageType
<1>6. CASE \E t \in Team : PairExpires(t)
  BY <1>6, NoPairType DEF PairExpires, TypeOK, match, trail
<1>7. CASE UNCHANGED vars
  BY <1>7 DEF TypeOK, vars
<1> QED
  BY <1>1, <1>2, <1>3, <1>4, <1>5, <1>6, <1>7 DEF Next

\* Whatever is requested, the board stays one that State can hold: no count below
\* zero, at most two timeouts in a set, and a current set the arrays reach.
THEOREM TypeCorrect == Spec => []TypeOK
BY InitType, StepType, PTL DEF Spec

-----------------------------------------------------------------------------
\* The match.  What a request does to it is one of five things, whatever it does
\* to the log; the properties below need no more of the requests than that.

\* A request that plays, takes back or edits: it saves a board b under the current
\* set, and looks again at the current set and at the stamp if b has other sets won.
PlayStep ==
  \E b \in Board :
    /\ rules' = rules /\ board' = Save(b, curSet') /\ curSet' \in SetNo
    /\ \/ curSet' = ComputeCurrentSet(b, rules.sets)
       \/ curSet' = curSet /\ b.sets = board.sets
    /\ SyncMatchFinishedAt(b) \/ (finished' = finished /\ b.sets = board.sets)
    /\ \A t \in Team, set \in SetNo \ {board.setNo} :
         b.timeouts[t][set] = board.timeouts[t][set]
    /\ Requests \cap {"set_score", "set_sets"} = {} =>
         \A t \in Team : b.sets[t] <= board.sets[t]
                         \/ (~Finished /\ b.sets[t] = board.sets[t] + 1)

ResetStep ==
  /\ rules' = rules /\ finished' = FALSE
  /\ board' = Save(ResetBoard, curSet')
  /\ curSet' = ComputeCurrentSet(ResetBoard, rules.sets)

RulesStep ==
  /\ rules' \in RuleSets /\ finished' = finished
  /\ curSet' = ComputeCurrentSet(board, rules'.sets) /\ board' = Save(board, curSet')

InitStep ==
  "init" \in Requests /\ rules' \in RuleSets /\ UNCHANGED <<board, curSet, finished>>

RestStep == UNCHANGED <<board, rules, curSet>>

\* Only the sets won count for what set is current and whether the match is over.
LEMMA SetsDecide ==
  ASSUME NEW b, NEW c, b.sets = c.sets, NEW limit
  PROVE  /\ ComputeCurrentSet(b, limit) = ComputeCurrentSet(c, limit)
         /\ MatchFinished(b, limit) <=> MatchFinished(c, limit)
BY DEF ComputeCurrentSet, MatchFinished

LEMMA SaveEffect ==
  ASSUME NEW b \in Board, NEW set
  PROVE  /\ Save(b, set).sets = b.sets /\ Save(b, set).timeouts = b.timeouts
         /\ Save(b, set).setNo = set
BY DEF Save, Board

LEMMA ServedEffect ==
  ASSUME NEW b \in Board, NEW t \in Team
  PROVE  LET c == ChangeServe(b, t, TRUE) IN
         c \in Board /\ c.sets = b.sets /\ c.score = b.score /\ c.timeouts = b.timeouts
<1>1. t \in Serve
  BY DEF Serve, Team
<1>2. ChangeServe(b, t, TRUE) \in Board
  BY <1>1, ChangeServeType, Zenon
<1>3. /\ ChangeServe(b, t, TRUE).sets = b.sets /\ ChangeServe(b, t, TRUE).score = b.score
      /\ ChangeServe(b, t, TRUE).timeouts = b.timeouts
  BY DEF ChangeServe, Board
<1> QED
  BY <1>2, <1>3

LEMMA AddSetEffect ==
  ASSUME NEW b \in Board, NEW t \in Team, NEW limit
  PROVE  /\ AddSet(b, t, limit).score = b.score
         /\ AddSet(b, t, limit).timeouts = b.timeouts
         /\ AddSet(b, t, limit).sets =
              IF MatchFinished(b, limit) THEN b.sets ELSE [b.sets EXCEPT ![t] = @ + 1]
<1> DEFINE c == [b EXCEPT !.sets[t] = @ + 1]
<1>1. /\ c \in Board /\ c.score = b.score /\ c.timeouts = b.timeouts
      /\ c.sets = [b.sets EXCEPT ![t] = @ + 1]
  BY DEF Board, Team
<1>2. AddSet(b, t, limit) = IF MatchFinished(b, limit) THEN b ELSE ChangeServe(c, 0, FALSE)
  BY DEF AddSet
<1>3. /\ ChangeServe(c, 0, FALSE).sets = c.sets /\ ChangeServe(c, 0, FALSE).score = c.score
      /\ ChangeServe(c, 0, FALSE).timeouts = c.timeouts
  <2> HIDE DEF c
  <2> QED
    BY <1>1 DEF ChangeServe, Board
<1> HIDE DEF c
<1> QED
  BY <1>1, <1>2, <1>3

\* A point changes the sets won exactly if it wins its set, which the board says
\* before and after the award alike.
LEMMA AddGameEffect ==
  ASSUME NEW b \in Board, NEW t \in Team, NEW set \in SetNo, NEW r \in Rules
  PROVE  LET c == AddGame(b, t, set, r) IN
         /\ c.timeouts = b.timeouts
         /\ ~SetWonBy(c, t, set, r) => c.sets = b.sets
         /\ \A u \in Team : c.sets[u] <= b.sets[u]
                            \/ (~MatchFinished(b, r.sets) /\ c.sets[u] = b.sets[u] + 1)
<1> DEFINE served == ChangeServe(b, t, TRUE)
           scored == [served EXCEPT !.score[t][set] = @ + 1]
           c == AddGame(b, t, set, r)
<1>1. served \in Board /\ served.sets = b.sets /\ served.timeouts = b.timeouts
  BY ServedEffect
<1> HIDE DEF served
<1>2. scored \in Board /\ scored.sets = b.sets /\ scored.timeouts = b.timeouts
  <2>1. served.score[t][set] + 1 \in Nat
    BY <1>1 DEF Board
  <2>2. scored \in Board
    BY <1>1, <2>1, ScoreUpdate
  <2> QED
    BY <1>1, <2>2 DEF Board
<1>3. c = IF SetWonBy(scored, t, set, r) THEN AddSet(scored, t, r.sets) ELSE scored
  BY DEF AddGame, served
<1> HIDE DEF scored, c
<1>4. SetWonBy(c, t, set, r) <=> SetWonBy(scored, t, set, r)
  BY ZenonT(60), <1>2, <1>3, AddSetEffect DEF SetWonBy
<1>5. MatchFinished(scored, r.sets) <=> MatchFinished(b, r.sets)
  BY <1>2, SetsDecide
<1>6. b.sets \in [Team -> Nat]
  BY DEF Board
<1>7. \A u \in Team : c.sets[u] <= b.sets[u]
                      \/ (~MatchFinished(b, r.sets) /\ c.sets[u] = b.sets[u] + 1)
  <2>1. CASE SetWonBy(scored, t, set, r) /\ ~MatchFinished(b, r.sets)
    <3>1. c.sets = [b.sets EXCEPT ![t] = @ + 1]
      BY <1>2, <1>3, <1>5, <2>1, AddSetEffect
    <3> QED
      BY <1>6, <2>1, <3>1
  <2>2. CASE ~(SetWonBy(scored, t, set, r) /\ ~MatchFinished(b, r.sets))
    <3>1. c.sets = b.sets
      BY <1>2, <1>3, <1>5, <2>2, AddSetEffect
    <3> QED
      BY <1>6, <3>1
  <2> QED
    BY <2>1, <2>2
<1>8. c.timeouts = b.timeouts /\ (~SetWonBy(c, t, set, r) => c.sets = b.sets)
  BY ZenonT(60), <1>2, <1>3, <1>4, AddSetEffect
<1> QED
  BY <1>7, <1>8 DEF c

LEMMA UndoSetEffect ==
  ASSUME NEW b \in Board, NEW t \in Team
  PROVE  /\ UndoSet(b, t).timeouts = b.timeouts
         /\ \A u \in Team : UndoSet(b, t).sets[u] <= b.sets[u]
BY DEF UndoSet, Board, Team

LEMMA UndoGameEffect ==
  ASSUME NEW b \in Board, NEW t \in Team, NEW set \in SetNo, NEW r
  PROVE  /\ UndoGame(b, t, set, r).timeouts = b.timeouts
         /\ ~UnwinsSet(b, t, set, r) => UndoGame(b, t, set, r).sets = b.sets
         /\ \A u \in Team : UndoGame(b, t, set, r).sets[u] <= b.sets[u]
<1> DEFINE c == Unscored(b, t, set)
<1>1. c \in Board
  BY UnscoredType
<1>2. c.sets = b.sets /\ c.timeouts = b.timeouts
  <2> DEFINE served == ChangeServe(b, t, TRUE)
  <2>1. served \in Board /\ served.sets = b.sets /\ served.timeouts = b.timeouts
    BY ServedEffect
  <2>2. c = [served EXCEPT !.score[t][UndoTarget(b, t, set)] = IF @ > 0 THEN @ - 1 ELSE 0]
    BY DEF Unscored
  <2> HIDE DEF served, c
  <2> QED
    BY <2>1, <2>2 DEF Board
<1> HIDE DEF c
<1>3. UndoGame(b, t, set, r) = IF UnwinsSet(b, t, set, r) THEN UndoSet(c, t) ELSE c
  BY DEF UndoGame, c
<1>4. b.sets \in [Team -> Nat]
  BY DEF Board
<1> QED
  BY <1>1, <1>2, <1>3, <1>4, UndoSetEffect

\* Each request in turn.
LEMMA ScorePointPlays ==
  ASSUME TypeOK, NEW t \in Team, ScorePoint(t) \/ UnscorePoint(t)
  PROVE  PlayStep
<1>1. board \in Board /\ rules \in Rules /\ curSet \in SetNo
  BY DEF TypeOK
<1>2. CASE ScorePoint(t)
  <2> DEFINE b == AddGame(board, t, curSet, rules)
             c == SetWonBy(b, t, curSet, rules)
  <2>1. b \in Board /\ ComputeCurrentSet(b, rules.sets) \in SetNo
    BY <1>1, AddGameType, RecomputedSetType
  <2>2. /\ b.timeouts = board.timeouts /\ (~c => b.sets = board.sets)
        /\ \A u \in Team : b.sets[u] <= board.sets[u]
                           \/ (~MatchFinished(board, rules.sets) /\ b.sets[u] = board.sets[u] + 1)
    BY <1>1, AddGameEffect
  <2>3. /\ Commit(b, IF c THEN ComputeCurrentSet(b, rules.sets) ELSE curSet)
        /\ SyncMatchFinishedAt(b) /\ rules' = rules
    BY <1>2 DEF ScorePoint
  <2> HIDE DEF b, c
  <2> QED
    BY <1>1, <2>1, <2>2, <2>3 DEF PlayStep, Commit, Finished
<1>3. CASE UnscorePoint(t)
  <2> DEFINE b == UndoGame(board, t, curSet, rules)
             c == UnwinsSet(board, t, curSet, rules)
  <2>1. b \in Board /\ ComputeCurrentSet(b, rules.sets) \in SetNo
    BY <1>1, UndoGameType, RecomputedSetType
  <2>2. /\ b.timeouts = board.timeouts /\ (~c => b.sets = board.sets)
        /\ \A u \in Team : b.sets[u] <= board.sets[u]
    BY <1>1, UndoGameEffect
  <2>3. /\ Commit(b, IF c THEN ComputeCurrentSet(b, rules.sets) ELSE curSet)
        /\ SyncMatchFinishedAt(b) /\ rules' = rules
    BY <1>3 DEF UnscorePoint
  <2> HIDE DEF b, c
  <2> QED
    BY <1>1, <2>1, <2>2, <2>3 DEF PlayStep, Commit
<1> QED
  BY <1>2, <1>3

LEMMA SetsPlay ==
  ASSUME TypeOK, NEW t \in Team, NEW x, NEW y, NEW n, AwardSet(t, x, n) \/ RevokeSet(t, x, y, n)
  PROVE  PlayStep
<1>1. board \in Board /\ rules \in Rules /\ board.sets \in [Team -> Nat]
  BY DEF TypeOK, Board
<1>2. PICK b \in {AddSet(board, t, rules.sets), UndoSet(board, t)} :
        /\ Commit(b, ComputeCurrentSet(b, rules.sets))
        /\ SyncMatchFinishedAt(b) /\ rules' = rules
  BY DEF AwardSet, RevokeSet
<1>3. b \in Board /\ ComputeCurrentSet(b, rules.sets) \in SetNo
  BY <1>1, <1>2, AddSetType, UndoSetType, RecomputedSetType
<1>4. /\ b.timeouts = board.timeouts
      /\ \A u \in Team : b.sets[u] <= board.sets[u]
                         \/ (~MatchFinished(board, rules.sets) /\ b.sets[u] = board.sets[u] + 1)
  <2>1. CASE b = UndoSet(board, t)
    BY <1>1, <2>1, UndoSetEffect
  <2>2. CASE b = AddSet(board, t, rules.sets)
    <3>1. /\ b.timeouts = board.timeouts
          /\ b.sets = IF MatchFinished(board, rules.sets) THEN board.sets
                      ELSE [board.sets EXCEPT ![t] = @ + 1]
      BY <1>1, <2>2, AddSetEffect
    <3> QED
      BY <1>1, <3>1
  <2> QED
    BY <1>2, <2>1, <2>2
<1> QED
  BY <1>2, <1>3, <1>4 DEF PlayStep, Commit, Finished

LEMMA TimeoutsPlay ==
  ASSUME TypeOK, NEW t \in Team, NEW x, NEW y, NEW n,
         CallTimeout(t, x, n) \/ CancelTimeout(t, x, y, n) \/ ToggleServe(t, n)
  PROVE  PlayStep
<1>1. /\ board \in Board /\ curSet \in SetNo /\ board.setNo \in SetNo
      /\ board.sets \in [Team -> Nat] /\ board.timeouts \in [Team -> [SetNo -> 0..2]]
  BY DEF TypeOK, Board
<1>2. PICK b \in {AddTimeout(board, t), UndoTimeout(board, t), ChangeServe(board, t, FALSE)} :
        Commit(b, curSet) /\ rules' = rules /\ finished' = finished
  BY DEF CallTimeout, CancelTimeout, ToggleServe
<1>3. b \in Board
  <2>1. t \in Serve
    BY DEF Serve, Team
  <2>2. ChangeServe(board, t, FALSE) \in Board
    BY <1>1, <2>1, ChangeServeType, Zenon
  <2> QED
    BY <1>1, <1>2, <2>2, AddTimeoutType, UndoTimeoutType
<1>4. b.sets = board.sets /\ \A u \in Team, set \in SetNo \ {board.setNo} :
                              b.timeouts[u][set] = board.timeouts[u][set]
  <2>1. CASE b = AddTimeout(board, t)
    BY <1>1, <2>1 DEF AddTimeout, Board
  <2>2. CASE b = UndoTimeout(board, t)
    BY <1>1, <2>2 DEF UndoTimeout, Board
  <2>3. CASE b = ChangeServe(board, t, FALSE)
    BY <1>1, <2>3 DEF ChangeServe, Board
  <2> QED
    BY <1>2, <2>1, <2>2, <2>3
<1> QED
  BY <1>1, <1>2, <1>3, <1>4 DEF PlayStep, Commit

LEMMA EditsPlay ==
  ASSUME TypeOK, NEW t \in Team, NEW n,
         \/ \E set \in SetNo, value \in ScoreValues : SetScore(t, set, value, n)
         \/ \E value \in SetsValues : SetSets(t, value, n)
  PROVE  PlayStep
<1>1. /\ board \in Board /\ curSet \in SetNo /\ rules \in Rules
      /\ ScoreValues \subseteq Nat /\ SetsValues \subseteq Nat
  BY ScoreboardAssumption DEF TypeOK
<1>2. CASE \E set \in SetNo, value \in ScoreValues : SetScore(t, set, value, n)
  <2>1. PICK set \in SetNo, value \in ScoreValues : SetScore(t, set, value, n)
    BY <1>2
  <2> DEFINE edited == SetGameValue(board, t, set, value)
             b == CheckSetWon(edited, t, set, rules)
             c == SetWonBy(edited, t, set, rules)
  <2>2. edited \in Board /\ edited.sets = board.sets /\ edited.timeouts = board.timeouts
    <3>1. edited \in Board
      BY <1>1, SetGameValueType
    <3> QED
      BY <1>1, <3>1 DEF SetGameValue, Board
  <2>3. /\ Commit(b, IF c THEN ComputeCurrentSet(b, rules.sets) ELSE curSet)
        /\ SyncMatchFinishedAt(b) /\ rules' = rules /\ "set_score" \in Requests
    BY <2>1 DEF SetScore
  <2>4. b = IF c THEN AddSet(edited, t, ConfSets) ELSE edited
    BY DEF CheckSetWon
  <2> HIDE DEF edited, b, c
  <2>5. b \in Board /\ b.timeouts = board.timeouts /\ (~c => b.sets = board.sets)
    BY ZenonT(60), <2>2, <2>4, AddSetType, AddSetEffect
  <2>6. ComputeCurrentSet(b, rules.sets) \in SetNo
    BY <2>5, RecomputedSetType
  <2> QED
    BY <1>1, <2>3, <2>5, <2>6 DEF PlayStep, Commit
<1>3. CASE \E value \in SetsValues : SetSets(t, value, n)
  <2>1. PICK value \in SetsValues : SetSets(t, value, n)
    BY <1>3
  <2> DEFINE b == SetSetsValue(board, t, value)
  <2>2. /\ Commit(b, ComputeCurrentSet(b, rules.sets))
        /\ SyncMatchFinishedAt(b) /\ rules' = rules /\ "set_sets" \in Requests
    BY <2>1 DEF SetSets
  <2>3. b \in Board /\ b.timeouts = board.timeouts
    BY <1>1, SetSetsValueType DEF SetSetsValue, Board
  <2> HIDE DEF b
  <2>4. ComputeCurrentSet(b, rules.sets) \in SetNo
    BY <2>3, RecomputedSetType
  <2> QED
    BY <1>1, <2>2, <2>3, <2>4 DEF PlayStep, Commit
<1> QED
  BY <1>2, <1>3

LEMMA UndoRequestPlays ==
  ASSUME TypeOK, NEW action, NEW t \in Team, NEW x, NEW y, NEW n, UndoRequest(action, t, x, y, n)
  PROVE  PlayStep
BY ScorePointPlays, SetsPlay, TimeoutsPlay DEF UndoRequest, UndoPoint, RetractPoint

LEMMA StepPlays ==
  ASSUME TypeOK, [Next]_vars
  PROVE  PlayStep \/ ResetStep \/ RulesStep \/ InitStep \/ RestStep
<1>1. CASE Point
  BY <1>1, ScorePointPlays DEF Point, AddPoint, RecoverPoint
<1>2. CASE OtherForward
  BY <1>2, SetsPlay, TimeoutsPlay DEF OtherForward
<1>3. CASE UndoStep
  <2>1. ASSUME NEW ok1, NEW ok2, NEW n, UndoLast(ok1, ok2, n)
        PROVE  PlayStep
    <3>1. log[LastForward].team \in Team
      <4>1. LastForward \in 1..Len(log)
        BY <2>1, LiveForwardsInLog DEF UndoLast, LastForward, Latest
      <4>2. log[LastForward] \in Record
        BY <4>1, ElementOfSeq DEF TypeOK
      <4> QED
        BY <4>2 DEF Record
    <3> QED
      BY <2>1, <3>1, UndoRequestPlays DEF UndoLast
  <2> QED
    BY <1>3, <2>1, UndoRequestPlays DEF UndoStep, UndoOne
<1>4. CASE Edit
  BY <1>4, EditsPlay DEF Edit
<1>5. CASE Manage
  <2>1. ASSUME NEW r \in RuleSets, NEW n, SetRules(r, n) PROVE RulesStep
    BY <2>1 DEF SetRules, RulesStep, Commit
  <2>2. ASSUME NEW r \in RuleSets, ReinitSession(r) PROVE InitStep
    BY <2>2 DEF ReinitSession, InitStep
  <2>3. ASSUME NEW n, StartMatch(n) PROVE RestStep
    BY <2>3 DEF StartMatch, RestStep
  <2>4. ASSUME NEW ok, Reset(ok) PROVE ResetStep
    BY <2>4 DEF Reset, ResetStep, Commit
  <2> QED
    BY <1>5, <2>1, <2>2, <2>3, <2>4 DEF Manage
<1>6. CASE (\E t \in Team : PairExpires(t)) \/ UNCHANGED vars
  BY <1>6 DEF PairExpires, match, vars, RestStep
<1> QED
  BY <1>1, <1>2, <1>3, <1>4, <1>5, <1>6 DEF Next

LEMMA ResetIsEmpty ==
  ASSUME NEW r \in Rules
  PROVE  /\ ~MatchFinished(ResetBoard, r.sets)
         /\ ComputeCurrentSet(ResetBoard, r.sets) = 1
         /\ Save(ResetBoard, 1) = ResetBoard
<1>1. r.sets \in 1..7 /\ SoftLimit(r.sets) \in Nat /\ SoftLimit(r.sets) >= 1
  BY DEF Rules, SetNo, SoftLimit
<1>2. ~MatchFinished(ResetBoard, r.sets)
  <2>1. \A t \in Team : ResetBoard.sets[t] = 0
    BY DEF ResetBoard
  <2> QED
    BY <1>1, <2>1 DEF MatchFinished
<1>3. ComputeCurrentSet(ResetBoard, r.sets) = 1
  BY <1>1, <1>2 DEF ComputeCurrentSet, ResetBoard, Team
<1> QED
  BY <1>2, <1>3 DEF Save, ResetBoard

\* Whatever is scored, undone, edited and configured, the set in which the next
\* point will be booked is the one its sets won and its limits determine: as long
\* as no client initialises a live session again, which changes the limits alone.
THEOREM CurrentSetFollows ==
  ASSUME "init" \notin Requests
  PROVE  Spec => []CurrentSetTracksSets
<1>1. Init => CurrentSetTracksSets
  <2> SUFFICES ASSUME Init PROVE CurrentSetTracksSets
    OBVIOUS
  <2>1. InitialRules \in Rules /\ board = ResetBoard /\ rules = InitialRules /\ curSet = 1
    BY ScoreboardAssumption DEF Init
  <2> QED
    BY <2>1, ResetIsEmpty DEF CurrentSetTracksSets
<1>2. TypeOK /\ CurrentSetTracksSets /\ [Next]_vars => CurrentSetTracksSets'
  <2> SUFFICES ASSUME TypeOK, CurrentSetTracksSets, [Next]_vars PROVE CurrentSetTracksSets'
    OBVIOUS
  <2>1. board \in Board /\ rules \in Rules
    BY DEF TypeOK
  <2>2. CASE PlayStep
    <3>1. PICK b \in Board :
            /\ rules' = rules /\ board' = Save(b, curSet')
            /\ \/ curSet' = ComputeCurrentSet(b, rules.sets)
               \/ curSet' = curSet /\ b.sets = board.sets
      BY <2>2 DEF PlayStep
    <3>2. board'.sets = b.sets
      BY <3>1, SaveEffect
    <3>3. ComputeCurrentSet(board', rules'.sets) = ComputeCurrentSet(b, rules.sets)
      BY <3>1, <3>2, SetsDecide
    <3> QED
      BY <3>1, <3>3, SetsDecide DEF CurrentSetTracksSets
  <2>3. CASE ResetStep
    <3>1. board'.sets = ResetBoard.sets
      BY <2>3, ResetBoardType, SaveEffect DEF ResetStep
    <3> QED
      BY <2>3, <3>1, SetsDecide DEF ResetStep, CurrentSetTracksSets
  <2>4. CASE RulesStep
    <3>1. board'.sets = board.sets
      BY <2>1, <2>4, SaveEffect DEF RulesStep
    <3> QED
      BY <2>4, <3>1, SetsDecide DEF RulesStep, CurrentSetTracksSets
  <2>5. CASE RestStep
    BY <2>5 DEF RestStep, CurrentSetTracksSets
  <2> QED
    BY <2>2, <2>3, <2>4, <2>5, StepPlays DEF InitStep
<1> QED
  BY <1>1, <1>2, InitType, StepType, PTL DEF Spec

\* A request that changes the board under unchanged rules leaves a right stamp
\* right: it looks at the sets won before and after, whatever path it takes.
THEOREM StampFollows == Spec => StampFollowsTheBoard
<1>1. TypeOK /\ [Next]_vars
        => (FinishedStampAgrees /\ board' # board /\ rules' = rules => FinishedStampAgrees')
  <2> SUFFICES ASSUME TypeOK, [Next]_vars, FinishedStampAgrees, board' # board, rules' = rules
               PROVE  FinishedStampAgrees'
    OBVIOUS
  <2>1. board \in Board /\ rules \in Rules /\ finished \in BOOLEAN
    BY DEF TypeOK
  <2>2. CASE PlayStep
    <3>1. PICK b \in Board : /\ board' = Save(b, curSet')
                             /\ SyncMatchFinishedAt(b) \/ (finished' = finished /\ b.sets = board.sets)
      BY <2>2 DEF PlayStep
    <3>2. MatchFinished(board', rules'.sets) <=> MatchFinished(b, rules.sets)
      BY <3>1, SaveEffect, SetsDecide
    <3>3. finished' <=> MatchFinished(b, rules.sets)
      <4>1. finished <=> MatchFinished(board, rules.sets)
        BY DEF FinishedStampAgrees, Finished
      <4>2. CASE SyncMatchFinishedAt(b)
        BY <4>1, <4>2 DEF SyncMatchFinishedAt, Finished, MatchFinished
      <4>3. CASE finished' = finished /\ b.sets = board.sets
        BY <4>1, <4>3, SetsDecide
      <4> QED
        BY <3>1, <4>2, <4>3
    <3> QED
      BY <3>2, <3>3 DEF FinishedStampAgrees, Finished
  <2>3. CASE ResetStep
    <3>1. MatchFinished(board', rules'.sets) <=> MatchFinished(ResetBoard, rules.sets)
      BY <2>3, ResetBoardType, SaveEffect, SetsDecide DEF ResetStep
    <3> QED
      BY <2>1, <2>3, <3>1, ResetIsEmpty DEF ResetStep, FinishedStampAgrees, Finished
  <2>4. CASE RulesStep
    <3>1. MatchFinished(board', rules'.sets) <=> MatchFinished(board, rules.sets)
      BY <2>1, <2>4, SaveEffect, SetsDecide DEF RulesStep
    <3> QED
      BY <2>4, <3>1 DEF RulesStep, FinishedStampAgrees, Finished
  <2> QED
    BY <2>2, <2>3, <2>4, StepPlays DEF InitStep, RestStep
<1> QED
  BY <1>1, InitType, StepType, PTL DEF Spec, StampFollowsTheBoard

\* The board's own current set is the session's whenever no request is under way,
\* so that a timeout is booked in the set being played and in no other.
THEOREM TimeoutsStay == Spec => TimeoutsStayInTheirSet
<1> DEFINE InStep == board.setNo = curSet
           Booked == \/ board' = ResetBoard
                     \/ \A t \in Team, set \in SetNo \ {curSet} :
                          board'.timeouts[t][set] = board.timeouts[t][set]
<1>1. Init => InStep
  BY DEF Init, ResetBoard
<1>2. TypeOK /\ InStep /\ [Next]_vars => InStep' /\ Booked
  <2> SUFFICES ASSUME TypeOK, InStep, [Next]_vars PROVE InStep' /\ Booked
    OBVIOUS
  <2>1. board \in Board /\ rules \in Rules
    BY DEF TypeOK
  <2>2. CASE PlayStep
    <3>1. PICK b \in Board :
            /\ board' = Save(b, curSet')
            /\ \A t \in Team, set \in SetNo \ {board.setNo} :
                 b.timeouts[t][set] = board.timeouts[t][set]
      BY <2>2 DEF PlayStep
    <3>2. board'.timeouts = b.timeouts /\ board'.setNo = curSet'
      BY <3>1, SaveEffect
    <3> QED
      BY <3>1, <3>2
  <2>3. CASE ResetStep
    <3>1. board' = ResetBoard /\ curSet' = 1
      BY <2>1, <2>3, ResetIsEmpty DEF ResetStep
    <3> QED
      BY <3>1 DEF ResetBoard
  <2>4. CASE RulesStep
    <3>1. board'.timeouts = board.timeouts /\ board'.setNo = curSet'
      BY <2>1, <2>4, SaveEffect DEF RulesStep
    <3> QED
      BY <3>1
  <2>5. CASE InitStep \/ RestStep
    BY <2>5 DEF InitStep, RestStep
  <2> QED
    BY <2>2, <2>3, <2>4, <2>5, StepPlays
<1> QED
  BY <1>1, <1>2, InitType, StepType, PTL DEF Spec, TimeoutsStayInTheirSet

\* Under one set of limits, and as long as nobody edits scores or sets by hand, no
\* sequence of points, sets, undos and resets wins a set past the end of the match.
THEOREM SetsStayWithin ==
  ASSUME Requests \cap {"set_score", "set_sets"} = {}, RuleSets = {InitialRules}
  PROVE  Spec => []SetsWithinMatch
<1> DEFINE Limits == rules = InitialRules
<1>1. Init => Limits /\ SetsWithinMatch
  <2> SUFFICES ASSUME Init PROVE SetsWithinMatch
    BY DEF Init
  <2>1. InitialRules \in Rules /\ board = ResetBoard /\ rules = InitialRules
    BY ScoreboardAssumption DEF Init
  <2>2. SoftLimit(rules.sets) \in Nat /\ SoftLimit(rules.sets) >= 1
    BY <2>1 DEF Rules, SetNo, SoftLimit
  <2>3. \A t \in Team : ResetBoard.sets[t] = 0
    BY DEF ResetBoard
  <2> QED
    BY <2>1, <2>2, <2>3 DEF SetsWithinMatch
<1>2. TypeOK /\ Limits /\ SetsWithinMatch /\ [Next]_vars => Limits' /\ SetsWithinMatch'
  <2> SUFFICES ASSUME TypeOK, Limits, SetsWithinMatch, [Next]_vars PROVE Limits' /\ SetsWithinMatch'
    OBVIOUS
  <2>1. board \in Board /\ rules \in Rules /\ board.sets \in [Team -> Nat]
    BY DEF TypeOK, Board
  <2>2. SoftLimit(rules.sets) \in Nat /\ SoftLimit(rules.sets) >= 1
    BY <2>1 DEF Rules, SetNo, SoftLimit
  <2>3. CASE PlayStep
    <3>1. PICK b \in Board :
            /\ rules' = rules /\ board' = Save(b, curSet')
            /\ \A t \in Team : b.sets[t] <= board.sets[t]
                               \/ (~Finished /\ b.sets[t] = board.sets[t] + 1)
      BY <2>3 DEF PlayStep
    <3>2. board'.sets = b.sets /\ b.sets \in [Team -> Nat]
      BY <3>1, SaveEffect DEF Board
    <3>3. ASSUME NEW t \in Team PROVE b.sets[t] <= SoftLimit(rules.sets)
      <4>1. board.sets[t] \in Nat /\ b.sets[t] \in Nat /\ board.sets[t] <= SoftLimit(rules.sets)
        BY <2>1, <3>2 DEF SetsWithinMatch
      <4>2. ~Finished => ~(board.sets[t] >= SoftLimit(rules.sets))
        BY DEF Finished, MatchFinished
      <4> QED
        BY <2>2, <3>1, <4>1, <4>2
    <3> QED
      BY <3>1, <3>2, <3>3 DEF SetsWithinMatch
  <2>4. CASE ResetStep
    <3>1. board'.sets = ResetBoard.sets /\ rules' = rules
      BY <2>4, ResetBoardType, SaveEffect DEF ResetStep
    <3> QED
      BY <2>2, <3>1 DEF SetsWithinMatch, ResetBoard
  <2>5. CASE RulesStep \/ InitStep \/ RestStep
    <3>1. board'.sets = board.sets /\ rules' = rules
      BY <2>1, <2>5, SaveEffect DEF RulesStep, InitStep, RestStep
    <3> QED
      BY <3>1 DEF SetsWithinMatch
  <2> QED
    BY <2>3, <2>4, <2>5, StepPlays
<1> QED
  BY <1>1, <1>2, InitType, StepType, PTL DEF Spec

-----------------------------------------------------------------------------
\* The log and what is kept beside it: the cached count and the rapid-pair cache.
\* Neither property is inductive: an undo that retracts a remembered point must
\* hide a record that is counted, or the count drops for nothing, and a point that
\* recovers one must bring back a record that is not.  So the invariant says what
\* the cache remembers, and counts the rotated records too, which it may remember.

Counted == {i \in DOMAIN log : log[i].visible /\ ~log[i].undo}

\* Pair p of team t is about t's last record in the log l: a point that stands, or
\* an undo and the point it has hidden.
PairIn(l, t, p) ==
  /\ p.kind = "forward" =>
       /\ p.at \in 1..Len(l) /\ l[p.at].visible /\ ~l[p.at].undo
       /\ l[p.at].team = t /\ l[p.at].action = "add_point"
       /\ \A j \in 1..Len(l) : j > p.at => l[j].team # t
  /\ p.kind = "undo" =>
       /\ p.at \in 1..Len(l) /\ l[p.at].undo /\ l[p.at].team = t
       /\ p.popped # 0 => /\ p.popped \in 1..Len(l)
                          /\ ~l[p.popped].visible /\ ~l[p.popped].undo
                          /\ l[p.popped].team = t

PairsInLog == \A t \in Team : PairIn(log, t, rapid[t])

\* The log m differs from l in records of team t alone.
Concerns(l, m, t) ==
  /\ Len(m) >= Len(l)
  /\ \A j \in 1..Len(l) : IF l[j].team = t THEN m[j].team = t ELSE m[j] = l[j]
  /\ \A j \in 1..Len(m) : j > Len(l) => m[j].team = t

\* What a request may do to the count: nothing, or a record hidden that it goes on
\* counting because a write has failed; or count a record it adds or hides.
CountMoves ==
  \/ /\ Counted' \subseteq Counted /\ count' = count
     /\ AppendOutcomes = {TRUE} => Counted' = Counted
  \/ \E i : i \notin Counted /\ Counted' = Counted \cup {i} /\ count' = count + 1
  \/ \E i \in Counted : Counted' = Counted \ {i} /\ count' = CountDown

LEMMA CountedFinite ==
  ASSUME TypeOK
  PROVE  Counted \subseteq 1..Len(log) /\ IsFiniteSet(Counted) /\ Cardinality(Counted) \in Nat
<1>1. Counted \subseteq 1..Len(log) /\ Len(log) \in Nat
  BY LenProperties DEF Counted, TypeOK
<1>2. IsFiniteSet(1..Len(log))
  BY <1>1, FS_Interval
<1> QED
  BY <1>1, <1>2, FS_Subset, FS_CardinalityType

LEMMA CountFollows ==
  ASSUME TypeOK, CountMoves
  PROVE  /\ count >= Cardinality(Counted) => count' >= Cardinality(Counted')
         /\ AppendOutcomes = {TRUE} /\ count = Cardinality(Counted)
              => count' = Cardinality(Counted')
<1> DEFINE n == Cardinality(Counted)
           m == Cardinality(Counted')
<1>1. IsFiniteSet(Counted) /\ n \in Nat /\ count \in Nat
  BY CountedFinite DEF TypeOK
<1>2. CASE /\ Counted' \subseteq Counted /\ count' = count
           /\ AppendOutcomes = {TRUE} => Counted' = Counted
  <2>1. m \in Nat /\ m <= n
    BY <1>1, <1>2, FS_Subset, FS_CardinalityType
  <2>2. AppendOutcomes = {TRUE} => m = n
    BY <1>2
  <2>4. count' = count
    BY <1>2
  <2> HIDE DEF n, m
  <2>3. (count >= n => count' >= m) /\ (AppendOutcomes = {TRUE} /\ count = n => count' = m)
    <3>1. count >= n => count' >= m
      BY <1>1, <2>4, <2>1
    <3>2. AppendOutcomes = {TRUE} /\ count = n => count' = m
      BY <2>4, <2>2
    <3> QED
      BY <3>1, <3>2
  <2> QED
    BY <2>3 DEF n, m
<1>3. CASE \E i : i \notin Counted /\ Counted' = Counted \cup {i} /\ count' = count + 1
  <2>1. m = n + 1
    BY <1>1, <1>3, FS_AddElement
  <2> HIDE DEF n, m
  <2>2. (count >= n => count' >= m) /\ (count = n => count' = m)
    BY <1>1, <1>3, <2>1
  <2> QED
    BY <2>2 DEF n, m
<1>4. CASE \E i \in Counted : Counted' = Counted \ {i} /\ count' = CountDown
  <2>1. PICK i \in Counted : Counted' = Counted \ {i} /\ count' = CountDown
    BY <1>4
  <2>2. m = n - 1
    BY <1>1, <2>1, FS_RemoveElement
  <2>3. m \in Nat
    BY <1>1, <2>1, FS_RemoveElement, FS_CardinalityType
  <2> HIDE DEF n, m
  <2>4. (count >= n => count' >= m) /\ (count = n => count' = m)
    BY <1>1, <2>1, <2>2, <2>3 DEF CountDown
  <2> QED
    BY <2>4 DEF n, m
<1> QED
  BY <1>2, <1>3, <1>4 DEF CountMoves

LEMMA NoPairIn ==
  ASSUME NEW l, NEW t
  PROVE  PairIn(l, t, NoPair)
BY DEF PairIn, NoPair

LEMMA InvalidatedPairs == InvalidateRapidPairs => PairsInLog'
BY NoPairIn DEF InvalidateRapidPairs, PairsInLog

LEMMA AppendConcerns ==
  ASSUME NEW l \in Seq(Record), NEW r \in Record
  PROVE  Concerns(l, l, r.team) /\ Concerns(l, Append(l, r), r.team)
BY AppendProperties, LenProperties DEF Concerns

LEMMA TombstoneConcerns ==
  ASSUME NEW l \in Seq(Record), NEW i \in 1..Len(l)
  PROVE  Concerns(l, Tombstone(l, i), l[i].team)
BY TombstoneEffect, LenProperties DEF Concerns

LEMMA RestoreConcerns ==
  ASSUME NEW l \in Seq(Record), NEW i \in 1..Len(l)
  PROVE  Concerns(l, Restore(l, i), l[i].team)
BY RestoreEffect, LenProperties DEF Concerns

LEMMA ConcernsTransitive ==
  ASSUME NEW l \in Seq(Record), NEW m \in Seq(Record), NEW n \in Seq(Record), NEW t,
         Concerns(l, m, t), Concerns(m, n, t)
  PROVE  Concerns(l, n, t)
BY LenProperties DEF Concerns

\* The rival's pair does not notice.
LEMMA PairKept ==
  ASSUME NEW l \in Seq(Record), NEW m \in Seq(Record), NEW t, NEW u, u # t,
         Concerns(l, m, t), NEW p \in Pair, PairIn(l, u, p)
  PROVE  PairIn(m, u, p)
<1>1. Len(l) \in Nat /\ Len(m) \in Nat /\ p.at \in Nat /\ p.popped \in Nat
  BY LenProperties DEF Pair
<1>2. CASE p.kind = "forward"
  BY <1>1, <1>2 DEF PairIn, Concerns
<1>3. CASE p.kind = "undo"
  BY <1>1, <1>3 DEF PairIn, Concerns
<1> QED
  BY <1>2, <1>3 DEF PairIn

\* A request about a point of t replaces t's pair and keeps its rival's.
LEMMA PairsAfter ==
  ASSUME TypeOK, PairsInLog, log' \in Seq(Record), NEW t \in Team, Concerns(log, log', t),
         NEW p, rapid' = [rapid EXCEPT ![t] = p], PairIn(log', t, p)
  PROVE  PairsInLog'
<1> SUFFICES ASSUME NEW u \in Team PROVE PairIn(log', u, rapid'[u])
  BY DEF PairsInLog
<1>1. rapid \in [Team -> Pair] /\ log \in Seq(Record)
  BY DEF TypeOK
<1>2. CASE u = t
  BY <1>1, <1>2
<1>3. CASE u # t
  <2>1. rapid'[u] = rapid[u] /\ rapid[u] \in Pair
    BY <1>1, <1>3
  <2>2. PairIn(log, u, rapid[u])
    BY DEF PairsInLog
  <2> QED
    BY <1>1, <1>3, <2>1, <2>2, PairKept
<1> QED
  BY <1>2, <1>3

\* What an append of a forward, or an undo of a counted one, does to the log.
LEMMA AuditForwardCounts ==
  ASSUME TypeOK, NEW action \in Undoable, NEW t \in Team, NEW tag \in Tags, NEW ok,
         NEW n, AuditForward(action, t, tag, ok, n)
  PROVE  /\ CountMoves /\ Concerns(log, log', t)
         /\ ok => /\ Len(log') = Len(log) + 1
                  /\ log'[Len(log) + 1] = Forward(action, t, tag)
<1> DEFINE r == Forward(action, t, tag)
<1>1. r \in Record /\ r.visible /\ ~r.undo /\ r.team = t
  BY DEF Forward, Record
<1>2. log \in Seq(Record) /\ Len(log) \in Nat
  BY LenProperties DEF TypeOK
<1>3. CASE ok
  <2>1. log' = Append(log, r) /\ count' = count + 1
    BY <1>3 DEF AuditForward
  <2> HIDE DEF r
  <2>2. /\ Len(log') = Len(log) + 1 /\ log'[Len(log) + 1] = r
        /\ log' \in Seq(Record)
        /\ \A j \in 1..Len(log) : log'[j] = log[j]
    BY <1>1, <1>2, <2>1, AppendProperties
  <2>3. Counted' = Counted \cup {Len(log) + 1} /\ Len(log) + 1 \notin Counted
    BY <1>1, <1>2, <2>2, LenProperties DEF Counted
  <2>4. Concerns(log, log', t)
    BY <1>1, <1>2, <2>1, AppendConcerns
  <2> QED
    BY <2>1, <2>2, <2>3, <2>4 DEF CountMoves, r
<1>4. CASE ~ok
  <2>1. log' = log /\ count' = count
    BY <1>4 DEF AuditForward
  <2>2. Counted' = Counted
    BY <2>1 DEF Counted
  <2>3. Concerns(log, log', t)
    BY <1>1, <1>2, <2>1, AppendConcerns
  <2> QED
    BY <1>4, <2>1, <2>2, <2>3 DEF CountMoves
<1> QED
  BY <1>3, <1>4

\* What the log holds after an undo: its record, and the forward hidden.
UndoLogged(t, i, okPop, okAppend) ==
  /\ Concerns(log, log', t)
  /\ okAppend => /\ Len(log') = Len(log) + 1
                 /\ log'[Len(log) + 1].undo /\ log'[Len(log) + 1].team = t
  /\ okPop /\ i # 0 => /\ i \in 1..Len(log) /\ log'[i].team = t
                       /\ ~log'[i].visible /\ ~log'[i].undo

LEMMA AuditUndoCounts ==
  ASSUME TypeOK, NEW action \in Undoable, NEW t \in Team, NEW i, NEW okPop,
         NEW okAppend \in AppendOutcomes, NEW n,
         i = 0 \/ (i \in Counted /\ log[i].team = t),
         AuditUndo(action, t, i, okPop, okAppend, n)
  PROVE  CountMoves /\ UndoLogged(t, i, okPop, okAppend)
<1> DEFINE popped == IF okPop THEN i ELSE 0
           hidden == IF popped = 0 THEN log ELSE Tombstone(log, popped)
           r == Undo(action, t)
<1>1. r \in Record /\ r.undo /\ r.team = t
  BY ScoreboardAssumption DEF Undo, Record
<1>2. log \in Seq(Record) /\ Len(log) \in Nat /\ Counted \subseteq 1..Len(log)
  BY LenProperties, CountedFinite DEF TypeOK
<1>3. popped = 0 \/ (popped \in Counted /\ popped \in 1..Len(log) /\ log[popped].team = t)
  BY <1>2
<1>4. /\ log' = IF okAppend THEN Append(hidden, r) ELSE hidden
      /\ count' = IF okAppend /\ popped # 0 THEN CountDown ELSE count
  BY DEF AuditUndo
<1>5. 0 \notin Counted
  BY <1>2
<1>6. okPop /\ i # 0 => popped = i /\ popped # 0
  OBVIOUS
<1> HIDE DEF popped
<1>7. /\ hidden \in Seq(Record) /\ Len(hidden) = Len(log) /\ Concerns(log, hidden, t)
      /\ \A j \in 1..Len(log) : /\ hidden[j].undo = log[j].undo
                                /\ hidden[j].team = log[j].team
                                /\ hidden[j].visible <=> (log[j].visible /\ j # popped)
  <2>1. CASE popped = 0
    <3>1. hidden = log
      BY <2>1
    <3> QED
      BY <1>1, <1>2, <2>1, <3>1, AppendConcerns
  <2>2. CASE popped # 0
    <3>1. hidden = Tombstone(log, popped)
      BY <2>2
    <3> HIDE DEF hidden
    <3>2. Concerns(log, hidden, t)
      BY <1>2, <1>3, <2>2, <3>1, TombstoneConcerns
    <3> QED
      BY <1>2, <3>1, <3>2, TombstoneEffect
  <2> QED
    BY <2>1, <2>2
<1> HIDE DEF hidden, r
<1>8. /\ log' \in Seq(Record)
      /\ okAppend => Len(log') = Len(log) + 1 /\ log'[Len(log) + 1] = r
      /\ ~okAppend => Len(log') = Len(log)
      /\ \A j \in 1..Len(log) : log'[j] = hidden[j]
  BY <1>1, <1>2, <1>4, <1>7, AppendProperties
<1>9. Counted' = Counted \ {popped}
  BY <1>1, <1>2, <1>7, <1>8, LenProperties DEF Counted
<1>10. CountMoves
  <2>1. CASE okAppend /\ popped # 0
    BY <1>3, <1>4, <1>9, <2>1 DEF CountMoves
  <2>2. CASE popped = 0
    <3>1. Counted' = Counted /\ count' = count
      BY <1>4, <1>5, <1>9, <2>2
    <3> QED
      BY <3>1 DEF CountMoves
  <2>3. CASE ~okAppend
    <3>1. count' = count
      BY <1>4, <2>3
    <3>2. Counted' \subseteq Counted
      BY <1>9
    <3>3. ASSUME AppendOutcomes = {TRUE} PROVE FALSE
      <4>1. okAppend \in {TRUE}
        BY <3>3
      <4>2. okAppend = TRUE
        BY <4>1
      <4> QED
        BY <4>2, <2>3
    <3> QED
      BY <3>1, <3>2, <3>3 DEF CountMoves
  <2> QED
    BY <2>1, <2>2, <2>3
<1>11. Concerns(log, log', t)
  <2>1. Concerns(hidden, log', t)
    BY <1>1, <1>4, <1>7, AppendConcerns
  <2> QED
    BY <1>2, <1>7, <1>8, <2>1, ConcernsTransitive
<1>12. okPop /\ i # 0 => /\ i \in 1..Len(log) /\ log'[i].team = t
                         /\ ~log'[i].visible /\ ~log'[i].undo
  <2> SUFFICES ASSUME okPop, i # 0
               PROVE  /\ i \in 1..Len(log) /\ log'[i].team = t
                      /\ ~log'[i].visible /\ ~log'[i].undo
    OBVIOUS
  <2>1. popped = i /\ i \in 1..Len(log) /\ log[i].team = t /\ ~log[i].undo
    BY <1>3, <1>6 DEF Counted
  <2> QED
    BY <1>7, <1>8, <2>1
<1> QED
  BY <1>1, <1>8, <1>10, <1>11, <1>12 DEF UndoLogged

\* What an ordinary undo selects is counted, and of the team that undoes.
LEMMA LastForwardCounted ==
  ASSUME TypeOK, NEW action, NEW t
  PROVE  LET i == LastForwardOf(action, t) IN i = 0 \/ (i \in Counted /\ log[i].team = t)
<1> DEFINE S == {j \in LiveForwards : log[j].action = action /\ log[j].team = t}
<1>1. S \in SUBSET (1..Len(log)) /\ Len(log) \in Nat
  BY LiveForwardsInLog, LenProperties DEF TypeOK
<1>2. S \subseteq {j \in Counted : log[j].team = t}
  BY DEF LiveForwards, Counted
<1>3. LastForwardOf(action, t) = Latest(S)
  BY DEF LastForwardOf
<1> HIDE DEF S
<1>4. CASE S = {}
  BY <1>3, <1>4 DEF Latest
<1>5. CASE S # {}
  BY <1>1, <1>2, <1>3, <1>5, LatestExists
<1> QED
  BY <1>4, <1>5

\* Without rotation no record is ever discarded.
LEMMA StepRotates ==
  ASSUME RotationDrops = {0}, dropped = 0, [Next]_vars
  PROVE  dropped' = 0
<1>1. ASSUME NEW n \in RotationDrops, dropped' = Rotated(n) PROVE dropped' = 0
  BY <1>1 DEF Rotated
<1>2. ASSUME NEW action, NEW t, NEW x, NEW y, NEW n \in RotationDrops,
             UndoRequest(action, t, x, y, n)
      PROVE  dropped' = 0
  BY <1>1, <1>2 DEF UndoRequest, UndoPoint, RetractPoint, RevokeSet, CancelTimeout, AuditUndo
<1>3. CASE Point
  BY <1>1, <1>3 DEF Point, AddPoint, RecoverPoint, AuditForward
<1>4. CASE OtherForward
  BY <1>1, <1>4 DEF OtherForward, AwardSet, CallTimeout, ToggleServe, AuditForward, AuditOther
<1>5. CASE UndoStep
  BY <1>2, <1>5 DEF UndoStep, UndoLast, UndoOne
<1>6. CASE Edit
  BY <1>1, <1>6 DEF Edit, SetScore, SetSets, AuditOther
<1>7. CASE Manage
  BY <1>1, <1>7 DEF Manage, SetRules, ReinitSession, StartMatch, Reset, AuditOther, trail
<1>8. CASE (\E t \in Team : PairExpires(t)) \/ UNCHANGED vars
  BY <1>8 DEF PairExpires, vars, trail
<1> QED
  BY <1>3, <1>4, <1>5, <1>6, <1>7, <1>8 DEF Next

-----------------------------------------------------------------------------
\* Each request in turn.

LEMMA AddPointCounts ==
  ASSUME TypeOK, PairsInLog, NEW t \in Team, NEW tag \in Tags, NEW ok,
         NEW n \in RotationDrops, AddPoint(t, tag, ok, n)
  PROVE  PairsInLog' /\ CountMoves
<1> DEFINE seed == IF ok THEN ForwardSeed(Len(log) + 1) ELSE NoPair
           p == IF RapidTaps THEN seed ELSE NoPair
<1>1. log' \in Seq(Record)
  BY AddPointType DEF TypeOK
<1>2. /\ CountMoves /\ Concerns(log, log', t)
      /\ ok => /\ Len(log') = Len(log) + 1
               /\ log'[Len(log) + 1] = Forward("add_point", t, tag)
  BY AuditForwardCounts DEF AddPoint, Undoable
<1>3. Len(log) \in Nat
  BY LenProperties DEF TypeOK
<1>4. PairIn(log', t, p)
  <2>1. CASE ok /\ RapidTaps
    <3>1. p = ForwardSeed(Len(log) + 1)
      BY <2>1
    <3>2. PairIn(log', t, ForwardSeed(Len(log) + 1))
      BY <1>2, <1>3, <2>1 DEF PairIn, ForwardSeed, Forward
    <3> QED
      BY <3>1, <3>2
  <2>2. CASE ~(ok /\ RapidTaps)
    BY <2>2, NoPairIn
  <2> QED
    BY <2>1, <2>2
<1>5. rapid' = [rapid EXCEPT ![t] = p]
  BY DEF AddPoint, Seeded
<1> HIDE DEF p
<1> QED
  BY <1>1, <1>2, <1>4, <1>5, PairsAfter

LEMMA UndoPointCounts ==
  ASSUME TypeOK, PairsInLog, NEW t \in Team, NEW okPop, NEW okAppend \in AppendOutcomes,
         NEW n \in RotationDrops, UndoPoint(t, okPop, okAppend, n)
  PROVE  PairsInLog' /\ CountMoves
<1> DEFINE i == LastForwardOf("add_point", t)
           k == IF okPop THEN i ELSE 0
           seed == IF okAppend THEN UndoSeed(Len(log) + 1, k) ELSE NoPair
           p == IF RapidTaps THEN seed ELSE NoPair
<1>1. log' \in Seq(Record)
  BY ScoreboardAssumption, UndoPointType DEF TypeOK
<1>2. i = 0 \/ (i \in Counted /\ log[i].team = t)
  BY LastForwardCounted
<1>3. AuditUndo("add_point", t, i, okPop, okAppend, n) /\ rapid' = [rapid EXCEPT ![t] = p]
  BY DEF UndoPoint, Seeded
<1> HIDE DEF i
<1>4. CountMoves /\ UndoLogged(t, i, okPop, okAppend)
  <2>1. "add_point" \in Undoable
    BY DEF Undoable
  <2> QED
    BY <1>2, <1>3, <2>1, AuditUndoCounts
<1>5. Len(log) \in Nat
  BY LenProperties DEF TypeOK
<1>6. PairIn(log', t, p)
  <2>1. CASE okAppend /\ RapidTaps
    <3>1. p = UndoSeed(Len(log) + 1, k)
      BY <2>1
    <3>2. k # 0 => okPop /\ k = i /\ i # 0
      OBVIOUS
    <3> HIDE DEF k
    <3>3. PairIn(log', t, UndoSeed(Len(log) + 1, k))
      BY <1>4, <1>5, <2>1, <3>2 DEF PairIn, UndoSeed, UndoLogged
    <3> QED
      BY <3>1, <3>3
  <2>2. CASE ~(okAppend /\ RapidTaps)
    BY <2>2, NoPairIn
  <2> QED
    BY <2>1, <2>2
<1> HIDE DEF p
<1> QED
  BY <1>1, <1>3, <1>4, <1>6, PairsAfter DEF UndoLogged

LEMMA RetractPointCounts ==
  ASSUME TypeOK, PairsInLog, NEW t \in Team, NEW okPop, NEW n \in RotationDrops,
         RetractPoint(t, okPop, n)
  PROVE  PairsInLog' /\ CountMoves
<1> DEFINE i == rapid[t].at
<1>1. log \in Seq(Record) /\ log' \in Seq(Record)
  BY RetractPointType DEF TypeOK
<1>2. i \in 1..Len(log) /\ log[i].visible /\ ~log[i].undo /\ log[i].team = t
  BY DEF RetractPoint, PairsWithForward, PairsInLog, PairIn
<1>3. i \in Counted
  BY <1>1, <1>2, LenProperties DEF Counted
<1>4. /\ log' = IF okPop THEN Tombstone(log, i) ELSE log
      /\ count' = IF okPop THEN CountDown ELSE count
      /\ rapid' = [rapid EXCEPT ![t] = NoPair]
  BY DEF RetractPoint
<1> HIDE DEF i
<1>5. CASE okPop
  <2>1. log' = Tombstone(log, i) /\ count' = CountDown
    BY <1>4, <1>5
  <2>2. Counted' = Counted \ {i}
    BY <1>1, <2>1, TombstoneEffect, LenProperties DEF Counted
  <2>3. Concerns(log, log', t)
    BY <1>1, <1>2, <2>1, TombstoneConcerns
  <2>4. CountMoves
    BY <1>3, <2>1, <2>2 DEF CountMoves
  <2> QED
    BY <1>1, <1>4, <2>3, <2>4, NoPairIn, PairsAfter
<1>6. CASE ~okPop
  <2>1. log' = log /\ count' = count
    BY <1>4, <1>6
  <2>2. Counted' = Counted
    BY <2>1 DEF Counted
  <2>3. Concerns(log, log', t)
    BY <1>1, <2>1, LenProperties DEF Concerns
  <2>4. CountMoves
    BY <2>1, <2>2 DEF CountMoves
  <2> QED
    BY <1>1, <1>4, <2>3, <2>4, NoPairIn, PairsAfter
<1> QED
  BY <1>5, <1>6

LEMMA RecoverPointCounts ==
  ASSUME TypeOK, PairsInLog, NEW t \in Team, NEW tag \in Tags, NEW okPop, NEW okRestore,
         NEW n \in RotationDrops, RecoverPoint(t, tag, okPop, okRestore, n)
  PROVE  PairsInLog' /\ CountMoves
<1> DEFINE i == rapid[t].at
           k == rapid[t].popped
           forgot == IF okPop THEN Tombstone(log, i) ELSE log
           restores == okPop /\ okRestore /\ k # 0
<1>1. log \in Seq(Record) /\ Len(log) \in Nat /\ log' \in Seq(Record)
  BY RecoverPointType, LenProperties DEF TypeOK
<1>2. /\ i \in 1..Len(log) /\ log[i].undo /\ log[i].team = t
      /\ k # 0 => k \in 1..Len(log) /\ ~log[k].visible /\ ~log[k].undo /\ log[k].team = t
  BY DEF RecoverPoint, PairsWithUndo, PairsInLog, PairIn
<1>3. /\ log' = IF restores THEN Restore(forgot, k) ELSE forgot
      /\ count' = IF restores THEN count + 1 ELSE count
      /\ rapid' = [rapid EXCEPT ![t] = NoPair]
  BY DEF RecoverPoint
<1> HIDE DEF i, k
<1>4. /\ forgot \in Seq(Record) /\ Len(forgot) = Len(log) /\ Concerns(log, forgot, t)
      /\ \A j \in 1..Len(log) :
           /\ forgot[j].undo = log[j].undo /\ forgot[j].team = log[j].team
           /\ ~log[j].undo => forgot[j].visible = log[j].visible
  <2>1. CASE okPop
    <3>1. forgot = Tombstone(log, i)
      BY <2>1
    <3> HIDE DEF forgot
    <3>2. Concerns(log, forgot, t)
      BY <1>1, <1>2, <3>1, TombstoneConcerns
    <3>3. forgot \in Seq(Record) /\ Len(forgot) = Len(log)
      BY <1>1, <3>1, TombstoneEffect
    <3>4. \A j \in 1..Len(log) : forgot[j].undo = log[j].undo /\ forgot[j].team = log[j].team
                                 /\ (j # i => forgot[j] = log[j])
      BY <1>1, <3>1, TombstoneEffect
    <3> QED
      BY <1>2, <3>2, <3>3, <3>4
  <2>2. CASE ~okPop
    <3>1. forgot = log
      BY <2>2
    <3>2. Concerns(log, log, t)
      BY <1>1 DEF Concerns
    <3> QED
      BY <1>1, <3>1, <3>2
  <2> QED
    BY <2>1, <2>2
<1>5. restores => k # 0
  OBVIOUS
<1> HIDE DEF forgot, restores
<1>6. CASE restores
  <2>1. log' = Restore(forgot, k) /\ count' = count + 1
    BY <1>3, <1>6
  <2>2. k \in 1..Len(log) /\ ~log[k].visible /\ ~log[k].undo /\ log[k].team = t
    BY <1>2, <1>5, <1>6
  <2>3. /\ Len(log') = Len(log)
        /\ \A j \in 1..Len(log) : /\ log'[j].undo = forgot[j].undo
                                  /\ log'[j].visible <=> (forgot[j].visible \/ j = k)
    BY <1>1, <1>4, <2>1, RestoreEffect
  <2>4. Counted' = Counted \cup {k} /\ k \notin Counted
    BY <1>1, <1>4, <2>2, <2>3, LenProperties DEF Counted
  <2>5. Concerns(forgot, log', t)
    BY <1>4, <2>1, <2>2, RestoreConcerns
  <2>6. Concerns(log, log', t)
    BY <1>1, <1>4, <2>5, ConcernsTransitive
  <2>7. CountMoves
    BY <2>1, <2>4 DEF CountMoves
  <2> QED
    BY <1>1, <1>3, <2>6, <2>7, NoPairIn, PairsAfter
<1>7. CASE ~restores
  <2>1. log' = forgot /\ count' = count
    BY <1>3, <1>7
  <2>2. Counted' = Counted
    BY <1>1, <1>4, <2>1, LenProperties DEF Counted
  <2>3. CountMoves
    BY <2>1, <2>2 DEF CountMoves
  <2> QED
    BY <1>1, <1>3, <1>4, <2>1, <2>3, NoPairIn, PairsAfter
<1> QED
  BY <1>6, <1>7

LEMMA OtherRequestsCount ==
  ASSUME TypeOK, NEW t \in Team, NEW x, NEW y \in AppendOutcomes, NEW n \in RotationDrops,
         \/ AwardSet(t, x, n) \/ CallTimeout(t, x, n)
         \/ RevokeSet(t, x, y, n) \/ CancelTimeout(t, x, y, n)
  PROVE  PairsInLog' /\ CountMoves
<1>1. CASE AwardSet(t, x, n) \/ CallTimeout(t, x, n)
  BY <1>1, AuditForwardCounts, InvalidatedPairs, ScoreboardAssumption
     DEF AwardSet, CallTimeout, Undoable
<1>2. CASE RevokeSet(t, x, y, n) \/ CancelTimeout(t, x, y, n)
  BY <1>2, LastForwardCounted, AuditUndoCounts, InvalidatedPairs
     DEF RevokeSet, CancelTimeout, Undoable, UndoLogged
<1> QED
  BY <1>1, <1>2

\* A request that writes no record of these.
LEMMA SilentCounts ==
  ASSUME log' = log, count' = count
  PROVE  CountMoves
<1>1. Counted' = Counted
  BY DEF Counted
<1> QED
  BY <1>1 DEF CountMoves

LEMMA UndoRequestCounts ==
  ASSUME TypeOK, PairsInLog, NEW action, NEW t \in Team, NEW okPop,
         NEW okAppend \in AppendOutcomes, NEW n \in RotationDrops,
         UndoRequest(action, t, okPop, okAppend, n)
  PROVE  PairsInLog' /\ CountMoves
BY UndoPointCounts, RetractPointCounts, OtherRequestsCount DEF UndoRequest

LEMMA StepCounts ==
  ASSUME TypeOK, PairsInLog, [Next]_vars
  PROVE  PairsInLog' /\ (CountMoves \/ \E ok \in ClearOutcomes : Reset(ok))
<1>1. CASE Point
  BY <1>1, AddPointCounts, RecoverPointCounts DEF Point
<1>2. CASE OtherForward
  <2>1. ASSUME NEW t \in Team, NEW n \in RotationDrops, ToggleServe(t, n)
        PROVE  PairsInLog' /\ CountMoves
    BY <2>1, SilentCounts, InvalidatedPairs DEF ToggleServe, AuditOther
  <2> QED
    BY <1>2, <2>1, OtherRequestsCount DEF OtherForward
<1>3. CASE UndoStep
  <2>1. ASSUME NEW ok1, NEW ok2 \in AppendOutcomes, NEW n \in RotationDrops,
               UndoLast(ok1, ok2, n)
        PROVE  PairsInLog' /\ CountMoves
    <3>1. log[LastForward].team \in Team
      <4>1. LastForward \in 1..Len(log)
        BY <2>1, LiveForwardsInLog DEF UndoLast, LastForward, Latest
      <4>2. log[LastForward] \in Record
        BY <4>1, ElementOfSeq DEF TypeOK
      <4> QED
        BY <4>2 DEF Record
    <3> QED
      BY <2>1, <3>1, UndoRequestCounts DEF UndoLast
  <2> QED
    BY <1>3, <2>1, UndoRequestCounts DEF UndoStep, UndoOne
<1>4. CASE Edit
  BY <1>4, SilentCounts, InvalidatedPairs DEF Edit, SetScore, SetSets, AuditOther
<1>5. CASE Manage
  <2>1. ASSUME NEW r, NEW n, SetRules(r, n) \/ StartMatch(n)
        PROVE  PairsInLog' /\ CountMoves
    BY <2>1, SilentCounts, InvalidatedPairs DEF SetRules, StartMatch, AuditOther
  <2>2. ASSUME NEW r, ReinitSession(r)
        PROVE  PairsInLog' /\ CountMoves
    BY <2>2, SilentCounts DEF ReinitSession, trail, PairsInLog
  <2>3. ASSUME NEW ok, Reset(ok) PROVE PairsInLog'
    BY <2>3, InvalidatedPairs DEF Reset
  <2> QED
    BY <1>5, <2>1, <2>2, <2>3 DEF Manage
<1>6. CASE \E t \in Team : PairExpires(t)
  <2>1. PICK t \in Team : rapid' = [rapid EXCEPT ![t] = NoPair] /\ log' = log /\ count' = count
    BY <1>6 DEF PairExpires, trail
  <2>2. log' \in Seq(Record) /\ Concerns(log, log', t)
    BY <2>1, LenProperties DEF Concerns, TypeOK
  <2> QED
    BY <2>1, <2>2, NoPairIn, PairsAfter, SilentCounts
<1>7. CASE UNCHANGED vars
  BY <1>7, SilentCounts DEF vars, PairsInLog
<1> QED
  BY <1>1, <1>2, <1>3, <1>4, <1>5, <1>6, <1>7 DEF Next

LEMMA StartsEmpty ==
  ASSUME Init
  PROVE  TypeOK /\ PairsInLog /\ Counted = {} /\ count = 0 /\ dropped = 0
BY EmptySeq, InitType, NoPairIn DEF Init, PairsInLog, Counted

LEMMA CountedCoversLive ==
  ASSUME TypeOK
  PROVE  /\ Cardinality(LiveForwards) <= Cardinality(Counted)
         /\ Cardinality(LiveForwards) \in Nat
         /\ dropped = 0 => LiveForwards = Counted
<1>1. LiveForwards \in SUBSET Counted
  BY DEF LiveForwards, Counted
<1>2. Counted \subseteq 1..Len(log) /\ Len(log) \in Nat
  BY CountedFinite, LenProperties DEF TypeOK
<1>3. dropped = 0 => LiveForwards = Counted
  BY <1>2 DEF LiveForwards, Counted
<1> QED
  BY <1>1, <1>3, CountedFinite, FS_Subset, FS_CardinalityType

\* As long as a reset does remove the log, can_undo never hides an undo the log
\* could serve: whatever writes fail, whatever is rotated away, in any order of
\* taps, undos and edits.
THEOREM UndoStaysReachable ==
  ASSUME ClearOutcomes = {TRUE}
  PROVE  Spec => []UndoNeverHidden
<1> DEFINE Inv == TypeOK /\ PairsInLog /\ count >= Cardinality(Counted)
<1>1. Init => Inv
  BY StartsEmpty, FS_EmptySet
<1>2. Inv /\ [Next]_vars => Inv'
  <2> SUFFICES ASSUME Inv, [Next]_vars PROVE Inv'
    OBVIOUS
  <2>1. TypeOK'
    BY StepType
  <2>2. CASE CountMoves
    BY <2>1, <2>2, CountFollows, StepCounts
  <2>3. CASE Reset(TRUE)
    <3>1. Counted' = {} /\ count' = 0
      BY <2>3, EmptySeq DEF Reset, Counted
    <3> QED
      BY <2>1, <2>3, <3>1, FS_EmptySet, InvalidatedPairs DEF Reset
  <2> QED
    BY <2>2, <2>3, StepCounts
<1>3. Inv => UndoNeverHidden
  <2> SUFFICES ASSUME Inv PROVE count >= Cardinality(LiveForwards)
    BY DEF UndoNeverHidden
  <2> QED
    BY CountedCoversLive, CountedFinite DEF TypeOK
<1> QED
  BY <1>1, <1>2, <1>3, PTL DEF Spec

\* Where the log's writes succeed and nothing is rotated away, the cached count is
\* exact, through every mixture of undos, of quick ones and of recovered points.
THEOREM CountIsExact ==
  ASSUME AppendOutcomes = {TRUE}, ClearOutcomes = {TRUE}, RotationDrops = {0}
  PROVE  Spec => []CountMatchesLog
<1> DEFINE Inv == TypeOK /\ PairsInLog /\ count = Cardinality(Counted) /\ dropped = 0
<1>1. Init => Inv
  BY StartsEmpty, FS_EmptySet
<1>2. Inv /\ [Next]_vars => Inv'
  <2> SUFFICES ASSUME Inv, [Next]_vars PROVE Inv'
    OBVIOUS
  <2>1. TypeOK'
    BY StepType
  <2>2. dropped' = 0
    BY StepRotates
  <2>3. CASE CountMoves
    BY <2>1, <2>2, <2>3, CountFollows, StepCounts
  <2>4. CASE Reset(TRUE)
    <3>1. Counted' = {} /\ count' = 0
      BY <2>4, EmptySeq DEF Reset, Counted
    <3> QED
      BY <2>1, <2>2, <2>4, <3>1, FS_EmptySet, InvalidatedPairs DEF Reset
  <2> QED
    BY <2>3, <2>4, StepCounts
<1>3. Inv => CountMatchesLog
  BY CountedCoversLive DEF CountMatchesLog
<1> QED
  BY <1>1, <1>2, <1>3, PTL DEF Spec

\* A remembered tap is the one an ordinary undo of its team would take back, and a
\* point remembered for recovery is still hidden, whatever the rival taps meanwhile
\* and whatever is written, fails or is rotated away.
THEOREM PairsStayRight == Spec => []PairsNameLatest
<1> DEFINE Inv == TypeOK /\ PairsInLog
<1>1. Init => Inv
  BY StartsEmpty
<1>2. Inv /\ [Next]_vars => Inv'
  BY StepType, StepCounts
<1>3. Inv => PairsNameLatest
  <2> SUFFICES ASSUME Inv, NEW t \in Team
               PROVE  /\ PairsWithForward(t) /\ rapid[t].at > dropped
                           => rapid[t].at = LastForwardOf("add_point", t)
                      /\ rapid[t].kind = "undo" /\ rapid[t].popped # 0
                           => rapid[t].popped \notin LiveForwards
    BY DEF PairsNameLatest
  <2>1. PairIn(log, t, rapid[t])
    BY DEF PairsInLog
  <2>2. ASSUME PairsWithForward(t), rapid[t].at > dropped
        PROVE  rapid[t].at = LastForwardOf("add_point", t)
    <3> DEFINE S == {i \in LiveForwards : log[i].action = "add_point" /\ log[i].team = t}
               at == rapid[t].at
    <3>1. /\ at \in 1..Len(log) /\ log[at].visible /\ ~log[at].undo
          /\ log[at].team = t /\ log[at].action = "add_point"
          /\ \A j \in 1..Len(log) : j > at => log[j].team # t
      BY <2>1, <2>2 DEF PairIn, PairsWithForward
    <3>2. Len(log) \in Nat /\ S \in SUBSET (1..Len(log))
      BY LiveForwardsInLog, LenProperties DEF TypeOK
    <3>3. at \in S
      BY <2>2, <3>1, LenProperties DEF LiveForwards, TypeOK
    <3>4. \A j \in S : ~(j > at)
      BY <3>1, <3>2
    <3>5. LastForwardOf("add_point", t) = Latest(S)
      BY DEF LastForwardOf
    <3> HIDE DEF S, at
    <3>6. Latest(S) \in S /\ at <= Latest(S)
      BY <3>2, <3>3, LatestExists
    <3>7. at \in Nat
      BY <3>1, <3>2
    <3>8. Latest(S) \in 1..Len(log)
      BY <3>2, <3>6
    <3>9. Latest(S) \in Nat
      BY <3>2, <3>8
    <3>10. at = Latest(S)
      <4>1. ~(Latest(S) > at)
        BY <3>4, <3>6
      <4> HIDE DEF LastForwardOf
      <4> QED
        BY <3>6, <3>7, <3>9, <4>1
    <3> QED
      BY <3>5, <3>10 DEF at
  <2>3. rapid[t].kind = "undo" /\ rapid[t].popped # 0 => rapid[t].popped \notin LiveForwards
    BY <2>1 DEF PairIn, LiveForwards
  <2> QED
    BY <2>2, <2>3
<1> QED
  BY <1>1, <1>2, <1>3, PTL DEF Spec

-----------------------------------------------------------------------------
\* Induction, as a fact about sets of numbers.

LEMMA LeastNatural ==
  ASSUME NEW S, S \subseteq Nat, S # {}
  PROVE  \E m \in S : \A k \in S : m <= k
<1> DEFINE R == OpToRel(<, Nat)
<1>1. \A i, j \in Nat : i < j => <<i, j>> \in R
  BY DEF OpToRel
<1>2. IsWellFoundedOn(R, Nat)
  BY NatLessThanWellFounded
<1> HIDE DEF R
<1>3. PICK m \in S : \A k \in S : <<k, m>> \notin R
  BY <1>2, WFMin
<1>4. \A k \in S : ~(k < m)
  BY <1>1, <1>3
<1> QED
  BY <1>4

LEMMA Induction ==
  ASSUME NEW S, 0 \in S, \A n \in Nat : n \in S => n + 1 \in S
  PROVE  \A n \in Nat : n \in S
<1> SUFFICES ASSUME Nat \ S # {} PROVE FALSE
  OBVIOUS
<1>1. PICK m \in Nat \ S : \A k \in Nat \ S : m <= k
  BY LeastNatural
<1>2. m # 0 /\ m - 1 \in Nat
  OBVIOUS
<1>3. m - 1 \in S
  BY <1>1, <1>2
<1> QED
  BY <1>2, <1>3, m - 1 + 1 = m

\* A value for each step from 0 to N, each computed from the one before.
Runs(f, start, step, m) == f[0] = start /\ \A n \in 1..m : f[n] = step[n][f[n - 1]]

LEMMA RecursionExists ==
  ASSUME NEW V, NEW start \in V, NEW N \in Nat, NEW step \in [1..N -> [V -> V]]
  PROVE  \E f \in [0..N -> V] : Runs(f, start, step, N)
<1> DEFINE S == {m \in Nat : m <= N => \E f \in [0..m -> V] : Runs(f, start, step, m)}
<1>1. 0 \in S
  <2> DEFINE f == [n \in 0..0 |-> start]
  <2>1. f \in [0..0 -> V] /\ Runs(f, start, step, 0)
    BY DEF Runs
  <2> QED
    BY <2>1
<1>2. ASSUME NEW m \in Nat, m \in S PROVE m + 1 \in S
  <2> SUFFICES ASSUME m + 1 <= N PROVE \E g \in [0..(m + 1) -> V] : Runs(g, start, step, m + 1)
    OBVIOUS
  <2>1. PICK f \in [0..m -> V] : Runs(f, start, step, m)
    BY <1>2
  <2> DEFINE v == step[m + 1][f[m]]
             g == [n \in 0..(m + 1) |-> IF n = m + 1 THEN v ELSE f[n]]
  <2>2. v \in V
    <3>1. m + 1 \in 1..N /\ f[m] \in V
      OBVIOUS
    <3> QED
      BY <3>1
  <2>3. g \in [0..(m + 1) -> V]
    BY <2>2
  <2>4. /\ g[0] = f[0] /\ g[m + 1] = v /\ g[m] = f[m]
        /\ \A n \in 1..m : g[n] = f[n] /\ g[n - 1] = f[n - 1]
    OBVIOUS
  <2> HIDE DEF g
  <2>5. ASSUME NEW n \in 1..(m + 1) PROVE g[n] = step[n][g[n - 1]]
    <3>1. CASE n = m + 1
      BY <2>4, <3>1
    <3>2. CASE n \in 1..m
      BY <2>1, <2>4, <3>2 DEF Runs
    <3> QED
      BY <3>1, <3>2
  <2> QED
    BY <2>1, <2>3, <2>4, <2>5 DEF Runs
<1> HIDE DEF S
<1>3. N \in S
  BY <1>1, <1>2, Induction
<1> QED
  BY <1>3 DEF S

-----------------------------------------------------------------------------
\* A log played again.

LEMMA InitialLimits ==
  /\ InitialRules \in Rules /\ InitialRules.sets \in SetNo
  /\ InitialRules.points \in Nat \ {0} /\ InitialRules.lastPoints \in Nat \ {0}
BY ScoreboardAssumption DEF Rules

LEMMA TallyType ==
  ASSUME NEW b \in Board, NEW set \in SetNo
  PROVE  Tally(b, set) \in Tallies
BY DEF Tally, Tallies, Board

LEMMA StartType == Start \in Position
<1>1. <<>> \in Seq(Tallies) /\ 1 \in SetNo
  BY EmptySeq DEF SetNo
<1> QED
  BY <1>1, ResetBoardType DEF Start, Position

LEMMA BoardAfterType ==
  ASSUME NEW p \in Position, NEW r \in Record
  PROVE  BoardAfter(p, r) \in Board
<1>1. p.board \in Board /\ p.set \in SetNo /\ r.team \in Team /\ r.action \in Undoable
  BY DEF Position, Record
<1>2. CASE r.action = "add_point"
  <2>1. BoardAfter(p, r) = AddGame(p.board, r.team, p.set, InitialRules)
    BY <1>2 DEF BoardAfter
  <2> QED
    BY <1>1, <2>1, AddGameType, InitialLimits
<1>3. CASE r.action = "add_set"
  <2>1. BoardAfter(p, r) = AddSet(p.board, r.team, InitialRules.sets)
    BY <1>3 DEF BoardAfter
  <2> QED
    BY <1>1, <2>1, AddSetType
<1>4. CASE r.action = "add_timeout"
  <2>1. BoardAfter(p, r) = AddTimeout(p.board, r.team)
    BY <1>4 DEF BoardAfter
  <2> QED
    BY <1>1, <2>1, AddTimeoutType
<1> QED
  BY <1>1, <1>2, <1>3, <1>4 DEF Undoable

LEMMA ReplayEffect ==
  ASSUME NEW p \in Position, NEW r \in Record
  PROVE  LET b == BoardAfter(p, r)
             set == ComputeCurrentSet(b, InitialRules.sets)
         IN  /\ set \in SetNo
             /\ Replay(r)[p] \in Position
             /\ Replay(r)[p] = [board |-> Save(b, set), set |-> set,
                                past |-> Append(p.past, Tally(p.board, p.set))]
<1> DEFINE b == BoardAfter(p, r)
           set == ComputeCurrentSet(b, InitialRules.sets)
           q == [board |-> Save(b, set), set |-> set, past |-> Append(p.past, Tally(p.board, p.set))]
<1>1. Replay(r)[p] = q
  BY DEF Replay
<1>2. b \in Board
  BY BoardAfterType
<1> HIDE DEF b
<1>3. set \in SetNo
  BY <1>2, InitialLimits, CurrentSetType
<1> HIDE DEF set
<1>4. Save(b, set) \in Board
  BY <1>2, <1>3, SaveType
<1>5. Append(p.past, Tally(p.board, p.set)) \in Seq(Tallies)
  BY TallyType, AppendProperties DEF Position
<1>6. q \in Position
  BY <1>3, <1>4, <1>5 DEF Position
<1> QED
  BY <1>1, <1>3, <1>6 DEF set, b

\* One step of a replay.
Step(p, r) == IF Stands(r) THEN Replay(r)[p] ELSE p

LEMMA PlayedSteps ==
  ASSUME NEW l \in Seq(Record)
  PROVE  /\ Played(l) \in [0..Len(l) -> Position]
         /\ Played(l)[0] = Start
         /\ \A n \in 1..Len(l) : Played(l)[n] = Step(Played(l)[n - 1], l[n])
<1> DEFINE N == Len(l)
           Body(f) == [n \in 0..N |-> IF n = 0 THEN Start
                                      ELSE IF Stands(l[n]) THEN Replay(l[n])[f[n - 1]] ELSE f[n - 1]]
           step == [n \in 1..N |-> [p \in Position |-> Step(p, l[n])]]
<1>1. N \in Nat /\ \A n \in 1..N : l[n] \in Record
  BY LenProperties, ElementOfSeq
<1>2. \A n \in 1..N, p \in Position : Step(p, l[n]) \in Position
  BY <1>1, ReplayEffect DEF Step
<1>3. step \in [1..N -> [Position -> Position]] /\ \A n \in 1..N, p \in Position : step[n][p] = Step(p, l[n])
  BY <1>1, <1>2
<1>4. \A f, n : n \in 0..N => Body(f)[n] = IF n = 0 THEN Start ELSE Step(f[n - 1], l[n])
  BY DEF Step
<1>5. \A f : DOMAIN Body(f) = 0..N /\ Body(f) = [n \in 0..N |-> Body(f)[n]]
  OBVIOUS
<1>6. Played(l) = CHOOSE g : g = Body(g)
  BY DEF Played
<1> HIDE DEF N, step, Body
<1>7. PICK f \in [0..N -> Position] : Runs(f, Start, step, N)
  BY <1>1, <1>3, StartType, RecursionExists
<1>8. f = Body(f)
  <2>1. ASSUME NEW n \in 0..N PROVE f[n] = Body(f)[n]
    <3>1. CASE n = 0
      BY <1>4, <1>7, <3>1 DEF Runs
    <3>2. CASE n \in 1..N
      <4>1. f[n - 1] \in Position
        BY <1>1, <3>2
      <4>2. f[n] = Step(f[n - 1], l[n])
        BY <1>3, <1>7, <3>2, <4>1 DEF Runs
      <4>3. n # 0
        BY <3>2
      <4> QED
        BY <1>4, <4>2, <4>3
    <3> QED
      BY <1>1, <3>1, <3>2
  <2> QED
    BY <1>5, <2>1
<1> DEFINE g == Played(l)
<1>9. g = Body(g)
  BY <1>6, <1>8
<1> HIDE DEF g
<1>10. g[0] = Start /\ DOMAIN g = 0..N /\ g = [n \in 0..N |-> g[n]]
  BY <1>1, <1>4, <1>5, <1>9
<1>11. ASSUME NEW n \in 1..N PROVE g[n] = Step(g[n - 1], l[n])
  <2>1. n \in 0..N /\ n # 0
    BY <1>1
  <2> QED
    BY <1>4, <1>9, <2>1
<1>12. \A n \in 0..N : g[n] \in Position
  <2> DEFINE S == {n \in Nat : n <= N => g[n] \in Position}
  <2>1. 0 \in S
    BY <1>10, StartType
  <2>2. ASSUME NEW n \in Nat, n \in S PROVE n + 1 \in S
    <3> SUFFICES ASSUME n + 1 <= N PROVE g[n + 1] \in Position
      OBVIOUS
    <3>1. g[n] \in Position /\ n + 1 \in 1..N /\ n + 1 - 1 = n
      BY <1>1, <2>2
    <3>2. g[n + 1] = Step(g[n], l[n + 1])
      BY <1>11, <3>1
    <3> QED
      BY <1>2, <3>1, <3>2
  <2>3. \A n \in Nat : n \in S
    <3> HIDE DEF S
    <3> QED
      BY <2>1, <2>2, Induction
  <2> QED
    BY <1>1, <2>3
<1> QED
  BY <1>10, <1>11, <1>12 DEF g, N
-----------------------------------------------------------------------------
\* Two logs whose records stand alike play alike, and records that do not stand
\* play nothing.

SameAt(l, m, k) ==
  \A i \in 1..k : Stands(l[i]) = Stands(m[i]) /\ (Stands(l[i]) => l[i] = m[i])

LEMMA PlayedAlike ==
  ASSUME NEW l \in Seq(Record), NEW m \in Seq(Record), NEW k \in Nat,
         k <= Len(l), k <= Len(m), SameAt(l, m, k)
  PROVE  \A n \in 0..k : Played(l)[n] = Played(m)[n]
<1> DEFINE S == {n \in Nat : n <= k => Played(l)[n] = Played(m)[n]}
<1>1. Len(l) \in Nat /\ Len(m) \in Nat
  BY LenProperties
<1>2. 0 \in S
  BY PlayedSteps
<1>3. ASSUME NEW n \in Nat, n \in S PROVE n + 1 \in S
  <2> SUFFICES ASSUME n + 1 <= k PROVE Played(l)[n + 1] = Played(m)[n + 1]
    OBVIOUS
  <2>1. n + 1 \in 1..k /\ n + 1 \in 1..Len(l) /\ n + 1 \in 1..Len(m) /\ n + 1 - 1 = n
    BY <1>1
  <2>2. Played(l)[n] = Played(m)[n]
    BY <1>3
  <2>3. Played(l)[n + 1] = Step(Played(l)[n], l[n + 1]) /\ Played(m)[n + 1] = Step(Played(m)[n], m[n + 1])
    BY <2>1, PlayedSteps
  <2>4. Stands(l[n + 1]) = Stands(m[n + 1]) /\ (Stands(l[n + 1]) => l[n + 1] = m[n + 1])
    BY <2>1 DEF SameAt
  <2> QED
    BY <2>2, <2>3, <2>4 DEF Step
<1> HIDE DEF S
<1>4. \A n \in Nat : n \in S
  BY <1>2, <1>3, Induction
<1> QED
  BY <1>4 DEF S

LEMMA PlayedRests ==
  ASSUME NEW l \in Seq(Record), NEW k \in 0..Len(l),
         \A i \in 1..Len(l) : i > k => ~Stands(l[i])
  PROVE  Played(l)[Len(l)] = Played(l)[k]
<1> DEFINE N == Len(l)
           S == {n \in Nat : k + n <= N => Played(l)[k + n] = Played(l)[k]}
<1>1. N \in Nat /\ k \in Nat /\ k <= N
  BY LenProperties
<1>2. 0 \in S
  BY <1>1, k + 0 = k
<1>3. ASSUME NEW n \in Nat, n \in S PROVE n + 1 \in S
  <2> SUFFICES ASSUME k + (n + 1) <= N PROVE Played(l)[k + (n + 1)] = Played(l)[k]
    OBVIOUS
  <2> DEFINE j == k + (n + 1)
  <2>1. j \in 1..N /\ j > k /\ j - 1 = k + n
    BY <1>1
  <2>2. Played(l)[k + n] = Played(l)[k]
    BY <1>1, <1>3
  <2> HIDE DEF j
  <2>3. Played(l)[j] = Step(Played(l)[j - 1], l[j]) /\ ~Stands(l[j])
    BY <2>1, PlayedSteps
  <2> QED
    BY <2>1, <2>2, <2>3 DEF Step, j
<1> HIDE DEF S, N
<1>4. \A n \in Nat : n \in S
  BY <1>2, <1>3, Induction
<1>5. N - k \in S /\ k + (N - k) = N
  BY <1>1, <1>4
<1> QED
  BY <1>1, <1>5 DEF S, N
-----------------------------------------------------------------------------
\* What the scoring rules do to a tally.

\* A match of an even number of sets may stay in its last set when a point decides it.
OddSets == InitialRules.sets \in {1, 3, 5, 7}

Over(b) == MatchFinished(b, InitialRules.sets)
SetOf(b) == ComputeCurrentSet(b, InitialRules.sets)
Won(b, t, set) == SetWonBy(b, t, set, InitialRules)

Raised(f, t, s) == [f EXCEPT ![t][s] = @ + 1]
Lowered(f, t, s) == [f EXCEPT ![t][s] = IF @ > 0 THEN @ - 1 ELSE 0]

LEMMA SetsPlayed ==
  ASSUME OddSets, NEW b \in Board, ~Over(b)
  PROVE  SetOf(b) = b.sets[1] + b.sets[2] + 1
<1> DEFINE x == b.sets[1]
           y == b.sets[2]
           k == InitialRules.sets
<1>1. x \in Nat /\ y \in Nat
  BY DEF Board, Team
<1>2. x < SoftLimit(k) /\ y < SoftLimit(k)
  <2>1. \A t \in Team : b.sets[t] \in Nat /\ SoftLimit(k) \in Nat
    BY DEF Board, SoftLimit, OddSets
  <2>2. \A t \in Team : ~(b.sets[t] >= SoftLimit(k))
    BY DEF Over, MatchFinished
  <2> QED
    BY <2>1, <2>2 DEF Team
<1>3. SetOf(b) = IF x + y + 1 < 1 THEN 1 ELSE IF x + y + 1 > k THEN k ELSE x + y + 1
  BY DEF SetOf, ComputeCurrentSet, Over
<1> HIDE DEF x, y
<1>4. x + y + 1 <= k
  BY <1>1, <1>2 DEF OddSets, SoftLimit
<1>5. k \in Nat
  BY DEF OddSets
<1> QED
  BY <1>1, <1>3, <1>4, <1>5 DEF x, y

\* A set that is won moves the match on to one it has not been in, or ends it.
LEMMA AwardMovesOn ==
  ASSUME OddSets, NEW b \in Board, NEW c \in Board, NEW t \in Team, ~Over(b),
         c.sets = [b.sets EXCEPT ![t] = @ + 1]
  PROVE  SetOf(c) = IF Over(c) THEN SetOf(b) ELSE SetOf(b) + 1
<1> DEFINE x == b.sets[1]
           y == b.sets[2]
           k == InitialRules.sets
<1>1. x \in Nat /\ y \in Nat
  BY DEF Board, Team
<1>2. SetOf(b) = x + y + 1 /\ x + y + 1 \in SetNo
  <2>1. SetOf(b) \in SetNo
    BY CurrentSetType, InitialLimits DEF SetOf
  <2> QED
    BY <2>1, SetsPlayed
<1>3. c.sets[1] + c.sets[2] = x + y + 1
  <2>1. b.sets \in [Team -> Nat] /\ t \in {1, 2}
    BY DEF Board, Team
  <2>2. CASE t = 1
    BY <2>1, <2>2 DEF Team
  <2>3. CASE t = 2
    BY <2>1, <2>3 DEF Team
  <2> QED
    BY <2>1, <2>2, <2>3
<1>4. CASE ~Over(c)
  <2>1. SetOf(c) = c.sets[1] + c.sets[2] + 1
    BY <1>4, SetsPlayed
  <2> QED
    BY <1>1, <1>2, <1>3, <1>4, <2>1
<1>5. CASE Over(c)
  <2>1. SetOf(c) = LET p == c.sets[1] + c.sets[2] + 0 IN IF p < 1 THEN 1 ELSE IF p > k THEN k ELSE p
    BY <1>5 DEF SetOf, ComputeCurrentSet, Over
  <2>2. SetOf(b) <= k /\ k \in Nat
    <3>1. SetOf(b) = LET p == x + y + 1 IN IF p < 1 THEN 1 ELSE IF p > k THEN k ELSE p
      BY DEF SetOf, ComputeCurrentSet, Over
    <3>2. k \in Nat
      BY DEF OddSets
    <3> HIDE DEF x, y, k
    <3> QED
      BY <1>1, <3>1, <3>2
  <2> HIDE DEF x, y
  <2> QED
    BY <1>1, <1>2, <1>3, <1>5, <2>1, <2>2
<1> QED
  BY <1>4, <1>5

LEMMA PointTally ==
  ASSUME NEW b \in Board, NEW t \in Team, NEW set \in SetNo
  PROVE  LET c == AddGame(b, t, set, InitialRules) IN
         /\ c \in Board
         /\ c.score = Raised(b.score, t, set)
         /\ c.sets = IF Won(c, t, set) /\ ~Over(b) THEN [b.sets EXCEPT ![t] = @ + 1] ELSE b.sets
<1> DEFINE served == ChangeServe(b, t, TRUE)
           scored == [served EXCEPT !.score[t][set] = @ + 1]
           c == AddGame(b, t, set, InitialRules)
<1>1. served \in Board /\ served.sets = b.sets /\ served.score = b.score
  BY ServedEffect
<1> HIDE DEF served
<1>2. scored \in Board /\ scored.sets = b.sets /\ scored.score = Raised(b.score, t, set)
  <2>1. served.score[t][set] + 1 \in Nat
    BY <1>1 DEF Board
  <2>2. scored \in Board
    BY <1>1, <2>1, ScoreUpdate
  <2> QED
    BY <1>1, <2>2 DEF Board, Raised
<1>3. c = IF Won(scored, t, set) THEN AddSet(scored, t, InitialRules.sets) ELSE scored
  BY DEF AddGame, served, Won
<1> HIDE DEF scored
<1>4. c \in Board
  BY AddGameType, InitialLimits
<1> HIDE DEF c
<1>5. Won(c, t, set) <=> Won(scored, t, set)
  BY ZenonT(60), <1>2, <1>3, AddSetEffect DEF Won, SetWonBy
<1>6. Over(scored) <=> Over(b)
  BY <1>2, SetsDecide DEF Over
<1>7. CASE Won(scored, t, set)
  BY <1>2, <1>3, <1>4, <1>5, <1>6, <1>7, AddSetEffect DEF c, Over
<1>8. CASE ~Won(scored, t, set)
  BY <1>2, <1>3, <1>4, <1>5, <1>8 DEF c
<1> QED
  BY <1>7, <1>8

LEMMA UndoPointTally ==
  ASSUME NEW b \in Board, NEW t \in Team, NEW set \in SetNo
  PROVE  LET c == UndoGame(b, t, set, InitialRules)
             from == UndoTarget(b, t, set)
             back == Unscored(b, t, set)
         IN
         /\ c \in Board /\ back \in Board /\ from \in SetNo
         /\ c.score = Lowered(b.score, t, from) /\ back.score = c.score
         /\ UnwinsSet(b, t, set, InitialRules) <=> Won(b, t, from) /\ ~Won(c, t, from)
         /\ c.sets = IF UnwinsSet(b, t, set, InitialRules)
                     THEN [b.sets EXCEPT ![t] = IF @ > 0 THEN @ - 1 ELSE 0] ELSE b.sets
<1> DEFINE served == ChangeServe(b, t, TRUE)
           from == UndoTarget(b, t, set)
           back == Unscored(b, t, set)
           c == UndoGame(b, t, set, InitialRules)
           unwins == UnwinsSet(b, t, set, InitialRules)
<1>1. served \in Board /\ served.sets = b.sets /\ served.score = b.score
  BY ServedEffect
<1>2. back \in Board /\ c \in Board /\ from \in SetNo
  BY UnscoredType, UndoGameType, UndoTargetType, InitialLimits
<1>3. back = [served EXCEPT !.score[t][from] = IF @ > 0 THEN @ - 1 ELSE 0]
  BY DEF Unscored
<1>4. c = IF unwins THEN UndoSet(back, t) ELSE back
  BY DEF UndoGame
<1>5. unwins <=> Won(b, t, from) /\ ~Won(back, t, from)
  BY DEF UnwinsSet, Won
<1> HIDE DEF served, from, back, c, unwins
<1>6. back.sets = b.sets /\ back.score = Lowered(b.score, t, from)
  BY <1>1, <1>3 DEF Board, Lowered
<1>7. /\ UndoSet(back, t).score = back.score
      /\ UndoSet(back, t).sets = [back.sets EXCEPT ![t] = IF @ > 0 THEN @ - 1 ELSE 0]
  BY <1>2 DEF UndoSet, Board
<1>8. c.score = back.score
  BY <1>4, <1>7
<1>9. Won(c, t, from) <=> Won(back, t, from)
  BY <1>8 DEF Won, SetWonBy
<1>10. c.sets = IF unwins THEN [b.sets EXCEPT ![t] = IF @ > 0 THEN @ - 1 ELSE 0] ELSE b.sets
  BY <1>4, <1>6, <1>7
<1> QED
  BY <1>2, <1>5, <1>6, <1>8, <1>9, <1>10 DEF c, back, from, unwins

LEMMA TimeoutTally ==
  ASSUME NEW b \in Board, NEW t \in Team
  PROVE  /\ AddTimeout(b, t).sets = b.sets /\ AddTimeout(b, t).score = b.score
         /\ UndoTimeout(b, t).sets = b.sets /\ UndoTimeout(b, t).score = b.score
BY DEF AddTimeout, UndoTimeout, Board

-----------------------------------------------------------------------------
\* Nobody has scored in a set that is yet to be played, and nobody has won the one
\* that is.
Sound(b, set) ==
  /\ set = SetOf(b)
  /\ \A t \in Team, s \in SetNo : s > set => b.score[t][s] = 0
  /\ ~Over(b) => \A t \in Team : ~Won(b, t, set)

LEMMA SoundCopies ==
  ASSUME NEW b, NEW c, NEW set, c.sets = b.sets, c.score = b.score
  PROVE  Sound(b, set) <=> Sound(c, set)
<1>1. SetOf(b) = SetOf(c) /\ (Over(b) <=> Over(c))
  BY SetsDecide DEF SetOf, Over
<1>2. \A t \in Team : Won(b, t, set) <=> Won(c, t, set)
  BY DEF Won, SetWonBy
<1> QED
  BY <1>1, <1>2 DEF Sound

LEMMA UnplayedSet ==
  ASSUME NEW b \in Board, NEW set \in SetNo, NEW t \in Team, b.score[t][set] = 0
  PROVE  ~Won(b, t, set)
<1>1. GameLimit(InitialRules, set) \in Nat \ {0}
  BY InitialLimits DEF GameLimit
<1> QED
  BY <1>1 DEF Won, SetWonBy, IsWinningScore

LEMMA StartSound ==
  ASSUME OddSets
  PROVE  Sound(Start.board, Start.set)
<1> DEFINE b == ResetBoard
<1>1. Start.board = b /\ Start.set = 1
  BY DEF Start
<1>2. b \in Board /\ \A t \in Team : b.sets[t] = 0 /\ \A s \in SetNo : b.score[t][s] = 0
  BY ResetBoardType DEF ResetBoard
<1> HIDE DEF b
<1>3. ~Over(b)
  BY <1>2 DEF Over, MatchFinished, OddSets, SoftLimit
<1>4. SetOf(b) = 1
  BY <1>2, <1>3, SetsPlayed DEF Team
<1>5. ASSUME NEW t \in Team PROVE ~Won(b, t, 1)
  <2>1. b.score[t][1] = 0 /\ 1 \in SetNo
    BY <1>2 DEF SetNo
  <2> QED
    BY <1>2, <2>1, UnplayedSet
<1> QED
  BY <1>1, <1>2, <1>4, <1>5 DEF Sound

LEMMA AwardKeepsSound ==
  ASSUME OddSets, NEW b \in Board, NEW set \in SetNo, Sound(b, set), ~Over(b),
         NEW c \in Board, NEW t \in Team, c.sets = [b.sets EXCEPT ![t] = @ + 1],
         \A u \in Team, s \in SetNo : s > set => c.score[u][s] = 0
  PROVE  Sound(c, SetOf(c))
<1>1. SetOf(c) = IF Over(c) THEN set ELSE set + 1
  BY AwardMovesOn DEF Sound
<1>2. SetOf(c) \in SetNo /\ set \in Int
  BY CurrentSetType, InitialLimits DEF SetOf, SetNo
<1>3. ASSUME NEW u \in Team, NEW s \in SetNo, s > SetOf(c) PROVE c.score[u][s] = 0
  <2>1. s > set
    BY <1>1, <1>2, <1>3 DEF SetNo
  <2> QED
    BY <2>1
<1>4. ASSUME ~Over(c), NEW u \in Team PROVE ~Won(c, u, SetOf(c))
  <2>1. SetOf(c) > set
    BY <1>1, <1>2, <1>4
  <2> QED
    BY <1>2, <2>1, UnplayedSet
<1> QED
  BY <1>3, <1>4 DEF Sound

\* A point that does not win its set wins it for the rival no more than before.
LEMMA PointKeepsSound ==
  ASSUME OddSets, NEW b \in Board, NEW set \in SetNo, Sound(b, set), ~Over(b), NEW t \in Team
  PROVE  LET c == AddGame(b, t, set, InitialRules) IN
         /\ Sound(c, SetOf(c))
         /\ ~Won(c, t, set) => SetOf(c) = set
<1> DEFINE c == AddGame(b, t, set, InitialRules)
<1>1. /\ c \in Board /\ c.score = Raised(b.score, t, set)
      /\ c.sets = IF Won(c, t, set) THEN [b.sets EXCEPT ![t] = @ + 1] ELSE b.sets
  BY PointTally
<1> HIDE DEF c
<1>2. /\ c.score[t][set] = b.score[t][set] + 1 /\ b.score[t][set] \in Nat
      /\ \A u \in Team : u # t => c.score[u] = b.score[u]
      /\ \A u \in Team, s \in SetNo : s # set => c.score[u][s] = b.score[u][s]
  BY <1>1 DEF Raised, Board
<1>3. \A u \in Team, s \in SetNo : s > set => c.score[u][s] = 0
  <2>1. \A s \in SetNo : s > set => s # set
    BY DEF SetNo
  <2> QED
    BY <1>2, <2>1 DEF Sound
<1>4. CASE Won(c, t, set)
  BY <1>1, <1>3, <1>4, AwardKeepsSound DEF c
<1>5. CASE ~Won(c, t, set)
  <2>1. c.sets = b.sets
    BY <1>1, <1>5
  <2>2. SetOf(c) = set /\ ~Over(c)
    BY <2>1, SetsDecide DEF SetOf, Over, Sound
  <2>3. ASSUME NEW u \in Team, u # t PROVE ~Won(c, u, set)
    <3>1. ~Won(b, u, set)
      BY DEF Sound
    <3>2. Rival(u) = t /\ c.score[u][set] = b.score[u][set]
      BY <1>2, <2>3 DEF Rival, Team
    <3>3. b.score[u][set] \in Nat /\ GameLimit(InitialRules, set) \in Nat
      BY InitialLimits DEF GameLimit, Board
    <3>4. ~IsWinningScore(b.score[u][set], b.score[t][set], GameLimit(InitialRules, set))
      BY <3>1, <3>2 DEF Won, SetWonBy
    <3>5. ~IsWinningScore(c.score[u][set], c.score[t][set], GameLimit(InitialRules, set))
      BY <1>2, <3>2, <3>3, <3>4 DEF IsWinningScore
    <3> QED
      BY <3>2, <3>5 DEF Won, SetWonBy
  <2>4. Sound(c, set)
    BY <1>3, <1>5, <2>2, <2>3 DEF Sound
  <2> QED
    BY <1>5, <2>2, <2>4 DEF c
<1> QED
  BY <1>4, <1>5

-----------------------------------------------------------------------------
\* A record is played and taken back.

\* Boards of which an operator sees the same.
Alike(b, c) == b.sets = c.sets /\ b.score = c.score

LEMMA AlikeBoards ==
  ASSUME NEW b \in Board, NEW c \in Board, Alike(b, c)
  PROVE  /\ SetOf(b) = SetOf(c) /\ (Over(b) <=> Over(c))
         /\ \A t \in Team, set \in SetNo :
              /\ Alike(AddGame(b, t, set, InitialRules), AddGame(c, t, set, InitialRules))
              /\ Alike(AddSet(b, t, InitialRules.sets), AddSet(c, t, InitialRules.sets))
              /\ Alike(AddTimeout(b, t), AddTimeout(c, t))
<1>1. SetOf(b) = SetOf(c) /\ (Over(b) <=> Over(c))
  BY SetsDecide DEF SetOf, Over, Alike
<1>2. ASSUME NEW t \in Team, NEW set \in SetNo
      PROVE  Alike(AddGame(b, t, set, InitialRules), AddGame(c, t, set, InitialRules))
  <2> DEFINE d == AddGame(b, t, set, InitialRules)
             e == AddGame(c, t, set, InitialRules)
  <2>1. /\ d.score = Raised(b.score, t, set)
        /\ d.sets = IF Won(d, t, set) /\ ~Over(b) THEN [b.sets EXCEPT ![t] = @ + 1] ELSE b.sets
    BY PointTally
  <2>2. /\ e.score = Raised(c.score, t, set)
        /\ e.sets = IF Won(e, t, set) /\ ~Over(c) THEN [c.sets EXCEPT ![t] = @ + 1] ELSE c.sets
    BY PointTally
  <2> HIDE DEF d, e
  <2>3. d.score = e.score
    BY <2>1, <2>2 DEF Alike
  <2>4. Won(d, t, set) <=> Won(e, t, set)
    BY <2>3 DEF Won, SetWonBy
  <2> QED
    BY <1>1, <2>1, <2>2, <2>3, <2>4 DEF Alike, d, e
<1>3. ASSUME NEW t \in Team
      PROVE  /\ Alike(AddSet(b, t, InitialRules.sets), AddSet(c, t, InitialRules.sets))
             /\ Alike(AddTimeout(b, t), AddTimeout(c, t))
  <2>1. ASSUME NEW d \in Board
        PROVE  /\ AddSet(d, t, InitialRules.sets).score = d.score
               /\ AddSet(d, t, InitialRules.sets).sets =
                    IF Over(d) THEN d.sets ELSE [d.sets EXCEPT ![t] = @ + 1]
               /\ AddTimeout(d, t).sets = d.sets /\ AddTimeout(d, t).score = d.score
    BY AddSetEffect, TimeoutTally DEF Over
  <2>2. b.sets = c.sets /\ b.score = c.score
    BY DEF Alike
  <2>3. Alike(AddSet(b, t, InitialRules.sets), AddSet(c, t, InitialRules.sets))
    <3> DEFINE d == AddSet(b, t, InitialRules.sets)
               e == AddSet(c, t, InitialRules.sets)
    <3>1. d.score = b.score /\ d.sets = IF Over(b) THEN b.sets ELSE [b.sets EXCEPT ![t] = @ + 1]
      BY <2>1
    <3>2. e.score = c.score /\ e.sets = IF Over(c) THEN c.sets ELSE [c.sets EXCEPT ![t] = @ + 1]
      BY <2>1
    <3> HIDE DEF d, e
    <3>3. d.score = e.score /\ d.sets = e.sets
      BY <1>1, <2>2, <3>1, <3>2
    <3> QED
      BY <3>3 DEF d, e, Alike
  <2>4. Alike(AddTimeout(b, t), AddTimeout(c, t))
    BY <2>1, <2>2, Zenon DEF Alike
  <2> QED
    BY <2>3, <2>4
<1> QED
  BY <1>1, <1>2, <1>3

LEMMA ReplayTally ==
  ASSUME NEW p \in Position, NEW r \in Record
  PROVE  /\ p.board \in Board /\ p.set \in SetNo /\ r.team \in Team
         /\ BoardAfter(p, r) \in Board
         /\ Replay(r)[p] \in Position
         /\ Alike(Replay(r)[p].board, BoardAfter(p, r))
         /\ Replay(r)[p].set = SetOf(BoardAfter(p, r))
         /\ Replay(r)[p].past = Append(p.past, Tally(p.board, p.set))
<1> DEFINE c == BoardAfter(p, r)
<1>1. c \in Board
  BY BoardAfterType
<1>2. /\ Replay(r)[p] \in Position
      /\ Replay(r)[p] = [board |-> Save(c, SetOf(c)), set |-> SetOf(c),
                         past |-> Append(p.past, Tally(p.board, p.set))]
  BY ReplayEffect DEF SetOf
<1> HIDE DEF c
<1>3. Save(c, SetOf(c)).sets = c.sets /\ Save(c, SetOf(c)).score = c.score
  BY <1>1 DEF Save, Board
<1>4. p.board \in Board /\ p.set \in SetNo /\ r.team \in Team
  BY DEF Position, Record
<1> QED
  BY <1>1, <1>2, <1>3, <1>4 DEF c, Alike

LEMMA ReplayKeepsSound ==
  ASSUME OddSets, NEW p \in Position, NEW r \in Record, Sound(p.board, p.set), ~Over(p.board)
  PROVE  Sound(Replay(r)[p].board, Replay(r)[p].set)
<1> DEFINE b == p.board
           c == BoardAfter(p, r)
<1>1. Sound(c, SetOf(c))
  <2>1. CASE r.action = "add_point"
    <3>1. c = AddGame(b, r.team, p.set, InitialRules)
      BY <2>1 DEF BoardAfter
    <3> HIDE DEF c
    <3> QED
      BY <3>1, ReplayTally, PointKeepsSound
  <2>2. CASE r.action = "add_set"
    <3>1. c = AddSet(b, r.team, InitialRules.sets)
      BY <2>2 DEF BoardAfter
    <3>2. c \in Board /\ b \in Board /\ p.set \in SetNo /\ r.team \in Team
      BY ReplayTally
    <3> HIDE DEF b, c
    <3>3. c.score = b.score /\ c.sets = [b.sets EXCEPT ![r.team] = @ + 1]
      BY <3>1, <3>2, AddSetEffect DEF Over, b
    <3>4. \A u \in Team, s \in SetNo : s > p.set => c.score[u][s] = 0
      BY <3>3 DEF Sound, b
    <3> QED
      BY <3>2, <3>3, <3>4, AwardKeepsSound DEF b
  <2>3. CASE r.action = "add_timeout"
    <3>1. c = AddTimeout(b, r.team)
      BY <2>3 DEF BoardAfter
    <3>2. c \in Board /\ b \in Board /\ r.team \in Team
      BY ReplayTally
    <3> HIDE DEF b, c
    <3>3. c.score = b.score /\ c.sets = b.sets
      BY <3>1, <3>2, TimeoutTally
    <3>4. Sound(c, p.set)
      BY <3>3, SoundCopies DEF b
    <3> QED
      BY <3>4 DEF Sound
  <2> QED
    BY <2>1, <2>2, <2>3 DEF Record, Undoable
<1> QED
  BY <1>1, ReplayTally, SoundCopies DEF Alike

LEMMA RaisedLowered ==
  ASSUME NEW f \in [Team -> [SetNo -> Nat]], NEW t \in Team, NEW s \in SetNo
  PROVE  Lowered(Raised(f, t, s), t, s) = f
<1> DEFINE g == Raised(f, t, s)
           h == Lowered(g, t, s)
<1>1. g \in [Team -> [SetNo -> Nat]] /\ g[t][s] = f[t][s] + 1
  BY DEF Raised
<1>2. \A u \in Team, k \in SetNo : <<u, k>> # <<t, s>> => g[u][k] = f[u][k]
  BY DEF Raised
<1>3. h = [g EXCEPT ![t][s] = IF @ > 0 THEN @ - 1 ELSE 0]
  BY DEF Lowered
<1> HIDE DEF g, h
<1>4. /\ h \in [Team -> [SetNo -> Nat]]
      /\ h[t][s] = IF g[t][s] > 0 THEN g[t][s] - 1 ELSE 0
  <2>1. (IF g[t][s] > 0 THEN g[t][s] - 1 ELSE 0) \in Nat
    BY <1>1
  <2> QED
    BY <1>1, <1>3, <2>1
<1>5. \A u \in Team, k \in SetNo : <<u, k>> # <<t, s>> => h[u][k] = g[u][k]
  BY <1>1, <1>3
<1>6. h[t][s] = f[t][s]
  BY <1>1, <1>4
<1>7. \A u \in Team, k \in SetNo : h[u][k] = f[u][k]
  BY <1>2, <1>5, <1>6
<1>8. \A u \in Team : h[u] = f[u]
  BY <1>4, <1>7
<1> QED
  BY <1>4, <1>8 DEF h, g

\* The point that won its set is found in it, although the match has moved on.
LEMMA UndoFindsThePoint ==
  ASSUME OddSets, NEW a \in Board, NEW set \in SetNo, Sound(a, set), ~Over(a), NEW t \in Team,
         NEW b \in Board, Alike(b, AddGame(a, t, set, InitialRules)),
         NEW now, now = SetOf(AddGame(a, t, set, InitialRules))
  PROVE  LET c == UndoGame(b, t, now, InitialRules) IN
         /\ Alike(c, a)
         /\ (IF UnwinsSet(b, t, now, InitialRules) THEN SetOf(c) ELSE now) = set
<1> DEFINE c == AddGame(a, t, set, InitialRules)
           d == UndoGame(b, t, now, InitialRules)
           from == UndoTarget(b, t, now)
           unwins == UnwinsSet(b, t, now, InitialRules)
<1>1. /\ c \in Board /\ c.score = Raised(a.score, t, set)
      /\ c.sets = IF Won(c, t, set) THEN [a.sets EXCEPT ![t] = @ + 1] ELSE a.sets
  BY PointTally
<1>2. b.score = c.score /\ b.sets = c.sets /\ now = SetOf(c) /\ (~Won(c, t, set) => now = set)
  BY PointKeepsSound DEF Alike
<1> HIDE DEF c
<1>3. now \in SetNo
  BY <1>1, <1>2, CurrentSetType, InitialLimits DEF SetOf
<1>4. /\ d.score = Lowered(b.score, t, from)
      /\ unwins <=> Won(b, t, from) /\ ~Won(d, t, from)
      /\ d.sets = IF unwins THEN [b.sets EXCEPT ![t] = IF @ > 0 THEN @ - 1 ELSE 0] ELSE b.sets
  BY <1>3, UndoPointTally
<1>5. a.score \in [Team -> [SetNo -> Nat]] /\ a.sets \in [Team -> Nat]
  BY DEF Board
<1>6. from = set
  <2>1. b.score[t][set] = a.score[t][set] + 1 /\ a.score[t][set] \in Nat
    BY <1>1, <1>2, <1>5 DEF Raised
  <2>2. CASE now = set
    BY <2>1, <2>2 DEF UndoTarget
  <2>3. CASE now # set
    <3>1. now = set + 1
      BY <1>1, <1>2, <2>3, AwardMovesOn DEF Sound
    <3>2. set \in Nat /\ set > 0 /\ now > set
      BY <3>1 DEF SetNo
    <3>3. a.score[t][now] = 0
      BY <1>3, <3>2 DEF Sound
    <3>4. b.score[t][now] = 0
      BY <1>1, <1>2, <1>3, <1>5, <2>3, <3>3 DEF Raised
    <3> QED
      BY <3>1, <3>2, <3>4 DEF UndoTarget
  <2> QED
    BY <2>2, <2>3
<1> HIDE DEF d, from, unwins
<1>7. d.score = a.score
  BY <1>1, <1>2, <1>4, <1>5, <1>6, RaisedLowered
<1>8. unwins <=> Won(c, t, set)
  <2>1. Won(b, t, set) <=> Won(c, t, set)
    BY <1>2 DEF Won, SetWonBy
  <2>2. ~Won(d, t, set)
    BY <1>7 DEF Won, SetWonBy, Sound
  <2> QED
    BY <1>4, <1>6, <2>1, <2>2
<1>9. d.sets = a.sets
  <2>1. CASE unwins
    <3>1. b.sets = [a.sets EXCEPT ![t] = @ + 1] /\ d.sets = [b.sets EXCEPT ![t] = IF @ > 0 THEN @ - 1 ELSE 0]
      BY <1>1, <1>2, <1>4, <1>8, <2>1
    <3> QED
      BY <1>5, <3>1
  <2>2. CASE ~unwins
    BY <1>1, <1>2, <1>4, <1>8, <2>2
  <2> QED
    BY <2>1, <2>2
<1>10. SetOf(d) = set
  BY <1>9, SetsDecide DEF SetOf, Sound
<1> QED
  BY <1>2, <1>7, <1>8, <1>9, <1>10 DEF Alike, d, unwins

LEMMA UndoTakesBack ==
  ASSUME OddSets, NEW p \in Position, NEW r \in Record, Sound(p.board, p.set), ~Over(p.board),
         NEW b \in Board, Alike(b, Replay(r)[p].board), NEW now, now = Replay(r)[p].set
  PROVE  /\ r.action = "add_point" =>
              LET c == UndoGame(b, r.team, now, InitialRules) IN
              /\ Alike(c, p.board)
              /\ (IF UnwinsSet(b, r.team, now, InitialRules) THEN SetOf(c) ELSE now) = p.set
         /\ r.action = "add_set" =>
              Alike(UndoSet(b, r.team), p.board) /\ SetOf(UndoSet(b, r.team)) = p.set
         /\ r.action = "add_timeout" => Alike(UndoTimeout(b, r.team), p.board) /\ now = p.set
<1> DEFINE a == p.board
           t == r.team
           c == BoardAfter(p, r)
<1>1. a \in Board /\ p.set \in SetNo /\ t \in Team /\ c \in Board /\ now = SetOf(c) /\ Alike(b, c)
  BY ReplayTally DEF Alike
<1>2. ASSUME r.action = "add_point"
      PROVE  LET d == UndoGame(b, t, now, InitialRules) IN
             Alike(d, a) /\ (IF UnwinsSet(b, t, now, InitialRules) THEN SetOf(d) ELSE now) = p.set
  <2>1. c = AddGame(a, t, p.set, InitialRules)
    BY <1>2 DEF BoardAfter
  <2> HIDE DEF a, t, c
  <2>2. Sound(a, p.set) /\ ~Over(a)
    BY DEF a
  <2> QED
    BY <1>1, <2>1, <2>2, UndoFindsThePoint
<1>3. ASSUME r.action = "add_set"
      PROVE  Alike(UndoSet(b, t), a) /\ SetOf(UndoSet(b, t)) = p.set
  <2>1. c = AddSet(a, t, InitialRules.sets)
    BY <1>3 DEF BoardAfter
  <2> HIDE DEF c
  <2>2. c.score = a.score /\ c.sets = [a.sets EXCEPT ![t] = @ + 1]
    BY <1>1, <2>1, AddSetEffect DEF Over
  <2>3. UndoSet(b, t).score = b.score /\ UndoSet(b, t).sets = [b.sets EXCEPT ![t] = IF @ > 0 THEN @ - 1 ELSE 0]
    BY <1>1 DEF UndoSet, Board
  <2>4. b.score = c.score /\ b.sets = c.sets /\ a.sets \in [Team -> Nat]
    BY <1>1 DEF Alike, Board
  <2> HIDE DEF a, t
  <2>5. [[a.sets EXCEPT ![t] = @ + 1] EXCEPT ![t] = IF @ > 0 THEN @ - 1 ELSE 0] = a.sets
    BY <1>1, <2>4
  <2>6. Alike(UndoSet(b, t), a)
    BY <2>2, <2>3, <2>4, <2>5 DEF Alike
  <2>7. SetOf(UndoSet(b, t)) = SetOf(a)
    BY <2>6, SetsDecide DEF SetOf, Alike
  <2> QED
    BY <2>6, <2>7 DEF Sound, a
<1>4. ASSUME r.action = "add_timeout"
      PROVE  Alike(UndoTimeout(b, t), a) /\ now = p.set
  <2>1. c = AddTimeout(a, t)
    BY <1>4 DEF BoardAfter
  <2> HIDE DEF c
  <2>2. c.score = a.score /\ c.sets = a.sets
    BY <1>1, <2>1, TimeoutTally
  <2>3. UndoTimeout(b, t).sets = b.sets /\ UndoTimeout(b, t).score = b.score
    BY <1>1, TimeoutTally
  <2>4. SetOf(c) = SetOf(a)
    BY <2>2, SetsDecide DEF SetOf
  <2> QED
    BY <1>1, <2>2, <2>3, <2>4 DEF Alike, Sound
<1> QED
  BY <1>2, <1>3, <1>4

-----------------------------------------------------------------------------
\* The log of a match in which nothing was played past its end.

Orderly(l) == \A n \in 1..Len(l) : Stands(l[n]) => ~Over(Played(l)[n - 1].board)

LEMMA OrderlySound ==
  ASSUME OddSets, NEW l \in Seq(Record), Orderly(l)
  PROVE  \A n \in 0..Len(l) : /\ Played(l)[n] \in Position
                              /\ Sound(Played(l)[n].board, Played(l)[n].set)
<1> DEFINE N == Len(l)
           S == {n \in Nat : n <= N => Sound(Played(l)[n].board, Played(l)[n].set)}
<1>1. N \in Nat /\ (\A n \in 1..N : l[n] \in Record) /\ \A n \in 0..N : Played(l)[n] \in Position
  BY LenProperties, ElementOfSeq, PlayedSteps
<1>2. 0 \in S
  BY StartSound, PlayedSteps
<1>3. ASSUME NEW n \in Nat, n \in S PROVE n + 1 \in S
  <2> SUFFICES ASSUME n + 1 <= N PROVE Sound(Played(l)[n + 1].board, Played(l)[n + 1].set)
    OBVIOUS
  <2> DEFINE p == Played(l)[n]
             r == l[n + 1]
  <2>1. n + 1 \in 1..N /\ n \in 0..N /\ n + 1 - 1 = n
    BY <1>1
  <2>2. p \in Position /\ r \in Record /\ Sound(p.board, p.set)
    BY <1>1, <1>3, <2>1
  <2>3. Played(l)[n + 1] = Step(p, r) /\ (Stands(r) => ~Over(p.board))
    BY <2>1, PlayedSteps DEF Orderly
  <2> HIDE DEF p, r
  <2> QED
    BY <2>2, <2>3, ReplayKeepsSound DEF Step
<1> HIDE DEF S
<1>4. \A n \in Nat : n \in S
  BY <1>2, <1>3, Induction
<1> QED
  BY <1>1, <1>4 DEF S

LEMMA RecordAppended ==
  ASSUME NEW l \in Seq(Record), Orderly(l), NEW r \in Record,
         Stands(r), ~Over(Played(l)[Len(l)].board)
  PROVE  LET m == Append(l, r) IN
         /\ m \in Seq(Record) /\ Orderly(m)
         /\ Played(m)[Len(m)] = Replay(r)[Played(l)[Len(l)]]
<1> DEFINE m == Append(l, r)
           N == Len(l)
<1>1. /\ m \in Seq(Record) /\ Len(m) = N + 1 /\ N \in Nat
      /\ m[N + 1] = r /\ \A i \in 1..N : m[i] = l[i]
  BY AppendProperties, LenProperties
<1> HIDE DEF m
<1>2. \A n \in 0..N : Played(m)[n] = Played(l)[n]
  <2>1. SameAt(m, l, N)
    BY <1>1 DEF SameAt
  <2> QED
    BY <1>1, <2>1, PlayedAlike
<1>3. Played(m)[N + 1] = Replay(r)[Played(l)[N]]
  <2>1. N + 1 \in 1..Len(m) /\ N + 1 - 1 = N /\ N \in 0..N
    BY <1>1
  <2>2. Played(m)[N + 1] = Step(Played(m)[N], m[N + 1])
    BY <1>1, <2>1, PlayedSteps
  <2> QED
    BY <1>1, <1>2, <2>1, <2>2 DEF Step
<1>4. ASSUME NEW n \in 1..Len(m), Stands(m[n]) PROVE ~Over(Played(m)[n - 1].board)
  <2>1. n - 1 \in 0..N
    BY <1>1
  <2>2. Played(m)[n - 1] = Played(l)[n - 1]
    BY <1>2, <2>1
  <2>3. CASE n = N + 1
    BY <1>1, <2>2, <2>3, n - 1 = N
  <2>4. CASE n \in 1..N
    BY <1>1, <1>4, <2>2, <2>4 DEF Orderly
  <2> QED
    BY <1>1, <2>3, <2>4
<1> QED
  BY <1>1, <1>3, <1>4 DEF Orderly, m

\* Hiding the last record that stands goes back to where it was played.
LEMMA RecordHidden ==
  ASSUME NEW l \in Seq(Record), Orderly(l), NEW i \in 1..Len(l), Stands(l[i]),
         \A j \in 1..Len(l) : j > i => ~Stands(l[j]), NEW u \in Record, u.undo
  PROVE  LET m == Append(Tombstone(l, i), u) IN
         /\ m \in Seq(Record) /\ Orderly(m)
         /\ Played(m)[Len(m)] = Played(l)[i - 1]
         /\ Played(l)[Len(l)] = Replay(l[i])[Played(l)[i - 1]]
         /\ ~Over(Played(l)[i - 1].board)
<1> DEFINE h == Tombstone(l, i)
           m == Append(h, u)
           N == Len(l)
<1>1. /\ h \in Seq(Record) /\ Len(h) = N /\ N \in Nat
      /\ \A j \in 1..N : Stands(h[j]) <=> (Stands(l[j]) /\ j # i)
      /\ \A j \in 1..N : j # i => h[j] = l[j]
  BY TombstoneEffect, LenProperties DEF Stands
<1> HIDE DEF h
<1>2. /\ m \in Seq(Record) /\ Len(m) = N + 1
      /\ m[N + 1] = u /\ \A j \in 1..N : m[j] = h[j]
  BY <1>1, AppendProperties
<1> HIDE DEF m
<1>3. \A j \in 1..(N + 1) : Stands(m[j]) => j < i
  <2>1. ASSUME NEW j \in 1..N, Stands(m[j]) PROVE j < i
    <3>1. Stands(l[j]) /\ j # i
      BY <1>1, <1>2, <2>1
    <3>2. ~(j > i)
      BY <3>1
    <3> QED
      BY <1>1, <3>1, <3>2
  <2>2. ~Stands(m[N + 1])
    BY <1>2 DEF Stands
  <2> QED
    BY <1>1, <2>1, <2>2
<1>4. i - 1 \in Nat /\ i - 1 <= N /\ i - 1 <= Len(m)
  BY <1>1, <1>2
<1>5. \A n \in 0..(i - 1) : Played(m)[n] = Played(l)[n]
  <2>1. \A j \in 1..(i - 1) : j \in 1..N /\ j # i /\ m[j] = l[j]
    BY <1>1, <1>2
  <2>2. SameAt(m, l, i - 1)
    BY <2>1 DEF SameAt
  <2> QED
    BY <1>2, <1>4, <2>2, PlayedAlike
<1>6. Played(m)[Len(m)] = Played(l)[i - 1]
  <2>1. i - 1 \in 0..Len(m) /\ \A j \in 1..Len(m) : j > i - 1 => ~Stands(m[j])
    BY <1>1, <1>2, <1>3, <1>4
  <2>2. Played(m)[Len(m)] = Played(m)[i - 1]
    BY <1>2, <2>1, PlayedRests
  <2> QED
    BY <1>4, <1>5, <2>2
<1>7. Played(l)[N] = Replay(l[i])[Played(l)[i - 1]] /\ ~Over(Played(l)[i - 1].board)
  <2>1. i \in 0..N /\ \A j \in 1..N : j > i => ~Stands(l[j])
    BY <1>1
  <2>2. Played(l)[N] = Played(l)[i]
    BY <2>1, PlayedRests
  <2>3. Played(l)[i] = Step(Played(l)[i - 1], l[i])
    BY PlayedSteps
  <2> QED
    BY <2>2, <2>3 DEF Step, Orderly
<1>8. ASSUME NEW n \in 1..Len(m), Stands(m[n]) PROVE ~Over(Played(m)[n - 1].board)
  <2>1. n < i /\ n \in 1..N /\ n - 1 \in 0..(i - 1)
    BY <1>1, <1>2, <1>3, <1>4, <1>8
  <2>2. Stands(l[n]) /\ Played(m)[n - 1] = Played(l)[n - 1]
    BY <1>1, <1>2, <1>5, <1>8, <2>1
  <2> QED
    BY <2>1, <2>2 DEF Orderly
<1> QED
  BY <1>2, <1>6, <1>7, <1>8 DEF Orderly, h, m

-----------------------------------------------------------------------------
\* The board is what its log says when it is played again.

\* One way to take back an action, limits that stay, a log that is written and kept.
PlainUndo ==
  /\ OddSets
  /\ RuleSets = {InitialRules} /\ RapidTaps = FALSE
  /\ AppendOutcomes = {TRUE} /\ ClearOutcomes = {TRUE} /\ RotationDrops = {0}
  /\ Requests \cap {"undo_one", "set_score", "set_sets"} = {}

Here == Played(log)[Len(log)]
Before(i) == Played(log)[i - 1]

Shows == Orderly(log) /\ Alike(board, Here.board) /\ curSet = Here.set

ReplayInv ==
  /\ TypeOK /\ dropped = 0 /\ rules = InitialRules
  /\ rapid = [t \in Team |-> NoPair]
  /\ Shows

stack == <<Tally(board, curSet), Here.past>>

LEMMA HereIsSound ==
  ASSUME OddSets, ReplayInv
  PROVE  /\ Here \in Position /\ Sound(Here.board, Here.set)
         /\ SetOf(board) = curSet /\ (Over(board) <=> Over(Here.board))
         /\ Tally(board, curSet) = Tally(Here.board, Here.set)
<1>1. log \in Seq(Record) /\ Len(log) \in 0..Len(log) /\ board \in Board
  BY LenProperties DEF ReplayInv, TypeOK
<1>2. Here \in Position /\ Sound(Here.board, Here.set)
  BY <1>1, OrderlySound DEF Here, ReplayInv, Shows
<1>3. SetOf(board) = SetOf(Here.board) /\ (Over(board) <=> Over(Here.board))
  BY SetsDecide DEF ReplayInv, Shows, Alike, SetOf, Over
<1> QED
  BY <1>2, <1>3 DEF ReplayInv, Shows, Alike, Sound, Tally

\* A record is appended: an action that can be taken back.
LEMMA ForwardPlays ==
  ASSUME OddSets, ReplayInv, TypeOK', NEW r \in Record, Stands(r), ~Over(board),
         log' = Append(log, r),
         Alike(board', BoardAfter(Here, r)), curSet' = SetOf(BoardAfter(Here, r))
  PROVE  Shows' /\ Stack!Do
<1>1. log \in Seq(Record) /\ Orderly(log) /\ Here \in Position /\ ~Over(Here.board)
  BY HereIsSound DEF ReplayInv, TypeOK, Shows
<1>2. Orderly(log') /\ Here' = Replay(r)[Here]
  BY <1>1, RecordAppended DEF Here
<1>3. /\ Alike(Replay(r)[Here].board, BoardAfter(Here, r))
      /\ Replay(r)[Here].set = SetOf(BoardAfter(Here, r))
      /\ Replay(r)[Here].past = Append(Here.past, Tally(Here.board, Here.set))
  BY <1>1, ReplayTally
<1>4. Shows'
  BY <1>2, <1>3 DEF Shows, Alike
<1>5. Here.past' = Append(Here.past, Tally(board, curSet))
  BY <1>2, <1>3, HereIsSound
<1>6. Tally(board, curSet)' \in Tallies
  BY TallyType DEF TypeOK
<1> QED
  BY <1>4, <1>5, <1>6 DEF Stack!Do, Here

LEMMA LastOfAppend ==
  ASSUME NEW S, NEW s \in Seq(S), NEW e \in S
  PROVE  /\ Append(s, e) # <<>>
         /\ Stack!Last(Append(s, e)) = e
         /\ Stack!Front(Append(s, e)) = s
<1> DEFINE a == Append(s, e)
<1>1. /\ a \in Seq(S) /\ Len(a) = Len(s) + 1 /\ Len(s) \in Nat /\ a[Len(s) + 1] = e
      /\ \A i \in 1..Len(s) : a[i] = s[i]
  BY AppendProperties, LenProperties
<1> HIDE DEF a
<1>2. a # <<>> /\ Stack!Last(a) = e
  BY <1>1 DEF Stack!Last
<1>3. Stack!Front(a) = SubSeq(a, 1, Len(s))
  BY <1>1 DEF Stack!Front
<1>4. SubSeq(a, 1, Len(s)) = s
  BY <1>1
<1> QED
  BY <1>2, <1>3, <1>4 DEF a

\* What undo_last takes back is what was played last.
LEMMA LastPlayed ==
  ASSUME OddSets, ReplayInv, LastForward # 0
  PROVE  LET i == LastForward IN
         /\ i \in 1..Len(log) /\ log[i] \in Record /\ Stands(log[i])
         /\ \A j \in 1..Len(log) : j > i => ~Stands(log[j])
         /\ Before(i) \in Position /\ Sound(Before(i).board, Before(i).set) /\ ~Over(Before(i).board)
         /\ Here = Replay(log[i])[Before(i)]
         /\ LastForwardOf(log[i].action, log[i].team) = i
<1> DEFINE i == LastForward
           same == {j \in LiveForwards : log[j].action = log[i].action /\ log[j].team = log[i].team}
<1>1. LiveForwards \in SUBSET (1..Len(log)) /\ Len(log) \in Nat /\ log \in Seq(Record) /\ Orderly(log)
  BY LiveForwardsInLog, LenProperties DEF ReplayInv, TypeOK, Shows
<1>2. i \in LiveForwards /\ \A j \in LiveForwards : j <= i
  <2>1. LiveForwards # {}
    BY DEF LastForward, Latest
  <2> QED
    BY <1>1, <2>1, LatestExists DEF LastForward
<1>3. LastForwardOf(log[i].action, log[i].team) = i
  <2>1. same \in SUBSET (1..Len(log)) /\ i \in same /\ LastForwardOf(log[i].action, log[i].team) = Latest(same)
    BY <1>1, <1>2 DEF LastForwardOf
  <2>2. \A j \in same : j <= i
    BY <1>2
  <2> HIDE DEF i, same
  <2>3. Latest(same) \in same /\ i <= Latest(same)
    BY <1>1, <2>1, LatestExists
  <2>4. Latest(same) \in 1..Len(log) /\ i \in 1..Len(log)
    BY <2>1, <2>3
  <2>5. Latest(same) <= i
    BY <2>2, <2>3
  <2>6. Latest(same) = i
    BY <1>1, <2>3, <2>4, <2>5
  <2> QED
    BY <2>1, <2>6
<1> HIDE DEF i, same
<1>4. i \in 1..Len(log) /\ log[i] \in Record
  BY <1>1, <1>2, ElementOfSeq
<1>5. \A j \in 1..Len(log) : Stands(log[j]) <=> j \in LiveForwards
  BY <1>1, LenProperties DEF LiveForwards, Stands, ReplayInv
<1>6. Stands(log[i]) /\ \A j \in 1..Len(log) : j > i => ~Stands(log[j])
  <2>1. \A j \in 1..Len(log) : j > i => ~(j <= i)
    BY <1>1, <1>4
  <2> QED
    BY <1>2, <1>4, <1>5, <2>1
<1>7. /\ Before(i) \in Position /\ Sound(Before(i).board, Before(i).set)
      /\ ~Over(Before(i).board) /\ Here = Replay(log[i])[Before(i)]
  <2>1. i - 1 \in 0..Len(log)
    BY <1>1, <1>4
  <2>2. \E u \in Record : u.undo
    <3> DEFINE u == [log[i] EXCEPT !.undo = TRUE]
    <3>1. u \in Record /\ u.undo
      BY <1>4 DEF Record
    <3> QED
      BY <3>1
  <2> QED
    BY <1>1, <1>4, <1>6, <2>1, <2>2, OrderlySound, RecordHidden DEF Before, Here
<1> QED
  BY <1>3, <1>4, <1>6, <1>7 DEF i

\* The last record is hidden: the stack goes back to what was shown before it.
LEMMA UndoReplays ==
  ASSUME OddSets, ReplayInv, TypeOK', LastForward # 0, NEW u \in Record, u.undo,
         log' = Append(Tombstone(log, LastForward), u),
         Alike(board', Before(LastForward).board), curSet' = Before(LastForward).set
  PROVE  Shows' /\ Stack!Undo
<1> DEFINE i == LastForward
<1>1. /\ i \in 1..Len(log) /\ log[i] \in Record /\ Stands(log[i])
      /\ \A j \in 1..Len(log) : j > i => ~Stands(log[j])
      /\ Before(i) \in Position /\ Here = Replay(log[i])[Before(i)]
  BY LastPlayed
<1>2. log \in Seq(Record) /\ Orderly(log)
  BY DEF ReplayInv, TypeOK, Shows
<1> HIDE DEF i
<1>3. Orderly(log') /\ Here' = Before(i)
  BY <1>1, <1>2, RecordHidden DEF Here, Before, i
<1>4. Here.past = Append(Before(i).past, Tally(Before(i).board, Before(i).set))
  BY <1>1, ReplayTally
<1>5. Before(i).past \in Seq(Tallies) /\ Tally(Before(i).board, Before(i).set) \in Tallies
  BY <1>1, TallyType DEF Position
<1>6. Shows'
  BY <1>3 DEF Shows, Alike, i
<1>7. Tally(board, curSet)' = Tally(Before(i).board, Before(i).set)
  BY DEF Tally, Alike, i
<1>8. Here.past # <<>> /\ Tally(board, curSet)' = Stack!Last(Here.past) /\ Here.past' = Stack!Front(Here.past)
  BY <1>3, <1>4, <1>5, <1>7, LastOfAppend
<1> QED
  BY <1>6, <1>8 DEF Stack!Undo, Here

LEMMA SilentReplays ==
  ASSUME ReplayInv, log' = log, Alike(board', board), curSet' = curSet
  PROVE  Shows' /\ UNCHANGED stack
BY DEF ReplayInv, Shows, Alike, Here, stack, Tally

-----------------------------------------------------------------------------
\* Each request in turn.

Kept == rules' = InitialRules /\ rapid' = [t \in Team |-> NoPair]

LEMMA PlainOutcomes ==
  ASSUME PlainUndo
  PROVE  /\ OddSets /\ RuleSets = {InitialRules} /\ ~RapidTaps
         /\ \A ok \in AppendOutcomes : ok = TRUE
         /\ \A ok \in ClearOutcomes : ok = TRUE
         /\ "undo_one" \notin Requests /\ "set_score" \notin Requests /\ "set_sets" \notin Requests
BY DEF PlainUndo

LEMMA ForwardRecord ==
  ASSUME NEW action \in Undoable, NEW t \in Team, NEW tag \in Tags
  PROVE  /\ Forward(action, t, tag) \in Record /\ Stands(Forward(action, t, tag))
         /\ Forward(action, t, tag).action = action /\ Forward(action, t, tag).team = t
BY DEF Forward, Record, Stands

LEMMA UndoRecord ==
  ASSUME NEW action \in Undoable, NEW t \in Team
  PROVE  Undo(action, t) \in Record /\ Undo(action, t).undo
BY ScoreboardAssumption DEF Undo, Record

LEMMA NoPairsLeft ==
  ASSUME rapid = [t \in Team |-> NoPair], NEW u \in Team
  PROVE  /\ [rapid EXCEPT ![u] = NoPair] = rapid
         /\ ~PairsWithForward(u) /\ (\A tag : ~PairsWithUndo(u, tag)) /\ rapid[u].kind = "none"
BY DEF PairsWithForward, PairsWithUndo, NoPair

LEMMA SaveAlike ==
  ASSUME NEW b \in Board, NEW set
  PROVE  Alike(Save(b, set), b)
BY DEF Save, Board, Alike

LEMMA AddPointReplays ==
  ASSUME PlainUndo, ReplayInv, TypeOK', NEW t \in Team, NEW tag \in Tags, NEW ok \in AppendOutcomes,
         NEW n, AddPoint(t, tag, ok, n)
  PROVE  Kept /\ Shows' /\ Stack!Do
<1> DEFINE r == Forward("add_point", t, tag)
           b == AddGame(board, t, curSet, InitialRules)
           c == AddGame(Here.board, t, Here.set, InitialRules)
<1>1. r \in Record /\ Stands(r) /\ r.action = "add_point" /\ r.team = t
  BY ForwardRecord DEF Undoable
<1>2. log' = Append(log, r) /\ Kept
  <2>1. log' = Append(log, r) /\ rapid' = [rapid EXCEPT ![t] = NoPair]
    BY PlainOutcomes DEF AddPoint, AuditForward, Seeded
  <2>2. rules' = rules
    BY DEF AddPoint, ScorePoint
  <2> QED
    BY <2>1, <2>2, NoPairsLeft DEF Kept, ReplayInv
<1>3. board \in Board /\ curSet \in SetNo /\ Here.board \in Board /\ curSet = Here.set /\ Alike(board, Here.board)
  BY HereIsSound, PlainOutcomes DEF ReplayInv, TypeOK, Shows, Position
<1>4. Alike(b, c) /\ SetOf(b) = SetOf(c) /\ b \in Board /\ c \in Board
  <2>1. Alike(b, c)
    BY <1>3, AlikeBoards
  <2>2. b \in Board /\ c \in Board
    BY <1>3, PointTally
  <2> QED
    BY <2>1, <2>2, AlikeBoards
<1>5. ~Over(board)
  BY DEF AddPoint, ScorePoint, Finished, Over, ReplayInv
<1>6. /\ board' = Save(b, curSet')
      /\ curSet' = IF Won(b, t, curSet) THEN SetOf(b) ELSE curSet
  BY DEF AddPoint, ScorePoint, Commit, Won, SetOf, ReplayInv
<1>7. BoardAfter(Here, r) = c
  BY <1>1 DEF BoardAfter
<1>8. Alike(board', c)
  BY <1>4, <1>6, SaveAlike DEF Alike
<1>9. curSet' = SetOf(c)
  <2>1. Won(b, t, curSet) <=> Won(c, t, Here.set)
    BY <1>3, <1>4 DEF Won, SetWonBy, Alike
  <2>2. ~Won(c, t, Here.set) => SetOf(c) = Here.set
    BY <1>3, <1>5, HereIsSound, PlainOutcomes, PointKeepsSound
  <2> HIDE DEF b, c
  <2> QED
    BY <1>3, <1>4, <1>6, <2>1, <2>2
<1> HIDE DEF r, b, c
<1>10. Shows' /\ Stack!Do
  BY <1>1, <1>2, <1>5, <1>7, <1>8, <1>9, ForwardPlays, PlainOutcomes
<1> QED
  BY <1>2, <1>10

LEMMA OtherForwardReplays ==
  ASSUME PlainUndo, ReplayInv, TypeOK', NEW t \in Team, NEW ok \in AppendOutcomes, NEW n,
         AwardSet(t, ok, n) \/ CallTimeout(t, ok, n)
  PROVE  Kept /\ Shows' /\ Stack!Do
<1>1. Kept
  BY DEF AwardSet, CallTimeout, InvalidateRapidPairs, Kept, ReplayInv
<1>2. board \in Board /\ Here.board \in Board /\ Alike(board, Here.board) /\ SetOf(board) = curSet
  BY HereIsSound, PlainOutcomes DEF ReplayInv, TypeOK, Shows, Position
<1>3. NoTag \in Tags
  BY ScoreboardAssumption
<1>4. CASE AwardSet(t, ok, n)
  <2> DEFINE r == Forward("add_set", t, NoTag)
             b == AddSet(board, t, InitialRules.sets)
             c == AddSet(Here.board, t, InitialRules.sets)
  <2>1. r \in Record /\ Stands(r) /\ r.action = "add_set" /\ r.team = t
    BY <1>3, ForwardRecord DEF Undoable
  <2>2. log' = Append(log, r)
    BY <1>4, PlainOutcomes DEF AwardSet, AuditForward
  <2>3. ~Over(board) /\ board' = Save(b, curSet') /\ curSet' = SetOf(b)
    BY <1>4 DEF AwardSet, Finished, Over, Commit, SetOf, ReplayInv
  <2>4. BoardAfter(Here, r) = c
    BY <2>1 DEF BoardAfter
  <2>5. Alike(b, c) /\ b \in Board /\ c \in Board
    <3>1. 1 \in SetNo
      BY DEF SetNo
    <3> QED
      BY <1>2, <3>1, AlikeBoards, AddSetType
  <2> HIDE DEF r, b, c
  <2>6. SetOf(b) = SetOf(c) /\ Alike(board', c)
    BY <2>3, <2>5, AlikeBoards, SaveAlike DEF Alike
  <2> QED
    BY <1>1, <2>1, <2>2, <2>3, <2>4, <2>6, ForwardPlays, PlainOutcomes
<1>5. CASE CallTimeout(t, ok, n)
  <2> DEFINE r == Forward("add_timeout", t, NoTag)
             b == AddTimeout(board, t)
             c == AddTimeout(Here.board, t)
  <2>1. r \in Record /\ Stands(r) /\ r.action = "add_timeout" /\ r.team = t
    BY <1>3, ForwardRecord DEF Undoable
  <2>2. log' = Append(log, r)
    BY <1>5, PlainOutcomes DEF CallTimeout, AuditForward
  <2>3. ~Over(board) /\ board' = Save(b, curSet) /\ curSet' = curSet
    BY <1>5 DEF CallTimeout, Finished, Over, Commit, ReplayInv
  <2>4. BoardAfter(Here, r) = c
    BY <2>1 DEF BoardAfter
  <2>5. Alike(b, c) /\ b \in Board /\ c \in Board
    <3>1. 1 \in SetNo
      BY DEF SetNo
    <3> QED
      BY <1>2, <3>1, AlikeBoards, AddTimeoutType
  <2>6. SetOf(c) = curSet
    <3>1. c.sets = Here.board.sets
      BY <1>2, TimeoutTally
    <3>2. Here.board.sets = board.sets
      BY <1>2 DEF Alike
    <3>3. SetOf(c) = SetOf(board)
      BY <3>1, <3>2, SetsDecide DEF SetOf
    <3> QED
      BY <1>2, <3>3
  <2> HIDE DEF r, b, c
  <2>7. Alike(board', c)
    BY <2>3, <2>5, SaveAlike DEF Alike
  <2> QED
    BY <1>1, <2>1, <2>2, <2>3, <2>4, <2>6, <2>7, ForwardPlays, PlainOutcomes
<1> QED
  BY <1>4, <1>5

LEMMA UndoLastReplays ==
  ASSUME PlainUndo, ReplayInv, TypeOK', NEW okPop \in AppendOutcomes, NEW okAppend \in AppendOutcomes,
         NEW n, UndoLast(okPop, okAppend, n)
  PROVE  Kept /\ Shows' /\ Stack!Undo
<1> DEFINE i == LastForward
           r == log[i]
           t == r.team
           p == Before(i)
           u == Undo(r.action, t)
           hidden == Append(Tombstone(log, i), u)
<1>1. i # 0 /\ UndoRequest(r.action, t, okPop, okAppend, n)
  BY DEF UndoLast
<1>2. /\ OddSets /\ okPop = TRUE /\ okAppend = TRUE /\ ~RapidTaps
      /\ board \in Board /\ curSet \in SetNo /\ Alike(board, Here.board) /\ curSet = Here.set
  BY PlainOutcomes DEF ReplayInv, TypeOK, Shows
<1>3. /\ r \in Record /\ p \in Position /\ Sound(p.board, p.set) /\ ~Over(p.board)
      /\ Here = Replay(r)[p] /\ LastForwardOf(r.action, t) = i
  BY <1>1, <1>2, LastPlayed
<1>4. t \in Team /\ r.action \in Undoable /\ u \in Record /\ u.undo
  BY <1>3, UndoRecord DEF Record
<1>5. ASSUME NEW b \in Board, Alike(b, p.board), board' = Save(b, curSet'), curSet' = p.set,
             log' = hidden
      PROVE  Shows' /\ Stack!Undo
  <2>1. Alike(board', p.board)
    BY <1>5, SaveAlike DEF Alike
  <2> QED
    BY <1>1, <1>2, <1>4, <1>5, <2>1, UndoReplays
<1>6. ASSUME AuditUndo(r.action, t, i, okPop, okAppend, n) PROVE log' = hidden
  BY <1>1, <1>2, <1>6 DEF AuditUndo
<1> HIDE DEF i, r, p, u, hidden
<1> HIDE DEF t
<1>7. CASE r.action = "add_point"
  <2> DEFINE b == UndoGame(board, t, curSet, InitialRules)
             unwins == UnwinsSet(board, t, curSet, InitialRules)
  <2>1. UndoPoint(t, okPop, okAppend, n)
    <3>1. ~RetractPoint(t, okPop, n)
      BY <1>4, NoPairsLeft DEF RetractPoint, ReplayInv
    <3> QED
      BY <1>1, <1>7, <3>1 DEF UndoRequest
  <2>2. /\ board' = Save(b, curSet') /\ curSet' = (IF unwins THEN SetOf(b) ELSE curSet)
        /\ rules' = InitialRules
    BY <2>1 DEF UndoPoint, UnscorePoint, Commit, SetOf, ReplayInv
  <2>3. Alike(b, p.board) /\ (IF unwins THEN SetOf(b) ELSE curSet) = p.set
    BY <1>2, <1>3, <1>7, UndoTakesBack DEF t
  <2>4. b \in Board
    BY <1>2, <1>4, UndoGameType
  <2> HIDE DEF b, unwins
  <2>5. log' = hidden
    BY <1>3, <1>6, <1>7, <2>1 DEF UndoPoint
  <2>6. Kept
    <3>1. rapid' = [rapid EXCEPT ![t] = NoPair]
      BY <1>2, <2>1 DEF UndoPoint, Seeded
    <3> QED
      BY <1>4, <2>2, <3>1, NoPairsLeft DEF Kept, ReplayInv
  <2> QED
    BY <1>5, <2>2, <2>3, <2>4, <2>5, <2>6
<1>8. CASE r.action = "add_set"
  <2> DEFINE b == UndoSet(board, t)
  <2>1. RevokeSet(t, okPop, okAppend, n)
    BY <1>1, <1>8 DEF UndoRequest
  <2>2. board' = Save(b, curSet') /\ curSet' = SetOf(b) /\ Kept
    BY <2>1 DEF RevokeSet, Commit, SetOf, InvalidateRapidPairs, Kept, ReplayInv
  <2>3. Alike(b, p.board) /\ SetOf(b) = p.set
    BY <1>2, <1>3, <1>8, UndoTakesBack DEF t
  <2>4. b \in Board
    BY <1>2, <1>4, UndoSetType
  <2> HIDE DEF b
  <2>5. log' = hidden
    BY <1>3, <1>6, <1>8, <2>1 DEF RevokeSet
  <2> QED
    BY <1>5, <2>2, <2>3, <2>4, <2>5
<1>9. CASE r.action = "add_timeout"
  <2> DEFINE b == UndoTimeout(board, t)
  <2>1. CancelTimeout(t, okPop, okAppend, n)
    BY <1>1, <1>9 DEF UndoRequest
  <2>2. board' = Save(b, curSet') /\ curSet' = curSet /\ Kept
    BY <2>1 DEF CancelTimeout, Commit, InvalidateRapidPairs, Kept, ReplayInv
  <2>3. Alike(b, p.board) /\ curSet = p.set
    BY <1>2, <1>3, <1>9, UndoTakesBack DEF t
  <2>4. b \in Board
    BY <1>2, <1>4, UndoTimeoutType
  <2> HIDE DEF b
  <2>5. log' = hidden
    BY <1>3, <1>6, <1>9, <2>1 DEF CancelTimeout
  <2> QED
    BY <1>5, <2>2, <2>3, <2>4, <2>5
<1> QED
  BY <1>4, <1>7, <1>8, <1>9 DEF Undoable

\* What is not recorded shows the same: serves, limits that are set again, a start.
LEMMA SilentStepReplays ==
  ASSUME PlainUndo, ReplayInv, NEW n, NEW t \in Team,
         \/ ToggleServe(t, n) \/ StartMatch(n) \/ PairExpires(t)
         \/ \E r \in RuleSets : SetRules(r, n) \/ ReinitSession(r)
         \/ UNCHANGED vars
  PROVE  Kept /\ Shows' /\ UNCHANGED stack
<1>1. /\ OddSets /\ RuleSets = {InitialRules} /\ board \in Board /\ curSet \in SetNo
      /\ SetOf(board) = curSet
  BY PlainOutcomes, HereIsSound DEF ReplayInv, TypeOK
<1>2. Alike(board, board)
  BY DEF Alike
<1>3. CASE ToggleServe(t, n)
  <2> DEFINE b == ChangeServe(board, t, FALSE)
  <2>1. b \in Board /\ Alike(b, board)
    <3>1. b \in Board
      <4>1. t \in Serve
        BY DEF Serve, Team
      <4> QED
        BY <1>1, <4>1, ChangeServeType, Zenon
    <3> QED
      BY <1>1, <3>1 DEF ChangeServe, Board, Alike
  <2> HIDE DEF b
  <2>2. board' = Save(b, curSet') /\ curSet' = curSet /\ log' = log /\ Kept
    BY <1>3 DEF ToggleServe, Commit, AuditOther, InvalidateRapidPairs, Kept, ReplayInv, b
  <2>3. Alike(board', board)
    BY <2>1, <2>2, SaveAlike DEF Alike
  <2> QED
    BY <2>2, <2>3, SilentReplays
<1>4. CASE \E r \in RuleSets : SetRules(r, n)
  <2>1. SetRules(InitialRules, n)
    BY <1>1, <1>4
  <2>2. board' = Save(board, curSet') /\ curSet' = curSet /\ log' = log /\ Kept
    BY <1>1, <2>1 DEF SetRules, Commit, AuditOther, InvalidateRapidPairs, Kept, SetOf
  <2>3. Alike(board', board)
    BY <1>1, <2>2, SaveAlike
  <2> QED
    BY <2>2, <2>3, SilentReplays
<1>5. CASE \E r \in RuleSets : ReinitSession(r)
  <2>1. board' = board /\ curSet' = curSet /\ log' = log /\ Kept
    BY <1>1, <1>5 DEF ReinitSession, trail, Kept, ReplayInv
  <2> QED
    BY <1>2, <2>1, SilentReplays
<1>6. CASE StartMatch(n)
  <2>1. board' = board /\ curSet' = curSet /\ log' = log /\ Kept
    BY <1>6 DEF StartMatch, AuditOther, InvalidateRapidPairs, Kept, ReplayInv
  <2> QED
    BY <1>2, <2>1, SilentReplays
<1>7. ~PairExpires(t)
  BY NoPairsLeft DEF PairExpires, ReplayInv
<1>8. CASE UNCHANGED vars
  <2>1. board' = board /\ curSet' = curSet /\ log' = log /\ Kept
    BY <1>8 DEF vars, Kept, ReplayInv
  <2> QED
    BY <1>2, <2>1, SilentReplays
<1> QED
  BY <1>3, <1>4, <1>5, <1>6, <1>7, <1>8

LEMMA ResetReplays ==
  ASSUME PlainUndo, ReplayInv, NEW ok \in ClearOutcomes, Reset(ok)
  PROVE  Kept /\ Shows' /\ Stack!Clear
<1>1. /\ OddSets /\ log' = <<>> /\ rules' = InitialRules
      /\ board' = Save(ResetBoard, SetOf(ResetBoard)) /\ curSet' = SetOf(ResetBoard)
  BY PlainOutcomes DEF Reset, Commit, SetOf, ReplayInv
<1>2. Kept
  BY <1>1 DEF Reset, InvalidateRapidPairs, Kept
<1>3. SetOf(ResetBoard) = 1
  BY <1>1, StartSound DEF Start, Sound
<1>4. <<>> \in Seq(Record) /\ Len(<<>>) = 0
  BY EmptySeq
<1>5. Here' = Start
  BY <1>1, <1>4, PlayedSteps DEF Here
<1>6. Alike(board', ResetBoard)
  BY <1>1, ResetBoardType, SaveAlike
<1>7. Shows'
  BY <1>1, <1>3, <1>4, <1>5, <1>6 DEF Shows, Start, Orderly
<1>8. Tally(board, curSet)' = Tally(ResetBoard, 1) /\ Here.past' = <<>>
  BY <1>1, <1>3, <1>5, <1>6 DEF Tally, Alike, Start
<1> QED
  BY <1>2, <1>7, <1>8 DEF Stack!Clear, Here

Replays == Kept /\ Shows' /\ (Stack!Next \/ UNCHANGED stack)

LEMMA PlayReplays ==
  ASSUME PlainUndo, ReplayInv, TypeOK', Point \/ OtherForward \/ UndoStep
  PROVE  Replays
<1>1. ASSUME Kept, Shows', Stack!Do \/ Stack!Undo PROVE Replays
  BY <1>1, Zenon DEF Replays, Stack!Next
<1>2. CASE Point
  <2>1. PICK t \in Team, tag \in Tags, ok1 \in AppendOutcomes, ok2 \in AppendOutcomes, n \in RotationDrops :
          AddPoint(t, tag, ok1, n) \/ RecoverPoint(t, tag, ok1, ok2, n)
    BY <1>2 DEF Point
  <2>2. ~RecoverPoint(t, tag, ok1, ok2, n)
    BY NoPairsLeft DEF RecoverPoint, ReplayInv
  <2>3. Kept /\ Shows' /\ Stack!Do
    BY <2>1, <2>2, AddPointReplays, Zenon
  <2> QED
    BY <1>1, <2>3, Zenon
<1>3. CASE OtherForward
  <2>1. PICK t \in Team, ok \in AppendOutcomes, n \in RotationDrops :
          AwardSet(t, ok, n) \/ CallTimeout(t, ok, n) \/ ToggleServe(t, n)
    BY <1>3 DEF OtherForward
  <2>2. CASE ToggleServe(t, n)
    BY <2>2, SilentStepReplays, Zenon DEF Replays
  <2>3. CASE AwardSet(t, ok, n) \/ CallTimeout(t, ok, n)
    <3>1. Kept /\ Shows' /\ Stack!Do
      BY <2>3, OtherForwardReplays, Zenon
    <3> QED
      BY <1>1, <3>1, Zenon
  <2> QED
    BY <2>1, <2>2, <2>3, Zenon
<1>4. CASE UndoStep
  <2>1. PICK ok1 \in AppendOutcomes, ok2 \in AppendOutcomes, n \in RotationDrops :
          UndoLast(ok1, ok2, n)
    BY <1>4, PlainOutcomes DEF UndoStep, UndoOne
  <2>2. Kept /\ Shows' /\ Stack!Undo
    BY <2>1, UndoLastReplays, Zenon
  <2> QED
    BY <1>1, <2>2, Zenon
<1> QED
  BY <1>2, <1>3, <1>4, Zenon

LEMMA ManageReplays ==
  ASSUME PlainUndo, ReplayInv, Manage \/ (\E t \in Team : PairExpires(t)) \/ UNCHANGED vars
  PROVE  Replays
<1>1. 1 \in Team
  BY DEF Team
<1>2. ASSUME NEW n, \/ StartMatch(n) \/ UNCHANGED vars \/ \E t \in Team : PairExpires(t)
                   \/ \E r \in RuleSets : SetRules(r, n) \/ ReinitSession(r)
      PROVE  Replays
  <2>1. PICK t \in Team : StartMatch(n) \/ PairExpires(t) \/ UNCHANGED vars
                         \/ \E r \in RuleSets : SetRules(r, n) \/ ReinitSession(r)
    BY <1>1, <1>2, Zenon
  <2> QED
    BY <2>1, SilentStepReplays, Zenon DEF Replays
<1>3. ASSUME NEW ok \in ClearOutcomes, Reset(ok) PROVE Replays
  BY <1>3, ResetReplays, Zenon DEF Replays, Stack!Next
<1>4. CASE Manage
  <2>1. \/ \E r \in RuleSets, n \in RotationDrops : SetRules(r, n)
        \/ \E r \in RuleSets : ReinitSession(r)
        \/ \E n \in RotationDrops : StartMatch(n)
        \/ \E ok \in ClearOutcomes : Reset(ok)
    BY <1>4 DEF Manage
  <2> QED
    BY <1>2, <1>3, <2>1, Zenon
<1>5. CASE (\E t \in Team : PairExpires(t)) \/ UNCHANGED vars
  BY <1>2, <1>5, Zenon
<1> QED
  BY <1>4, <1>5, Zenon

LEMMA StepReplays ==
  ASSUME PlainUndo, ReplayInv, [Next]_vars
  PROVE  ReplayInv' /\ (Stack!Next \/ UNCHANGED stack)
<1>1. TypeOK' /\ dropped' = 0
  BY StepType, StepRotates DEF ReplayInv, PlainUndo
<1>2. ~Edit
  BY PlainOutcomes DEF Edit, SetScore, SetSets
<1>3. Replays
  BY <1>1, <1>2, PlayReplays, ManageReplays, Zenon DEF Next
<1>4. ReplayInv'
  BY <1>1, <1>3 DEF ReplayInv, Replays, Kept
<1> QED
  BY <1>3, <1>4, Zenon DEF Replays

\* Taken back by undo_last alone, with a log that is written and kept and limits that
\* stay, a match of an odd number of sets is an undo stack over its points and sets:
\* every action can be undone, in reverse order, and what was shown before it returns,
\* the set that a point had closed included, however long the match (game_actions.py,
\* undo_last; game_manager.py, add_game).
THEOREM UndoRestores ==
  ASSUME PlainUndo
  PROVE  Spec => UndoRestoresTheTally
<1>1. Init => ReplayInv /\ Stack!Init
  <2> SUFFICES ASSUME Init PROVE ReplayInv /\ Stack!Init
    OBVIOUS
  <2>1. TypeOK /\ dropped = 0 /\ rules = InitialRules /\ rapid = [t \in Team |-> NoPair] /\ log = <<>>
    BY InitType DEF Init
  <2>2. <<>> \in Seq(Record) /\ Len(<<>>) = 0
    BY EmptySeq
  <2>3. Here = Start
    BY <2>1, <2>2, PlayedSteps DEF Here
  <2>4. board = Start.board /\ curSet = Start.set /\ Start.past = <<>>
    BY DEF Init, Start
  <2>5. Shows
    BY <2>1, <2>2, <2>3, <2>4 DEF Shows, Orderly, Alike
  <2>6. Stack!Init
    BY <2>3, <2>4 DEF Stack!Init, Here, Start
  <2> QED
    BY <2>1, <2>5, <2>6 DEF ReplayInv
<1>2. ReplayInv /\ [Next]_vars => ReplayInv' /\ [Stack!Next]_stack
  BY StepReplays
<1> QED
  BY <1>1, <1>2, PTL DEF Spec, UndoRestoresTheTally, Stack!Spec, stack, Here
=============================================================================
