-------------------------- MODULE LifecycleProofs --------------------------
(***************************************************************************)
(* What holds of the claims on a board and of its sessions for any number  *)
(* of boards, requests of every kind and workers.                          *)
(***************************************************************************)
EXTENDS OverlayLifecycle, FiniteSetTheorems, SequenceTheorems, TLAPS

\* Whoever claims a board to use it.
Users == Mutators \cup Owners \cup Links

LEMMA Kinds ==
  /\ Threads = Users \cup Deleters \cup Admins
  /\ Users \cap Deleters = {} /\ Users \cap Admins = {} /\ Deleters \cap Admins = {}
  /\ \A t \in Users \cup Deleters : BoardOf[t] \in Boards
BY LifecycleAssumption DEF Threads, Users

Stages == {"start", "claimed", "audit", "save", "submit", "meta", "insert", "resolved", "open",
           "create", "discard", "discarding", "discarded", "release", "next", "remove", "shut",
           "barrier", "wait", "cleaned", "done"}

UsersOf(b) == {t \in Users : Inside(t) /\ BoardOf[t] = b}
DeletersOf(b) == {t \in Deleters : Inside(t) /\ BoardOf[t] = b}

GateTypes ==
  /\ pc \in [Threads -> Stages]
  /\ gate \in [Boards -> [users : Nat, deleting : BOOLEAN]]

\* The gate counts those inside, and a deletion is alone.
GateCounts == \A b \in Boards : gate[b].users = Cardinality(UsersOf(b))
GateGuards ==
  \A b \in Boards :
    /\ \A t \in DeletersOf(b) : gate[b].deleting
    /\ \A t, u \in DeletersOf(b) : t = u
    /\ gate[b].deleting => UsersOf(b) = {}

GateInv == GateTypes /\ GateCounts /\ GateGuards

LEMMA UsersFinite == ASSUME NEW b PROVE IsFiniteSet(UsersOf(b)) /\ Cardinality(UsersOf(b)) \in Nat
<1>1. UsersOf(b) \subseteq Threads
  BY Kinds DEF UsersOf
<1> QED
  BY <1>1, LifecycleAssumption, FS_Subset, FS_CardinalityType

LEMMA Moves ==
  ASSUME GateInv, NEW t \in Threads, NEW to \in Stages, Go(t, to)
  PROVE  /\ pc' \in [Threads -> Stages] /\ pc'[t] = to
         /\ \A u \in Threads : u # t => pc'[u] = pc[u] /\ Inside(u)' = Inside(u)
BY DEF GateInv, GateTypes, Go, Inside

\* Going on inside, or outside, changes nothing of that.
LEMMA GoesOn ==
  ASSUME GateInv, UNCHANGED gate, pc' \in [Threads -> Stages],
         \A t \in Users \cup Deleters : Inside(t)' = Inside(t)
  PROVE  GateInv'
<1>1. \A b : UsersOf(b)' = UsersOf(b) /\ DeletersOf(b)' = DeletersOf(b)
  BY DEF UsersOf, DeletersOf
<1>2. GateTypes'
  BY DEF GateInv, GateTypes
<1>3. GateCounts'
  BY <1>1 DEF GateInv, GateCounts
<1>4. GateGuards'
  BY <1>1 DEF GateInv, GateGuards
<1> QED
  BY <1>2, <1>3, <1>4 DEF GateInv

LEMMA UserEnters ==
  ASSUME GateInv, NEW t \in Users, ~Inside(t), BeginUse(BoardOf[t]),
         NEW to \in Stages, Go(t, to), to \notin {"start", "resolved", "done"}
  PROVE  GateInv'
<1> DEFINE d == BoardOf[t]
<1>1. d \in Boards /\ t \in Threads /\ t \notin Deleters
  BY Kinds
<1>2. /\ pc' \in [Threads -> Stages] /\ Inside(t)'
      /\ \A u \in Threads : u # t => Inside(u)' = Inside(u)
  BY <1>1, Moves DEF Inside
<1>3. \A b : DeletersOf(b)' = DeletersOf(b)
  BY <1>1, <1>2, Kinds DEF DeletersOf
<1>4. UsersOf(d)' = UsersOf(d) \cup {t} /\ t \notin UsersOf(d)
  BY <1>1, <1>2, Kinds DEF UsersOf
<1>5. \A b : b # d => UsersOf(b)' = UsersOf(b)
  BY <1>1, <1>2, Kinds DEF UsersOf
<1>6. /\ gate' \in [Boards -> [users : Nat, deleting : BOOLEAN]]
      /\ ~gate[d].deleting /\ ~gate'[d].deleting /\ gate'[d].users = gate[d].users + 1
      /\ \A b \in Boards : b # d => gate'[b] = gate[b]
  BY <1>1 DEF GateInv, GateTypes, BeginUse
<1>7. GateTypes'
  BY <1>2, <1>6 DEF GateTypes
<1>8. Cardinality(UsersOf(d)') = gate[d].users + 1
  BY <1>1, <1>4, UsersFinite, FS_AddElement DEF GateInv, GateCounts
<1>9. GateCounts'
  BY <1>5, <1>6, <1>8 DEF GateInv, GateCounts
<1>10. GateGuards'
  BY <1>3, <1>5, <1>6 DEF GateInv, GateGuards
<1> QED
  BY <1>7, <1>9, <1>10 DEF GateInv

LEMMA UserLeaves ==
  ASSUME GateInv, NEW t \in Users, Inside(t), EndUse(BoardOf[t]), Go(t, "done")
  PROVE  GateInv'
<1> DEFINE d == BoardOf[t]
<1>1. d \in Boards /\ t \in Threads /\ t \notin Deleters
  BY Kinds
<1>2. /\ pc' \in [Threads -> Stages] /\ ~Inside(t)'
      /\ \A u \in Threads : u # t => Inside(u)' = Inside(u)
  <2>1. /\ pc' \in [Threads -> Stages] /\ pc'[t] = "done"
        /\ \A u \in Threads : u # t => Inside(u)' = Inside(u)
    <3>1. "done" \in Stages
      BY DEF Stages
    <3> QED
      BY <1>1, <3>1, Moves
  <2> QED
    BY <2>1 DEF Inside
<1>3. \A b : DeletersOf(b)' = DeletersOf(b)
  BY <1>1, <1>2, Kinds DEF DeletersOf
<1>4. UsersOf(d)' = UsersOf(d) \ {t} /\ t \in UsersOf(d)
  BY <1>1, <1>2, Kinds DEF UsersOf
<1>5. \A b : b # d => UsersOf(b)' = UsersOf(b)
  BY <1>1, <1>2, Kinds DEF UsersOf
<1>6. /\ Cardinality(UsersOf(d)') = gate[d].users - 1 /\ gate[d].users - 1 \in Nat
  <2>1. IsFiniteSet(UsersOf(d)) /\ gate[d].users = Cardinality(UsersOf(d))
    BY <1>1, UsersFinite DEF GateInv, GateCounts
  <2>2. IsFiniteSet(UsersOf(d) \ {t}) /\ Cardinality(UsersOf(d) \ {t}) = Cardinality(UsersOf(d)) - 1
    BY <1>4, <2>1, FS_RemoveElement
  <2> QED
    BY <1>4, <2>1, <2>2, FS_CardinalityType
<1>7. /\ gate' \in [Boards -> [users : Nat, deleting : BOOLEAN]]
      /\ gate'[d].deleting = gate[d].deleting /\ gate'[d].users = gate[d].users - 1
      /\ \A b \in Boards : b # d => gate'[b] = gate[b]
  BY <1>1, <1>6 DEF GateInv, GateTypes, EndUse
<1>8. GateTypes'
  BY <1>2, <1>7 DEF GateTypes
<1>9. GateCounts'
  BY <1>5, <1>6, <1>7 DEF GateInv, GateCounts
<1>10. GateGuards'
  BY <1>3, <1>4, <1>5, <1>7 DEF GateInv, GateGuards
<1> QED
  BY <1>8, <1>9, <1>10 DEF GateInv

LEMMA DeleterClaims ==
  ASSUME GateInv, NEW t \in Deleters, ~Inside(t), BeginDelete(BoardOf[t]), Go(t, "claimed")
  PROVE  GateInv'
<1> DEFINE d == BoardOf[t]
<1>1. d \in Boards /\ t \in Threads /\ t \notin Users
  BY Kinds
<1>2. /\ pc' \in [Threads -> Stages] /\ Inside(t)'
      /\ \A u \in Threads : u # t => Inside(u)' = Inside(u)
  <2>1. /\ pc' \in [Threads -> Stages] /\ pc'[t] = "claimed"
        /\ \A u \in Threads : u # t => Inside(u)' = Inside(u)
    <3>1. "claimed" \in Stages
      BY DEF Stages
    <3> QED
      BY <1>1, <3>1, Moves
  <2> QED
    BY <2>1 DEF Inside
<1>3. \A b : UsersOf(b)' = UsersOf(b)
  BY <1>1, <1>2, Kinds DEF UsersOf
<1>4. DeletersOf(d)' = DeletersOf(d) \cup {t} /\ \A b : b # d => DeletersOf(b)' = DeletersOf(b)
  BY <1>1, <1>2, Kinds DEF DeletersOf
<1>5. /\ gate' \in [Boards -> [users : Nat, deleting : BOOLEAN]]
      /\ ~gate[d].deleting /\ gate[d].users = 0
      /\ gate'[d].deleting /\ gate'[d].users = gate[d].users
      /\ \A b \in Boards : b # d => gate'[b] = gate[b]
  BY <1>1 DEF GateInv, GateTypes, BeginDelete
<1>6. GateTypes'
  BY <1>2, <1>5 DEF GateTypes
<1>7. GateCounts'
  BY <1>3, <1>5 DEF GateInv, GateCounts
<1>8. UsersOf(d) = {} /\ DeletersOf(d) = {}
  BY <1>1, <1>5, UsersFinite, FS_EmptySet DEF GateInv, GateCounts, GateGuards
<1>9. GateGuards'
  BY <1>3, <1>4, <1>5, <1>8 DEF GateInv, GateGuards
<1> QED
  BY <1>6, <1>7, <1>9 DEF GateInv

LEMMA DeleterReturns ==
  ASSUME GateInv, NEW t \in Deleters, Inside(t), EndDelete(BoardOf[t]), Go(t, "done")
  PROVE  GateInv'
<1> DEFINE d == BoardOf[t]
<1>1. d \in Boards /\ t \in Threads /\ t \notin Users /\ t \in DeletersOf(d)
  BY Kinds DEF DeletersOf
<1>2. /\ pc' \in [Threads -> Stages] /\ ~Inside(t)'
      /\ \A u \in Threads : u # t => Inside(u)' = Inside(u)
  <2>1. /\ pc' \in [Threads -> Stages] /\ pc'[t] = "done"
        /\ \A u \in Threads : u # t => Inside(u)' = Inside(u)
    <3>1. "done" \in Stages
      BY DEF Stages
    <3> QED
      BY <1>1, <3>1, Moves
  <2> QED
    BY <2>1 DEF Inside
<1>3. \A b : UsersOf(b)' = UsersOf(b)
  BY <1>1, <1>2, Kinds DEF UsersOf
<1>4. DeletersOf(d)' = {} /\ \A b : b # d => DeletersOf(b)' = DeletersOf(b)
  BY <1>1, <1>2, Kinds DEF DeletersOf, GateInv, GateGuards
<1>5. /\ gate' \in [Boards -> [users : Nat, deleting : BOOLEAN]]
      /\ ~gate'[d].deleting /\ gate'[d].users = gate[d].users
      /\ \A b \in Boards : b # d => gate'[b] = gate[b]
  BY <1>1 DEF GateInv, GateTypes, EndDelete
<1>6. GateTypes'
  BY <1>2, <1>5 DEF GateTypes
<1>7. GateCounts'
  BY <1>3, <1>5 DEF GateInv, GateCounts
<1>8. GateGuards'
  BY <1>3, <1>4, <1>5 DEF GateInv, GateGuards
<1> QED
  BY <1>6, <1>7, <1>8 DEF GateInv

-----------------------------------------------------------------------------
(* The steps of the requests, as far as the gate sees them. *)

Outside == {"start", "resolved", "done"}

\* A thread that goes on: inside, or outside, or an admin, whom the gate ignores.
LEMMA Proceeds ==
  ASSUME GateInv, NEW t \in Threads, NEW to \in Stages, Go(t, to), UNCHANGED gate,
         t \in Admins \/ (pc[t] \in Outside <=> to \in Outside)
  PROVE  GateInv'
<1>1. /\ pc' \in [Threads -> Stages] /\ pc'[t] = to
      /\ \A u \in Threads : u # t => Inside(u)' = Inside(u)
  BY Moves
<1>2. t \in Users \cup Deleters => Inside(t)' = Inside(t)
  BY <1>1, Kinds DEF Inside, Outside
<1>3. \A u \in Users \cup Deleters : Inside(u)' = Inside(u)
  BY <1>1, <1>2, Kinds
<1> QED
  BY <1>1, <1>3, GoesOn

LEMMA GateMutate ==
  ASSUME GateInv, NEW t \in Threads, Mutate(t)
  PROVE  GateInv'
<1>1. CASE MutatorEnters(t)
  <2>1. t \in Users /\ ~Inside(t) /\ BeginUse(BoardOf[t]) /\ Go(t, "claimed")
    BY <1>1 DEF MutatorEnters, At, Inside, Users
  <2>2. "claimed" \in Stages
    BY DEF Stages
  <2> QED
    BY <2>1, <2>2, UserEnters
<1>2. CASE \/ MutatorFinds(t) \/ MutatorAudits(t) \/ MutatorSaves(t)
           \/ MutatorSubmits(t) \/ MutatorPersists(t)
  <2>1. PICK to \in Stages \ Outside : Go(t, to) /\ pc[t] \notin Outside /\ UNCHANGED gate
    <3>1. \A to \in {"release", "audit", "save", "meta", "submit"} : to \in Stages \ Outside
      BY DEF Stages, Outside
    <3> QED
      BY <1>2, <3>1 DEF MutatorFinds, MutatorAudits, MutatorSaves, MutatorSubmits, MutatorPersists,
        At, Outside, claims
  <2> QED
    BY <2>1, Proceeds
<1> QED
  BY <1>1, <1>2 DEF Mutate

LEMMA GateOpen ==
  ASSUME GateInv, NEW t \in Threads, Open(t)
  PROVE  GateInv'
<1>1. CASE OwnerEnters(t) \/ LinkEnters(t)
  <2>1. t \in Users /\ ~Inside(t) /\ BeginUse(BoardOf[t]) /\ Go(t, "claimed")
    BY <1>1 DEF OwnerEnters, LinkEnters, At, Inside, Users
  <2>2. "claimed" \in Stages
    BY DEF Stages
  <2> QED
    BY <2>1, <2>2, UserEnters
<1>2. CASE LinkResolves(t) \/ NotAllowed(t)
  <2>1. PICK to \in Stages \cap Outside : Go(t, to) /\ pc[t] \in Outside /\ UNCHANGED gate
    <3>1. \A to \in {"resolved", "done"} : to \in Stages \cap Outside
      BY DEF Stages, Outside
    <3> QED
      BY <1>2, <3>1 DEF LinkResolves, NotAllowed, At, Outside, claims
  <2> QED
    BY <2>1, Proceeds
<1>3. CASE \/ OwnerLooks(t) \/ OwnerInserts(t) \/ OwnerDuplicates(t) \/ OwnerFails(t)
           \/ OwnerDiscards(t) \/ OwnerReaps(t) \/ OwnerDeletes(t) \/ LinkChecks(t)
           \/ OpenState(t) \/ OpenSession(t)
  <2>1. PICK to \in Stages \ Outside : Go(t, to) /\ pc[t] \notin Outside /\ UNCHANGED gate
    <3>1. \A to \in {"open", "insert", "release", "discard", "discarding", "discarded", "create"} :
            to \in Stages \ Outside
      BY DEF Stages, Outside
    <3> QED
      BY <1>3, <3>1 DEF OwnerLooks, OwnerInserts, OwnerDuplicates, OwnerFails, OwnerDiscards,
        OwnerReaps, OwnerDeletes, LinkChecks, OpenState, OpenSession, At, Outside, claims
  <2> QED
    BY <2>1, Proceeds
<1> QED
  BY <1>1, <1>2, <1>3 DEF Open

LEMMA GateDelete ==
  ASSUME GateInv, NEW t \in Threads, Delete(t)
  PROVE  GateInv'
<1>1. CASE DeleterEnters(t)
  <2>1. t \in Deleters /\ ~Inside(t) /\ BeginDelete(BoardOf[t]) /\ Go(t, "claimed")
    BY <1>1 DEF DeleterEnters, At, Inside
  <2> QED
    BY <2>1, DeleterClaims
<1>2. CASE DeleterLeaves(t)
  <2>1. t \in Deleters /\ Inside(t) /\ EndDelete(BoardOf[t]) /\ Go(t, "done")
    BY <1>2 DEF DeleterLeaves, At, Inside
  <2> QED
    BY <2>1, DeleterReturns
<1>3. CASE AdminCommits(t) \/ AdminPicks(t)
  <2>1. PICK to \in Stages : Go(t, to) /\ t \in Admins /\ UNCHANGED gate
    <3>1. \A to \in {"next", "done", "remove"} : to \in Stages
      BY DEF Stages
    <3> QED
      BY <1>3, <3>1 DEF AdminCommits, AdminPicks, At, claims
  <2> QED
    BY <2>1, Proceeds
<1>4. CASE \/ DeleterCommits(t) \/ RemoverLocks(t) \/ RemoverShuts(t) \/ RemoverSubmits(t)
           \/ AdminAdvances(t)
  <2>1. PICK to \in Stages \ Outside : Go(t, to) /\ pc[t] \notin Outside /\ UNCHANGED gate
    <3>1. \A to \in {"remove", "cleaned", "shut", "barrier", "wait", "next"} :
            to \in Stages \ Outside
      BY DEF Stages, Outside
    <3> QED
      BY <1>4, <3>1 DEF DeleterCommits, RemoverLocks, RemoverShuts, RemoverSubmits,
        AdminAdvances, At, Outside, claims
  <2> QED
    BY <2>1, Proceeds
<1> QED
  BY <1>1, <1>2, <1>3, <1>4 DEF Delete

LEMMA GateStep ==
  ASSUME GateInv, NEW t \in Threads, Step(t)
  PROVE  GateInv'
<1>1. CASE Busy(t)
  <2>1. "done" \in Stages \cap Outside
    BY DEF Stages, Outside
  <2>2. Go(t, "done") /\ pc[t] \in Outside /\ UNCHANGED gate
    BY <1>1 DEF Busy, claims, Outside
  <2> QED
    BY <2>1, <2>2, Proceeds
<1>2. CASE Leaves(t)
  <2>1. t \in Users /\ Inside(t) /\ EndUse(BoardOf[t]) /\ Go(t, "done")
    BY <1>2, Kinds DEF Leaves, At, Inside
  <2> QED
    BY <2>1, UserLeaves
<1> QED
  BY <1>1, <1>2, GateMutate, GateOpen, GateDelete DEF Step

-----------------------------------------------------------------------------
(* The executor's part: the work under way and waiting, and who waits for it. *)

TaskSteps == {"push", "reap", "shut", "files"}
Task == [board : Boards, by : Threads, step : TaskSteps]
Barrier(k) == k.step # "push"

WorkTypes == active \subseteq Task /\ fifo \in [Boards -> Seq(Task)]

\* Whoever has a barrier in the executor waits for it, and has only that one.
Awaited ==
  /\ \A k \in active : Barrier(k) => pc[k.by] = "wait"
  /\ \A b \in Boards : \A i \in DOMAIN fifo[b] : Barrier(fifo[b][i]) => pc[fifo[b][i].by] = "wait"
OnlyOne ==
  /\ \A k, l \in active : Barrier(k) /\ Barrier(l) /\ k.by = l.by => k = l
  /\ \A k \in active : \A b \in Boards : \A i \in DOMAIN fifo[b] :
       Barrier(k) /\ Barrier(fifo[b][i]) => k.by # fifo[b][i].by
  /\ \A b, c \in Boards : \A i \in DOMAIN fifo[b], j \in DOMAIN fifo[c] :
       Barrier(fifo[b][i]) /\ Barrier(fifo[c][j]) /\ fifo[b][i].by = fifo[c][j].by
         => b = c /\ i = j

WorkInv == WorkTypes /\ Awaited /\ OnlyOne

\* No work moves, and nobody who waits.
LEMMA WorkRests ==
  ASSUME WorkInv, UNCHANGED work, \A t \in Threads : pc[t] = "wait" => pc'[t] = "wait"
  PROVE  WorkInv'
<1>1. active' = active /\ fifo' = fifo
  BY DEF work
<1>2. \A k \in active : k.by \in Threads
  BY DEF WorkInv, WorkTypes, Task
<1>3. \A b \in Boards : \A i \in DOMAIN fifo[b] : fifo[b][i].by \in Threads
  <2> SUFFICES ASSUME NEW b \in Boards, NEW i \in DOMAIN fifo[b]
               PROVE  fifo[b][i].by \in Threads
    OBVIOUS
  <2>1. fifo[b] \in Seq(Task)
    BY DEF WorkInv, WorkTypes
  <2>2. fifo[b][i] \in Task
    BY <2>1
  <2> QED
    BY <2>2 DEF Task
<1>4. Awaited'
  BY <1>1, <1>2, <1>3 DEF WorkInv, Awaited
<1>5. OnlyOne'
  BY <1>1 DEF WorkInv, OnlyOne
<1> QED
  BY <1>1, <1>4, <1>5 DEF WorkInv, WorkTypes

LEMMA InTask == ASSUME WorkInv, NEW b \in Boards, NEW i \in DOMAIN fifo[b]
                PROVE  /\ fifo[b] \in Seq(Task) /\ fifo[b][i] \in Task /\ fifo[b][i].by \in Threads
                       /\ i \in 1..Len(fifo[b])
<1>1. fifo[b] \in Seq(Task)
  BY DEF WorkInv, WorkTypes
<1>2. fifo[b][i] \in Task /\ i \in 1..Len(fifo[b])
  BY <1>1
<1> QED
  BY <1>1, <1>2 DEF Task

\* Work is accepted: a push, or the barrier of one that begins to wait.
LEMMA WorkAccepted ==
  ASSUME WorkInv, pc \in [Threads -> Stages],
         NEW b \in Boards, NEW t \in Threads, NEW step \in {"push", "reap"},
         Submit(b, t, step), pc[t] # "wait",
         \A u \in Threads : u # t => pc'[u] = pc[u],
         step = "reap" => pc'[t] = "wait"
  PROVE  WorkInv'
<1> DEFINE task == [board |-> b, by |-> t, step |-> step]
<1>1. task \in Task /\ (Barrier(task) => pc'[t] = "wait") /\ task.by = t
  BY DEF Task, TaskSteps, Barrier
<1>2. \A k \in active : k.by \in Threads /\ (Barrier(k) => k.by # t /\ pc'[k.by] = "wait")
  BY DEF WorkInv, WorkTypes, Awaited, Task
<1>3. \A c \in Boards : \A i \in DOMAIN fifo[c] :
        Barrier(fifo[c][i]) => fifo[c][i].by # t /\ pc'[fifo[c][i].by] = "wait"
  BY InTask DEF WorkInv, Awaited
<1>4. CASE active' = active \cup {task} /\ fifo' = fifo
  <2>1. WorkTypes'
    BY <1>1, <1>4 DEF WorkInv, WorkTypes
  <2>2. Awaited'
    BY <1>1, <1>2, <1>3, <1>4 DEF Awaited
  <2>3. OnlyOne'
    BY <1>1, <1>2, <1>3, <1>4 DEF WorkInv, OnlyOne
  <2> QED
    BY <2>1, <2>2, <2>3 DEF WorkInv
<1>5. CASE active' = active /\ fifo' = [fifo EXCEPT ![b] = Append(@, task)]
  <2>1. /\ fifo \in [Boards -> Seq(Task)] /\ fifo' \in [Boards -> Seq(Task)]
        /\ fifo'[b] = Append(fifo[b], task) /\ \A c \in Boards : c # b => fifo'[c] = fifo[c]
    BY <1>1, <1>5 DEF WorkInv, WorkTypes
  <2>2. \A c \in Boards : \A i \in DOMAIN fifo'[c] :
          \/ i \in DOMAIN fifo[c] /\ fifo'[c][i] = fifo[c][i]
          \/ c = b /\ i = Len(fifo[b]) + 1 /\ fifo'[c][i] = task
    <3>1. \A i \in DOMAIN fifo'[b] : \/ i \in DOMAIN fifo[b] /\ fifo'[b][i] = fifo[b][i]
                                     \/ i = Len(fifo[b]) + 1 /\ fifo'[b][i] = task
      <4>1. fifo[b] \in Seq(Task)
        BY <2>1
      <4> QED
        BY <1>1, <2>1, <4>1
    <3> QED
      BY <2>1, <3>1
  <2>3. WorkTypes'
    BY <1>5, <2>1 DEF WorkInv, WorkTypes
  <2>4. Awaited'
    BY <1>1, <1>2, <1>3, <1>5, <2>2 DEF Awaited
  <2>5. OnlyOne'
    BY <1>1, <1>2, <1>3, <1>5, <2>2 DEF WorkInv, OnlyOne
  <2> QED
    BY <2>3, <2>4, <2>5 DEF WorkInv
<1> QED
  BY <1>4, <1>5 DEF Submit

\* A barrier goes a step further.
LEMMA WorkBecomes ==
  ASSUME WorkInv, pc' = pc, fifo' = fifo, NEW k \in active, Barrier(k),
         NEW step \in TaskSteps, step # "push", Becomes(k, step)
  PROVE  WorkInv'
<1> DEFINE l == [k EXCEPT !.step = step]
<1>1. k \in Task /\ l \in Task /\ Barrier(l) /\ l.by = k.by
  BY DEF WorkInv, WorkTypes, Task, Barrier
<1>2. active' = (active \ {k}) \cup {l}
  BY DEF Becomes
<1>3. WorkTypes'
  BY <1>1, <1>2 DEF WorkInv, WorkTypes
<1>4. Awaited'
  BY <1>1, <1>2 DEF WorkInv, Awaited
<1>5. OnlyOne'
  <2>1. \A p \in active : p # k /\ Barrier(p) => p.by # l.by
    BY <1>1 DEF WorkInv, OnlyOne
  <2>2. \A c \in Boards : \A i \in DOMAIN fifo[c] : Barrier(fifo[c][i]) => fifo[c][i].by # l.by
    BY <1>1 DEF WorkInv, OnlyOne
  <2> HIDE DEF l
  <2>3. \A p, q \in active' : Barrier(p) /\ Barrier(q) /\ p.by = q.by => p = q
    BY <1>2, <2>1 DEF WorkInv, OnlyOne
  <2>4. \A p \in active' : \A c \in Boards : \A i \in DOMAIN fifo[c] :
          Barrier(p) /\ Barrier(fifo[c][i]) => p.by # fifo[c][i].by
    BY <1>2, <2>2 DEF WorkInv, OnlyOne
  <2> QED
    BY <2>3, <2>4 DEF WorkInv, OnlyOne
<1> QED
  BY <1>3, <1>4, <1>5 DEF WorkInv

\* Work is finished, and with a barrier the wait for it.
LEMMA WorkFinished ==
  ASSUME WorkInv, NEW k \in active, Finish(k),
         \A t \in Threads : pc[t] = "wait" /\ pc'[t] # "wait" => Barrier(k) /\ t = k.by
  PROVE  WorkInv'
<1> DEFINE rest == active \ {k}
<1>1. \A l \in rest : Barrier(l) => l.by \in Threads /\ pc'[l.by] = "wait"
  BY DEF WorkInv, WorkTypes, Awaited, OnlyOne, Task
<1>2. \A c \in Boards : \A i \in DOMAIN fifo[c] : Barrier(fifo[c][i]) => pc'[fifo[c][i].by] = "wait"
  BY InTask DEF WorkInv, Awaited, OnlyOne
<1>3. CASE active' = rest /\ fifo' = fifo
  <2>1. Awaited'
    BY <1>1, <1>2, <1>3 DEF Awaited
  <2>2. OnlyOne'
    BY <1>3 DEF WorkInv, OnlyOne
  <2> QED
    BY <1>3, <2>1, <2>2 DEF WorkInv, WorkTypes
<1>4. CASE \E b \in Boards : /\ fifo[b] # <<>>
                             /\ active' = rest \cup {Head(fifo[b])}
                             /\ fifo' = [fifo EXCEPT ![b] = Tail(@)]
  <2>1. PICK b \in Boards : /\ fifo[b] # <<>>
                            /\ active' = rest \cup {Head(fifo[b])}
                            /\ fifo' = [fifo EXCEPT ![b] = Tail(@)]
    BY <1>4
  <2> DEFINE h == fifo[b][1]
  <2>2. fifo[b] \in Seq(Task) /\ 1 \in DOMAIN fifo[b] /\ h = Head(fifo[b]) /\ h \in Task
    <3>1. fifo[b] \in Seq(Task)
      BY DEF WorkInv, WorkTypes
    <3> QED
      BY <2>1, <3>1
  <2>3. /\ fifo' \in [Boards -> Seq(Task)] /\ fifo'[b] = Tail(fifo[b])
        /\ \A c \in Boards : c # b => fifo'[c] = fifo[c]
    BY <2>1, <2>2 DEF WorkInv, WorkTypes
  <2>4. \A i \in DOMAIN fifo'[b] : i \in Nat /\ i + 1 \in DOMAIN fifo[b] /\ i + 1 # 1
                                   /\ fifo'[b][i] = fifo[b][i + 1]
    BY <2>1, <2>2, <2>3
  <2> DEFINE at(c, i) == IF c = b THEN i + 1 ELSE i
  <2>5. \A c \in Boards : \A i \in DOMAIN fifo'[c] :
          /\ at(c, i) \in DOMAIN fifo[c] /\ fifo'[c][i] = fifo[c][at(c, i)]
          /\ c = b => i \in Nat /\ at(c, i) # 1
    BY <2>3, <2>4
  <2>6. WorkTypes'
    BY <2>1, <2>2, <2>3 DEF WorkInv, WorkTypes
  <2> HIDE DEF at, h
  <2>7. Awaited'
    <3>1. \A p \in active' : Barrier(p) => pc'[p.by] = "wait"
      BY <1>1, <1>2, <2>1, <2>2 DEF h
    <3>2. \A c \in Boards : \A i \in DOMAIN fifo'[c] :
            Barrier(fifo'[c][i]) => pc'[fifo'[c][i].by] = "wait"
      BY <1>2, <2>5
    <3> QED
      BY <3>1, <3>2 DEF Awaited
  <2>8. OnlyOne'
    <3>1. \A l \in rest : Barrier(l) /\ Barrier(h) => l.by # h.by
      BY <2>2 DEF WorkInv, OnlyOne, h
    <3>2. \A p, q \in active' : Barrier(p) /\ Barrier(q) /\ p.by = q.by => p = q
      BY <2>1, <2>2, <3>1 DEF WorkInv, OnlyOne
    <3>3. \A p \in active' : \A c \in Boards : \A i \in DOMAIN fifo'[c] :
            Barrier(p) /\ Barrier(fifo'[c][i]) => p.by # fifo'[c][i].by
      <4> SUFFICES ASSUME NEW p \in active', NEW c \in Boards, NEW i \in DOMAIN fifo'[c],
                          Barrier(p), Barrier(fifo'[c][i])
                   PROVE  p.by # fifo'[c][i].by
        OBVIOUS
      <4>1. at(c, i) \in DOMAIN fifo[c] /\ fifo'[c][i] = fifo[c][at(c, i)]
            /\ (c = b => at(c, i) # 1)
        BY <2>5
      <4>2. CASE p \in rest
        BY <4>1, <4>2 DEF WorkInv, OnlyOne
      <4>3. CASE p = h
        BY <2>2, <4>1, <4>3 DEF WorkInv, OnlyOne, h
      <4> QED
        BY <2>1, <2>2, <4>2, <4>3
    <3>4. \A c, d \in Boards : \A i \in DOMAIN fifo'[c], j \in DOMAIN fifo'[d] :
            Barrier(fifo'[c][i]) /\ Barrier(fifo'[d][j]) /\ fifo'[c][i].by = fifo'[d][j].by
              => c = d /\ i = j
      <4> SUFFICES ASSUME NEW c \in Boards, NEW d \in Boards,
                          NEW i \in DOMAIN fifo'[c], NEW j \in DOMAIN fifo'[d],
                          Barrier(fifo'[c][i]), Barrier(fifo'[d][j]),
                          fifo'[c][i].by = fifo'[d][j].by
                   PROVE  c = d /\ i = j
        OBVIOUS
      <4>1. c = d /\ at(c, i) = at(d, j)
        BY <2>5 DEF WorkInv, OnlyOne
      <4>2. c = b => i \in Nat /\ j \in Nat
        BY <2>5, <4>1
      <4> QED
        BY <4>1, <4>2 DEF at
    <3> QED
      BY <3>2, <3>3, <3>4 DEF OnlyOne
  <2> QED
    BY <2>6, <2>7, <2>8 DEF WorkInv
<1> QED
  BY <1>3, <1>4 DEF Finish

-----------------------------------------------------------------------------
(* The executor and the requests, together. *)

\* None of the handlers of a request lets go of a wait.
LEMMA StepsDoNotWait ==
  ASSUME GateInv, NEW t \in Threads, Step(t)
  PROVE  /\ pc[t] # "wait" /\ \A u \in Threads : u # t => pc'[u] = pc[u]
         /\ pc' \in [Threads -> Stages]
<1>1. PICK to : Go(t, to) /\ pc[t] # "wait"
  <2>1. CASE Mutate(t)
    BY <2>1 DEF Mutate, MutatorEnters, MutatorFinds, MutatorAudits, MutatorSaves, MutatorSubmits,
      MutatorPersists, At
  <2>2. CASE Open(t)
    <3>1. CASE OwnerEnters(t) \/ OwnerLooks(t) \/ OwnerInserts(t) \/ OwnerDuplicates(t)
      BY <3>1 DEF OwnerEnters, OwnerLooks, OwnerInserts, OwnerDuplicates, At
    <3>2. CASE OwnerFails(t) \/ OwnerDiscards(t) \/ OwnerReaps(t) \/ OwnerDeletes(t)
      BY <3>2 DEF OwnerFails, OwnerDiscards, OwnerReaps, OwnerDeletes, At
    <3>3. CASE \/ LinkResolves(t) \/ LinkEnters(t) \/ LinkChecks(t) \/ NotAllowed(t)
               \/ OpenState(t) \/ OpenSession(t)
      BY <3>3 DEF LinkResolves, LinkEnters, LinkChecks, NotAllowed, OpenState, OpenSession, At
    <3> QED
      BY <2>2, <3>1, <3>2, <3>3 DEF Open
  <2>3. CASE Delete(t)
    BY <2>3 DEF Delete, DeleterEnters, DeleterCommits, AdminCommits, AdminPicks, RemoverLocks,
      RemoverShuts, RemoverSubmits, DeleterLeaves, AdminAdvances, At
  <2>4. CASE Busy(t) \/ Leaves(t)
    BY <2>4 DEF Busy, Leaves, At
  <2> QED
    BY <2>1, <2>2, <2>3, <2>4 DEF Step
<1>2. GateInv'
  BY GateStep
<1> QED
  BY <1>1, <1>2 DEF Go, GateInv, GateTypes

\* Only a submission moves the work of the executor.
LEMMA StepsSubmit ==
  ASSUME NEW t \in Threads, Step(t)
  PROVE  UNCHANGED work \/ MutatorSubmits(t) \/ RemoverSubmits(t)
<1>1. CASE Mutate(t)
  BY <1>1 DEF Mutate, MutatorEnters, MutatorFinds, MutatorAudits, MutatorSaves, MutatorPersists
<1>2. CASE Open(t)
  BY <1>2 DEF Open, OwnerEnters, OwnerLooks, OwnerInserts, OwnerDuplicates, OwnerFails,
    OwnerDiscards, OwnerReaps, OwnerDeletes, LinkResolves, LinkEnters, LinkChecks, NotAllowed,
    OpenState, OpenSession
<1>3. CASE Delete(t)
  BY <1>3 DEF Delete, DeleterEnters, DeleterCommits, AdminCommits, AdminPicks, RemoverLocks,
    RemoverShuts, DeleterLeaves, AdminAdvances
<1>4. CASE Busy(t) \/ Leaves(t)
  BY <1>4 DEF Busy, Leaves
<1> QED
  BY <1>1, <1>2, <1>3, <1>4 DEF Step

-----------------------------------------------------------------------------
(* Whom a removal is about. *)

AdminStages == {"start", "next", "remove", "shut", "barrier", "wait", "cleaned", "done"}
Removing == {"remove", "shut", "barrier", "wait", "cleaned"}

RemovalInv ==
  /\ row \subseteq Boards /\ todo \in [Admins -> SUBSET Boards]
  /\ \A t \in Admins : pc[t] \in AdminStages /\ (pc[t] \in Removing => todo[t] # {})

LEMMA TargetIsABoard ==
  ASSUME RemovalInv, NEW t \in Threads, pc[t] \in Removing
  PROVE  Target(t) \in Boards
<1>1. CASE t \in Admins
  <2>1. todo[t] # {} /\ todo[t] \subseteq Boards
    BY <1>1 DEF RemovalInv
  <2>2. Target(t) \in todo[t]
    BY <1>1, <2>1 DEF Target
  <2> QED
    BY <2>1, <2>2
<1>2. CASE t \notin Admins
  BY <1>2, Kinds DEF Target
<1> QED
  BY <1>1, <1>2

\* Who opens a board does so for one that is his.
LEMMA OpensABoard ==
  ASSUME RemovalInv, NEW t \in Threads, pc[t] \notin AdminStages
  PROVE  t \notin Admins /\ BoardOf[t] \in Boards
BY Kinds DEF RemovalInv

LEMMA RemovalGoesOn ==
  ASSUME RemovalInv, pc \in [Threads -> Stages], NEW t \in Threads, NEW to, Go(t, to),
         UNCHANGED todo, row' \subseteq Boards,
         t \in Admins => to \in AdminStages /\ (to \in Removing => todo[t] # {})
  PROVE  RemovalInv'
BY Kinds DEF RemovalInv, Go

LEMMA RemovalStep ==
  ASSUME GateInv, RemovalInv, NEW t \in Threads, Step(t)
  PROVE  RemovalInv'
<1> USE DEF GateInv, GateTypes
<1>1. CASE Mutate(t) \/ Busy(t) \/ Leaves(t)
  <2>1. t \notin Admins /\ row' = row /\ todo' = todo /\ \E to : Go(t, to)
    BY <1>1, Kinds DEF Mutate, MutatorEnters, MutatorFinds, MutatorAudits, MutatorSaves,
      MutatorSubmits, MutatorPersists, Busy, Leaves, At, Users, claims
  <2> QED
    BY <2>1, RemovalGoesOn DEF RemovalInv
<1>2. CASE Open(t)
  <2>1. t \notin Admins
    <3>1. \A s \in {"discard", "discarding", "discarded", "open", "create"} : s \notin AdminStages
      BY DEF AdminStages
    <3>2. CASE \/ OwnerDiscards(t) \/ OwnerReaps(t) \/ OwnerDeletes(t)
               \/ OpenState(t) \/ OpenSession(t)
      BY <3>1, <3>2, OpensABoard DEF OwnerDiscards, OwnerReaps, OwnerDeletes, OpenState,
        OpenSession, At
    <3>3. CASE \/ OwnerEnters(t) \/ OwnerLooks(t) \/ OwnerInserts(t) \/ OwnerDuplicates(t)
               \/ OwnerFails(t) \/ LinkResolves(t) \/ LinkEnters(t) \/ LinkChecks(t)
               \/ NotAllowed(t)
      BY <3>3, Kinds, LifecycleAssumption DEF OwnerEnters, OwnerLooks, OwnerInserts,
        OwnerDuplicates, OwnerFails, LinkResolves, LinkEnters, LinkChecks, NotAllowed, Users
    <3> QED
      BY <1>2, <3>2, <3>3 DEF Open
  <2>2. row' \subseteq row \cup {BoardOf[t]} /\ todo' = todo /\ \E to : Go(t, to)
    <3>1. CASE OwnerEnters(t) \/ OwnerLooks(t) \/ OwnerInserts(t) \/ OwnerDuplicates(t)
      BY <3>1 DEF OwnerEnters, OwnerLooks, OwnerInserts, OwnerDuplicates, At, claims
    <3>2. CASE OwnerFails(t) \/ OwnerDiscards(t) \/ OwnerReaps(t) \/ OwnerDeletes(t)
      BY <3>2 DEF OwnerFails, OwnerDiscards, OwnerReaps, OwnerDeletes, At, claims
    <3>3. CASE \/ LinkResolves(t) \/ LinkEnters(t) \/ LinkChecks(t) \/ NotAllowed(t)
               \/ OpenState(t) \/ OpenSession(t)
      BY <3>3 DEF LinkResolves, LinkEnters, LinkChecks, NotAllowed, OpenState, OpenSession, At,
        claims
    <3> QED
      BY <1>2, <3>1, <3>2, <3>3 DEF Open
  <2>3. row' \subseteq Boards
    BY <2>1, <2>2, Kinds DEF RemovalInv
  <2> QED
    BY <2>1, <2>2, <2>3, RemovalGoesOn
<1>3. CASE Delete(t)
  <2>1. CASE DeleterEnters(t) \/ DeleterCommits(t) \/ DeleterLeaves(t)
    <3>1. t \notin Admins /\ row' \subseteq row /\ todo' = todo /\ \E to : Go(t, to)
      BY <2>1, Kinds DEF DeleterEnters, DeleterCommits, DeleterLeaves, At
    <3> QED
      BY <3>1, RemovalGoesOn DEF RemovalInv
  <2>2. CASE RemoverLocks(t) \/ RemoverShuts(t) \/ RemoverSubmits(t)
    <3>1. PICK to \in Removing : Go(t, to) /\ pc[t] \in Removing
      BY <2>2 DEF RemoverLocks, RemoverShuts, RemoverSubmits, At, Removing
    <3>2. row' = row /\ todo' = todo
      BY <2>2 DEF RemoverLocks, RemoverShuts, RemoverSubmits, claims
    <3>3. Removing \subseteq AdminStages
      BY DEF Removing, AdminStages
    <3> QED
      BY <3>1, <3>2, <3>3, RemovalGoesOn DEF RemovalInv
  <2>3. CASE AdminCommits(t)
    <3>1. t \in Admins /\ row' = {} /\ todo' = [todo EXCEPT ![t] = row] /\ Go(t, "next")
      BY <2>3 DEF AdminCommits, At
    <3>2. "next" \in AdminStages /\ "next" \notin Removing
      BY DEF AdminStages, Removing
    <3> QED
      BY <3>1, <3>2, Kinds DEF RemovalInv, Go
  <2>4. CASE AdminPicks(t)
    <3>1. PICK to \in {"done", "remove"} : Go(t, to) /\ (to = "remove" => todo[t] # {})
      BY <2>4 DEF AdminPicks
    <3>2. row' = row /\ todo' = todo
      BY <2>4 DEF AdminPicks, claims
    <3>3. to \in AdminStages /\ (to \in Removing => to = "remove")
      BY <3>1 DEF AdminStages, Removing
    <3> QED
      BY <3>1, <3>2, <3>3, RemovalGoesOn DEF RemovalInv
  <2>5. CASE AdminAdvances(t)
    <3>1. t \in Admins /\ row' = row /\ Go(t, "next")
          /\ \E gone : todo' = [todo EXCEPT ![t] = @ \ {gone}]
      BY <2>5 DEF AdminAdvances, At, claims
    <3>2. "next" \in AdminStages /\ "next" \notin Removing
      BY DEF AdminStages, Removing
    <3>3. todo' \in [Admins -> SUBSET Boards] /\ \A u \in Admins : u # t => todo'[u] = todo[u]
      BY <3>1 DEF RemovalInv
    <3> QED
      BY <3>1, <3>2, <3>3, Kinds DEF RemovalInv, Go
  <2> QED
    BY <1>3, <2>1, <2>2, <2>3, <2>4, <2>5 DEF Delete
<1> QED
  BY <1>1, <1>2, <1>3 DEF Step

-----------------------------------------------------------------------------
(* The invariant of the claims: requests and executor. *)

LEMMA ClaimsStep ==
  ASSUME GateInv, WorkInv, RemovalInv, NEW t \in Threads, Step(t)
  PROVE  GateInv' /\ WorkInv' /\ RemovalInv'
<1>1. GateInv' /\ RemovalInv'
  BY GateStep, RemovalStep
<1>2. /\ pc \in [Threads -> Stages] /\ pc[t] # "wait"
      /\ \A u \in Threads : u # t => pc'[u] = pc[u]
  BY StepsDoNotWait DEF GateInv, GateTypes
<1>3. CASE UNCHANGED work
  BY <1>2, <1>3, WorkRests, <1>1
<1>4. CASE MutatorSubmits(t)
  <2>1. Submit(BoardOf[t], t, "push") /\ BoardOf[t] \in Boards
    BY <1>4, Kinds DEF MutatorSubmits, Users
  <2> QED
    BY <1>1, <1>2, <2>1, WorkAccepted
<1>5. CASE RemoverSubmits(t)
  <2>1. Submit(Target(t), t, "reap") /\ pc[t] = "barrier" /\ Go(t, "wait")
    BY <1>5 DEF RemoverSubmits, At
  <2>2. Target(t) \in Boards /\ pc'[t] = "wait"
    BY <1>2, <2>1, TargetIsABoard DEF Removing, Go
  <2> QED
    BY <1>1, <1>2, <2>1, <2>2, WorkAccepted
<1> QED
  BY <1>3, <1>4, <1>5, StepsSubmit

LEMMA ClaimsExecute ==
  ASSUME GateInv, WorkInv, RemovalInv, NEW k \in active, Execute(k)
  PROVE  GateInv' /\ WorkInv' /\ RemovalInv'
<1>1. k \in Task /\ k.by \in Threads
  BY DEF WorkInv, WorkTypes, Task
<1>2. CASE PushTask(k) \/ BarrierRemoves(k) \/ BarrierShuts(k)
  <2>1. pc' = pc /\ gate' = gate /\ row' = row /\ todo' = todo
    BY <1>2 DEF PushTask, BarrierRemoves, BarrierShuts, claims
  <2>2. GateInv'
    BY <2>1, GoesOn DEF Inside, GateInv, GateTypes
  <2>3. RemovalInv'
    BY <2>1 DEF RemovalInv
  <2>4. WorkInv'
    <3>1. CASE PushTask(k)
      <4>1. Finish(k)
        BY <3>1 DEF PushTask
      <4> QED
        BY <2>1, <4>1, WorkFinished
    <3>2. CASE BarrierRemoves(k)
      <4>1. Barrier(k) /\ Becomes(k, "shut") /\ fifo' = fifo /\ "shut" \in TaskSteps
        BY <3>2 DEF BarrierRemoves, Barrier, TaskSteps
      <4> QED
        BY <2>1, <4>1, WorkBecomes
    <3>3. CASE BarrierShuts(k)
      <4>1. Barrier(k) /\ Becomes(k, "files") /\ fifo' = fifo /\ "files" \in TaskSteps
        BY <3>3 DEF BarrierShuts, Barrier, TaskSteps
      <4> QED
        BY <2>1, <4>1, WorkBecomes
    <3> QED
      BY <1>2, <3>1, <3>2, <3>3
  <2> QED
    BY <2>2, <2>3, <2>4
<1>3. CASE BarrierDeletes(k)
  <2>1. /\ Barrier(k) /\ Finish(k) /\ Go(k.by, "cleaned")
        /\ gate' = gate /\ row' = row /\ todo' = todo
    BY <1>3 DEF BarrierDeletes, Barrier, claims
  <2>2. pc[k.by] = "wait" /\ "cleaned" \in Stages
    BY <2>1 DEF WorkInv, Awaited, Stages
  <2>3. /\ pc' \in [Threads -> Stages] /\ pc'[k.by] = "cleaned"
        /\ \A u \in Threads : u # k.by => pc'[u] = pc[u]
    BY <1>1, <2>1, <2>2 DEF GateInv, GateTypes, Go
  <2>4. GateInv'
    <3>1. pc[k.by] \notin Outside /\ "cleaned" \notin Outside
      BY <2>2 DEF Outside
    <3> QED
      BY <1>1, <2>1, <2>2, <3>1, Proceeds
  <2>5. WorkInv'
    BY <2>1, <2>3, WorkFinished
  <2>6. RemovalInv'
    <3>1. "cleaned" \in AdminStages /\ "wait" \in Removing
      BY DEF AdminStages, Removing
    <3> QED
      BY <1>1, <2>1, <2>2, <3>1, RemovalGoesOn DEF RemovalInv, GateInv, GateTypes
  <2> QED
    BY <2>4, <2>5, <2>6
<1> QED
  BY <1>2, <1>3 DEF Execute

-----------------------------------------------------------------------------
(* The sessions. *)

SessionInv ==
  /\ made \in Nat /\ current \in [Boards -> 0..made] /\ shut \subseteq 1..made
  /\ \A b \in Boards : current[b] \notin shut
  /\ \A b, c \in Boards : current[b] = current[c] /\ current[b] # 0 => b = c

LEMMA SessionEnds ==
  ASSUME SessionInv, NEW b \in Boards, NEW p, ShutAndDrop(p, b), made' = made
  PROVE  SessionInv'
<1>1. /\ current' = [current EXCEPT ![b] = 0] /\ shut' = shut \cup ({current[b]} \ {0})
  BY DEF ShutAndDrop
<1>2. /\ made \in Nat /\ current \in [Boards -> 0..made] /\ shut \subseteq 1..made
  BY DEF SessionInv
<1>3. current' \in [Boards -> 0..made] /\ shut' \subseteq 1..made
  <2>1. current[b] \in 0..made /\ 0 \in 0..made
    BY <1>2
  <2>2. {current[b]} \ {0} \subseteq 1..made
    BY <1>2, <2>1
  <2> QED
    BY <1>1, <1>2, <2>1, <2>2
<1>4. current'[b] = 0 /\ \A c \in Boards : c # b => current'[c] = current[c]
  BY <1>1, <1>2
<1>5. \A c \in Boards : current'[c] \notin shut'
  <2> SUFFICES ASSUME NEW c \in Boards
               PROVE  current'[c] \notin shut'
    OBVIOUS
  <2>1. CASE c = b
    BY <1>3, <1>4, <2>1
  <2>2. CASE c # b
    BY <1>1, <1>4, <2>2 DEF SessionInv
  <2> QED
    BY <2>1, <2>2
<1>6. \A c, d \in Boards : current'[c] = current'[d] /\ current'[c] # 0 => c = d
  BY <1>4 DEF SessionInv
<1> QED
  BY <1>2, <1>3, <1>5, <1>6 DEF SessionInv

LEMMA SessionBegins ==
  ASSUME SessionInv, NEW b \in Boards, made' = made + 1, shut' = shut,
         current' = [current EXCEPT ![b] = made + 1]
  PROVE  SessionInv'
<1>1. /\ made \in Nat /\ current \in [Boards -> 0..made] /\ shut \subseteq 1..made
  BY DEF SessionInv
<1>2. /\ made' \in Nat /\ current' \in [Boards -> 0..made'] /\ shut' \subseteq 1..made'
  BY <1>1
<1>3. current'[b] = made + 1 /\ \A c \in Boards : c # b => current'[c] = current[c]
  BY <1>1
<1>4. \A c \in Boards : current'[c] \notin shut'
  BY <1>1, <1>3 DEF SessionInv
<1>5. \A c, d \in Boards : current'[c] = current'[d] /\ current'[c] # 0 => c = d
  <2>1. \A c \in Boards : current[c] # made + 1
    BY <1>1
  <2> QED
    BY <1>3, <2>1 DEF SessionInv
<1> QED
  BY <1>2, <1>4, <1>5 DEF SessionInv

LEMMA SessionRests ==
  ASSUME SessionInv, UNCHANGED <<current, shut, made>>
  PROVE  SessionInv'
BY DEF SessionInv

LEMMA SessionStep ==
  ASSUME RemovalInv, SessionInv, NEW t \in Threads, Step(t)
  PROVE  SessionInv'
<1>1. CASE Mutate(t) \/ Busy(t) \/ Leaves(t)
  BY <1>1, SessionRests DEF Mutate, MutatorEnters, MutatorFinds, MutatorAudits, MutatorSaves,
    MutatorSubmits, MutatorPersists, Busy, Leaves, sessions
<1>2. CASE OwnerReaps(t) \/ OpenSession(t)
  <2>1. pc[t] \in {"discarding", "create"}
    BY <1>2 DEF OwnerReaps, OpenSession, At
  <2>2. BoardOf[t] \in Boards
    BY <2>1, OpensABoard DEF AdminStages
  <2>3. CASE OwnerReaps(t)
    <3>1. ShutAndDrop(t, BoardOf[t]) /\ made' = made
      BY <2>3 DEF OwnerReaps
    <3> QED
      BY <2>2, <3>1, SessionEnds
  <2>4. CASE OpenSession(t)
    <3>1. \/ UNCHANGED <<current, shut, made>>
          \/ /\ made' = made + 1 /\ shut' = shut
             /\ current' = [current EXCEPT ![BoardOf[t]] = made + 1]
      BY <2>4 DEF OpenSession
    <3> QED
      BY <2>2, <3>1, SessionRests, SessionBegins
  <2> QED
    BY <1>2, <2>3, <2>4
<1>3. CASE \/ OwnerEnters(t) \/ OwnerLooks(t) \/ OwnerInserts(t) \/ OwnerDuplicates(t)
           \/ OwnerFails(t) \/ OwnerDiscards(t) \/ OwnerDeletes(t) \/ LinkResolves(t)
           \/ LinkEnters(t) \/ LinkChecks(t) \/ NotAllowed(t) \/ OpenState(t)
  BY <1>3, SessionRests DEF OwnerEnters, OwnerLooks, OwnerInserts, OwnerDuplicates, OwnerFails,
    OwnerDiscards, OwnerDeletes, LinkResolves, LinkEnters, LinkChecks, NotAllowed, OpenState,
    sessions
<1>4. CASE RemoverShuts(t)
  <2>1. pc[t] \in Removing /\ ShutAndDrop(t, Target(t)) /\ made' = made
    BY <1>4 DEF RemoverShuts, At, Removing
  <2> QED
    BY <2>1, TargetIsABoard, SessionEnds
<1>5. CASE \/ DeleterEnters(t) \/ DeleterCommits(t) \/ AdminCommits(t) \/ AdminPicks(t)
           \/ RemoverLocks(t) \/ RemoverSubmits(t) \/ DeleterLeaves(t) \/ AdminAdvances(t)
  BY <1>5, SessionRests DEF DeleterEnters, DeleterCommits, AdminCommits, AdminPicks,
    RemoverLocks, RemoverSubmits, DeleterLeaves, AdminAdvances, sessions
<1> QED
  BY <1>1, <1>2, <1>3, <1>4, <1>5 DEF Step, Open, Delete

LEMMA SessionExecute ==
  ASSUME WorkInv, SessionInv, NEW k \in active, Execute(k)
  PROVE  SessionInv'
<1>1. CASE PushTask(k) \/ BarrierRemoves(k) \/ BarrierDeletes(k)
  BY <1>1, SessionRests DEF PushTask, BarrierRemoves, BarrierDeletes, sessions
<1>2. CASE BarrierShuts(k)
  <2>1. ShutAndDrop(k.by, k.board) /\ made' = made /\ k.board \in Boards
    BY <1>2 DEF BarrierShuts, WorkInv, WorkTypes, Task
  <2> QED
    BY <2>1, SessionEnds
<1> QED
  BY <1>1, <1>2 DEF Execute

-----------------------------------------------------------------------------
(* The queue of the executor: one board's work never overlaps, and what waits  *)
(* waits for a worker or for the work of its own board.                        *)

ServeInv ==
  /\ IsFiniteSet(active) /\ Cardinality(active) <= Workers
  /\ \A k, l \in active : k.board = l.board => k = l
  /\ \A b \in Boards : \A i \in DOMAIN fifo[b] :
       fifo[b][i].board = b /\ fifo[b][i].step \in {"push", "reap"}
  /\ \A b \in Boards :
       fifo[b] # <<>> => Cardinality(active) = Workers \/ \E k \in active : k.board = b

LEMMA ActiveCounted ==
  ASSUME ServeInv
  PROVE  /\ Cardinality(active) \in Nat /\ Workers \in Nat \ {0}
         /\ \A k \in active : /\ IsFiniteSet(active \ {k}) /\ k \notin active \ {k}
                              /\ Cardinality(active \ {k}) = Cardinality(active) - 1
                              /\ Cardinality(active) >= 1
<1>1. IsFiniteSet(active) /\ Cardinality(active) \in Nat /\ Workers \in Nat \ {0}
  BY LifecycleAssumption, FS_CardinalityType DEF ServeInv
<1>2. ASSUME NEW k \in active
      PROVE  /\ IsFiniteSet(active \ {k}) /\ Cardinality(active \ {k}) = Cardinality(active) - 1
             /\ Cardinality(active) >= 1
  <2>1. IsFiniteSet(active \ {k}) /\ Cardinality(active \ {k}) = Cardinality(active) - 1
    BY <1>1, FS_RemoveElement
  <2>2. Cardinality(active \ {k}) \in Nat
    BY <2>1, FS_CardinalityType
  <2> QED
    BY <1>1, <2>1, <2>2
<1> QED
  BY <1>1, <1>2

LEMMA ServeAccepts ==
  ASSUME WorkInv, ServeInv, NEW b \in Boards, NEW t \in Threads, NEW step \in {"push", "reap"},
         Submit(b, t, step)
  PROVE  ServeInv'
<1> DEFINE task == [board |-> b, by |-> t, step |-> step]
<1>1. IsFiniteSet(active) /\ Cardinality(active) \in Nat /\ Workers \in Nat
      /\ Cardinality(active) <= Workers
  BY ActiveCounted DEF ServeInv
<1>2. CASE Startable(active, b) /\ active' = active \cup {task} /\ fifo' = fifo
  <2>1. /\ Cardinality(active) < Workers /\ \A k \in active : k.board # b
        /\ task \notin active /\ task.board = b
    BY <1>2 DEF Startable
  <2> HIDE DEF task
  <2>2. IsFiniteSet(active') /\ Cardinality(active') = Cardinality(active) + 1
    BY <1>1, <1>2, <2>1, FS_AddElement
  <2>3. \A k, l \in active' : k.board = l.board => k = l
    BY <1>2, <2>1 DEF ServeInv
  <2>4. \A c \in Boards : fifo'[c] # <<>> => \E k \in active' : k.board = c
    BY <1>1, <1>2, <2>1 DEF ServeInv
  <2> QED
    BY <1>1, <1>2, <2>1, <2>2, <2>3, <2>4 DEF ServeInv
<1>3. CASE ~Startable(active, b) /\ active' = active /\ fifo' = [fifo EXCEPT ![b] = Append(@, task)]
  <2>1. Cardinality(active) = Workers \/ \E k \in active : k.board = b
    BY <1>1, <1>3 DEF Startable
  <2>2. /\ fifo[b] \in Seq(Task) /\ fifo'[b] = Append(fifo[b], task)
        /\ \A c \in Boards : c # b => fifo'[c] = fifo[c]
    BY <1>3 DEF WorkInv, WorkTypes
  <2>3. \A i \in DOMAIN fifo'[b] : \/ i \in DOMAIN fifo[b] /\ fifo'[b][i] = fifo[b][i]
                                   \/ fifo'[b][i] = task
    BY <2>2
  <2>4. task.board = b /\ task.step \in {"push", "reap"}
    OBVIOUS
  <2> HIDE DEF task
  <2>5. \A c \in Boards : \A i \in DOMAIN fifo'[c] :
          fifo'[c][i].board = c /\ fifo'[c][i].step \in {"push", "reap"}
    BY SMTT(30), <2>2, <2>3, <2>4 DEF ServeInv
  <2> QED
    BY <1>3, <2>1, <2>2, <2>5 DEF ServeInv
<1> QED
  BY <1>2, <1>3 DEF Submit

LEMMA ServeBecomes ==
  ASSUME WorkInv, ServeInv, fifo' = fifo, NEW k \in active, NEW step, Becomes(k, step)
  PROVE  ServeInv'
<1> DEFINE l == [k EXCEPT !.step = step]
           rest == active \ {k}
<1>1. k \in Task /\ l.board = k.board
  BY DEF WorkInv, WorkTypes, Task
<1>2. active' = rest \cup {l}
  BY DEF Becomes
<1> HIDE DEF l
<1>3. \A p \in rest : p.board # l.board
  BY <1>1 DEF ServeInv
<1>4. /\ IsFiniteSet(rest) /\ Cardinality(rest) = Cardinality(active) - 1
      /\ Cardinality(active) \in Nat
  BY ActiveCounted
<1>5. IsFiniteSet(active') /\ Cardinality(active') = Cardinality(active)
  <2>1. l \notin rest
    BY <1>3
  <2>2. IsFiniteSet(rest \cup {l}) /\ Cardinality(rest \cup {l}) = Cardinality(rest) + 1
    BY <1>4, <2>1, FS_AddElement
  <2> QED
    BY <1>2, <1>4, <2>2
<1>6. \A p, q \in active' : p.board = q.board => p = q
  BY <1>2, <1>3 DEF ServeInv
<1>7. \A c \in Boards : (\E p \in active : p.board = c) => \E p \in active' : p.board = c
  BY <1>1, <1>2
<1> QED
  BY <1>5, <1>6, <1>7 DEF ServeInv

LEMMA TailFollows ==
  ASSUME NEW S, NEW s \in Seq(S), s # <<>>
  PROVE  \A i \in DOMAIN Tail(s) : /\ i \in Nat /\ i + 1 \in DOMAIN s /\ i + 1 # 1
                                    /\ Tail(s)[i] = s[i + 1]
OBVIOUS

LEMMA ServeFinishes ==
  ASSUME WorkInv, ServeInv, NEW k \in active, Finish(k)
  PROVE  ServeInv'
<1> DEFINE rest == active \ {k}
           next == {b \in Boards : fifo[b] # <<>> /\ Startable(rest, b)}
<1>1. /\ IsFiniteSet(rest) /\ Cardinality(rest) = Cardinality(active) - 1
      /\ Cardinality(active) \in Nat /\ Workers \in Nat /\ Cardinality(active) <= Workers
      /\ Cardinality(rest) < Workers
  BY ActiveCounted DEF ServeInv
<1>2. CASE next = {} /\ active' = rest /\ fifo' = fifo
  <2>1. \A b \in Boards : fifo[b] # <<>> => \E p \in rest : p.board = b
    BY <1>1, <1>2 DEF Startable
  <2>2. \A p, q \in rest : p.board = q.board => p = q
    BY DEF ServeInv
  <2>3. Cardinality(rest) <= Workers
    BY <1>1
  <2> QED
    BY <1>1, <1>2, <2>1, <2>2, <2>3 DEF ServeInv
<1>3. CASE \E b \in next : /\ active' = rest \cup {Head(fifo[b])}
                           /\ fifo' = [fifo EXCEPT ![b] = Tail(@)]
  <2>1. PICK b \in Boards : /\ fifo[b] # <<>> /\ Startable(rest, b)
                            /\ active' = rest \cup {Head(fifo[b])}
                            /\ fifo' = [fifo EXCEPT ![b] = Tail(@)]
    BY <1>3
  <2> DEFINE h == Head(fifo[b])
  <2>2. /\ fifo[b] \in Seq(Task) /\ fifo'[b] = Tail(fifo[b])
        /\ \A c \in Boards : c # b => fifo'[c] = fifo[c]
    BY <2>1 DEF WorkInv, WorkTypes
  <2>3. 1 \in DOMAIN fifo[b] /\ h = fifo[b][1]
    BY <2>1, <2>2
  <2>4. h.board = b
    BY <2>3 DEF ServeInv
  <2> HIDE DEF h
  <2>5. \A p \in rest : p.board # b
    BY <2>1 DEF Startable
  <2>6. IsFiniteSet(active') /\ Cardinality(active') = Cardinality(active)
    <3>1. h \notin rest /\ active' = rest \cup {h}
      BY <2>1, <2>4, <2>5 DEF h
    <3> QED
      BY <1>1, <3>1, FS_AddElement
  <2>7. \A p, q \in active' : p.board = q.board => p = q
    BY <2>1, <2>4, <2>5 DEF ServeInv, h
  <2>8. \A i \in DOMAIN fifo'[b] :
          i \in Nat /\ i + 1 \in DOMAIN fifo[b] /\ i + 1 # 1 /\ fifo'[b][i] = fifo[b][i + 1]
    <3>1. fifo[b] \in Seq(Task) /\ fifo[b] # <<>>
      BY <2>1, <2>2
    <3>2. \A i \in DOMAIN Tail(fifo[b]) :
            /\ i \in Nat /\ i + 1 \in DOMAIN fifo[b] /\ i + 1 # 1
            /\ Tail(fifo[b])[i] = fifo[b][i + 1]
      BY <3>1, TailFollows
    <3>3. fifo'[b] = Tail(fifo[b])
      BY <2>2
    <3> QED
      BY <3>2, <3>3
  <2>9. \A c \in Boards : \A i \in DOMAIN fifo'[c] :
          fifo'[c][i].board = c /\ fifo'[c][i].step \in {"push", "reap"}
    <3> SUFFICES ASSUME NEW c \in Boards, NEW i \in DOMAIN fifo'[c]
                 PROVE  fifo'[c][i].board = c /\ fifo'[c][i].step \in {"push", "reap"}
      OBVIOUS
    <3>1. CASE c = b
      BY <2>8, <3>1 DEF ServeInv
    <3>2. CASE c # b
      BY <2>2, <3>2 DEF ServeInv
    <3> QED
      BY <3>1, <3>2
  <2>10. \A c \in Boards : fifo'[c] # <<>> =>
           Cardinality(active') = Workers \/ \E p \in active' : p.board = c
    <3> SUFFICES ASSUME NEW c \in Boards, fifo'[c] # <<>>, Cardinality(active) # Workers
                 PROVE  \E p \in active' : p.board = c
      BY <2>6
    <3>1. PICK p \in active : p.board = b
      BY <2>1 DEF ServeInv
    <3>2. p = k
      BY <2>5, <3>1
    <3>3. CASE c = b
      BY <2>1, <2>4, <3>3 DEF h
    <3>4. CASE c # b
      <4>1. PICK q \in active : q.board = c
        BY <2>2, <3>4 DEF ServeInv
      <4>2. q # k
        BY <3>1, <3>2, <3>4, <4>1
      <4> QED
        BY <2>1, <4>1, <4>2
    <3> QED
      BY <3>3, <3>4
  <2> QED
    BY <1>1, <2>6, <2>7, <2>9, <2>10 DEF ServeInv
<1> QED
  BY <1>2, <1>3 DEF Finish

LEMMA ServeStep ==
  ASSUME WorkInv, RemovalInv, ServeInv, NEW t \in Threads, Step(t)
  PROVE  ServeInv'
<1>1. CASE UNCHANGED work
  BY <1>1 DEF work, ServeInv
<1>2. CASE MutatorSubmits(t)
  <2>1. Submit(BoardOf[t], t, "push") /\ BoardOf[t] \in Boards
    BY <1>2, Kinds DEF MutatorSubmits, Users
  <2> QED
    BY <2>1, ServeAccepts
<1>3. CASE RemoverSubmits(t)
  <2>1. Submit(Target(t), t, "reap") /\ pc[t] = "barrier"
    BY <1>3 DEF RemoverSubmits, At
  <2>2. Target(t) \in Boards
    BY <2>1, TargetIsABoard DEF Removing
  <2> QED
    BY <2>1, <2>2, ServeAccepts
<1> QED
  BY <1>1, <1>2, <1>3, StepsSubmit

LEMMA ServeExecute ==
  ASSUME WorkInv, ServeInv, NEW k \in active, Execute(k)
  PROVE  ServeInv'
<1>1. Finish(k) \/ (fifo' = fifo /\ \E step : Becomes(k, step))
  BY DEF Execute, PushTask, BarrierRemoves, BarrierShuts, BarrierDeletes
<1> QED
  BY <1>1, ServeFinishes, ServeBecomes

-----------------------------------------------------------------------------
(* Who can be where. *)

StagesOf(t) ==
  CASE t \in Mutators -> {"start", "claimed", "audit", "save", "submit", "meta", "release", "done"}
    [] t \in Owners -> {"start", "claimed", "insert", "open", "create", "discard", "discarding",
                        "discarded", "release", "done"}
    [] t \in Links -> {"start", "resolved", "claimed", "open", "create", "release", "done"}
    [] t \in Deleters -> {"start", "claimed", "remove", "shut", "barrier", "wait", "cleaned", "done"}
    [] OTHER -> AdminStages
KindInv == \A t \in Threads : pc[t] \in StagesOf(t)

LEMMA Goers ==
  /\ \A t \in Mutators : StagesOf(t) = {"start", "claimed", "audit", "save", "submit", "meta",
                                        "release", "done"}
  /\ \A t \in Owners : StagesOf(t) = {"start", "claimed", "insert", "open", "create", "discard",
                                      "discarding", "discarded", "release", "done"}
  /\ \A t \in Links : StagesOf(t) = {"start", "resolved", "claimed", "open", "create", "release",
                                     "done"}
  /\ \A t \in Deleters : StagesOf(t) = {"start", "claimed", "remove", "shut", "barrier", "wait",
                                        "cleaned", "done"}
  /\ \A t \in Admins : StagesOf(t) = AdminStages
BY LifecycleAssumption DEF StagesOf

LEMMA KindMoves ==
  ASSUME GateInv, KindInv, NEW t \in Threads, NEW to \in StagesOf(t), Go(t, to)
  PROVE  KindInv'
BY DEF KindInv, Go, GateInv, GateTypes

LEMMA KindStep ==
  ASSUME GateInv, KindInv, NEW t \in Threads, Step(t)
  PROVE  KindInv'
<1> SUFFICES \E to \in StagesOf(t) : Go(t, to)
  BY KindMoves
<1>1. pc[t] \in StagesOf(t) /\ t \in Mutators \cup Owners \cup Links \cup Deleters \cup Admins
  BY DEF KindInv, Threads
<1>2. CASE Mutate(t)
  BY <1>2, Goers DEF Mutate, MutatorEnters, MutatorFinds, MutatorAudits, MutatorSaves,
    MutatorSubmits, MutatorPersists, At
<1>3. CASE \/ OwnerEnters(t) \/ OwnerLooks(t) \/ OwnerInserts(t) \/ OwnerDuplicates(t)
           \/ OwnerFails(t)
  <2>1. t \in Owners
    BY <1>3, LifecycleAssumption DEF OwnerEnters, OwnerLooks, OwnerInserts, OwnerDuplicates,
      OwnerFails
  <2> QED
    BY <1>3, <2>1, Goers DEF OwnerEnters, OwnerLooks, OwnerInserts, OwnerDuplicates,
      OwnerFails, At
<1>4. CASE LinkResolves(t) \/ LinkEnters(t) \/ LinkChecks(t) \/ NotAllowed(t)
  BY <1>4, Goers DEF LinkResolves, LinkEnters, LinkChecks, NotAllowed, At
<1>5. CASE \/ OwnerDiscards(t) \/ OwnerReaps(t) \/ OwnerDeletes(t) \/ OpenState(t)
           \/ OpenSession(t)
  BY <1>1, <1>5, Goers DEF OwnerDiscards, OwnerReaps, OwnerDeletes, OpenState, OpenSession, At,
    AdminStages
<1>6. CASE \/ DeleterEnters(t) \/ DeleterCommits(t) \/ DeleterLeaves(t) \/ AdminCommits(t)
           \/ AdminPicks(t) \/ AdminAdvances(t)
  BY <1>6, Goers DEF DeleterEnters, DeleterCommits, DeleterLeaves, AdminCommits, AdminPicks,
    AdminAdvances, At, AdminStages
<1>7. CASE RemoverLocks(t) \/ RemoverShuts(t) \/ RemoverSubmits(t)
  BY <1>1, <1>7, Goers DEF RemoverLocks, RemoverShuts, RemoverSubmits, At, AdminStages
<1>8. CASE Busy(t) \/ Leaves(t)
  BY <1>1, <1>8, Goers DEF Busy, Leaves, At
<1> QED
  BY <1>2, <1>3, <1>4, <1>5, <1>6, <1>7, <1>8 DEF Step, Open, Delete

LEMMA KindExecute ==
  ASSUME GateInv, WorkInv, KindInv, NEW k \in active, Execute(k)
  PROVE  KindInv'
<1>1. CASE PushTask(k) \/ BarrierRemoves(k) \/ BarrierShuts(k)
  BY <1>1 DEF PushTask, BarrierRemoves, BarrierShuts, KindInv
<1>2. CASE BarrierDeletes(k)
  <2>1. Go(k.by, "cleaned") /\ pc[k.by] = "wait" /\ k.by \in Threads
    BY <1>2 DEF BarrierDeletes, WorkInv, WorkTypes, Awaited, Barrier, Task
  <2>2. "cleaned" \in StagesOf(k.by)
    BY <2>1, Goers, Kinds DEF KindInv, Users, AdminStages
  <2> QED
    BY <2>1, <2>2, KindMoves
<1> QED
  BY <1>1, <1>2 DEF Execute

-----------------------------------------------------------------------------
(* The rest holds while the account is there.  An open transaction has its row, *)
(* and whoever opens a board has one to open it for.                            *)

Undecided == {"open", "create", "release"}
RowInv ==
  /\ \A t \in Admins : pc[t] = "start"
  /\ writer # "free" => /\ writer \in Owners /\ BoardOf[writer] \in row
                        /\ pc[writer] \in Undecided
  /\ \A t \in Owners \cup Links : pc[t] \in {"open", "create"} => BoardOf[t] \in Committed \/ t = writer

(* A barrier is the last work of its board. *)
BarrierInv ==
  /\ \A k \in active :
       Barrier(k) => k.by \in Deleters /\ BoardOf[k.by] = k.board /\ fifo[k.board] = <<>>
  /\ \A b \in Boards : \A i \in DOMAIN fifo[b] :
       Barrier(fifo[b][i]) => /\ fifo[b][i].by \in Deleters /\ BoardOf[fifo[b][i].by] = b
                              /\ i = Len(fifo[b])

(* What there is of a board without a row: whoever added to it had a row, or    *)
(* is the one who takes it away.                                                *)
Scoring == {"audit", "save", "submit", "meta"}
Goes(b, stages) == \E t \in Deleters : BoardOf[t] = b /\ pc[t] \in stages
Undoes(b, stages) == \E t \in Owners : BoardOf[t] = b /\ pc[t] \in stages
Leaving == {"remove", "shut", "barrier", "wait"}
Known(b) == b \in Committed \/ Goes(b, Leaving)

KeptFor(b) ==
  /\ \A t \in Mutators : BoardOf[t] = b /\ pc[t] \in Scoring => b \in Committed
  /\ \A k \in Tasks : k.board = b /\ k.step = "push" => Known(b)
  /\ "log" \in files[b] => Known(b)
  /\ current[b] # 0 => \/ b \in row \/ Goes(b, {"remove", "shut"})
                       \/ Undoes(b, {"discard", "discarding"})
  /\ files[b] # {} => \/ b \in row \/ Goes(b, Leaving)
                      \/ Undoes(b, {"discard", "discarding", "discarded"})

KeptInv == \A b \in Boards \ early : KeptFor(b)

FilesInv == files \in [Boards -> SUBSET Files] /\ early \subseteq Boards
RuntimeInv == FilesInv /\ (account => RowInv /\ BarrierInv /\ KeptInv)

\* Nobody's account comes back, and as long as it is there no admin has begun.
LEMMA AccountHolds ==
  ASSUME NEW t \in Threads, Step(t), account'
  PROVE  account
<1>1. CASE AdminCommits(t)
  BY <1>1 DEF AdminCommits
<1>2. CASE Mutate(t) \/ Busy(t) \/ Leaves(t)
  BY <1>2 DEF Mutate, MutatorEnters, MutatorFinds, MutatorAudits, MutatorSaves,
    MutatorSubmits, MutatorPersists, Busy, Leaves, claims
<1>3. CASE Open(t)
  BY <1>3 DEF Open, OwnerEnters, OwnerLooks, OwnerInserts, OwnerDuplicates, OwnerFails,
    OwnerDiscards, OwnerReaps, OwnerDeletes, LinkResolves, LinkEnters, LinkChecks, NotAllowed,
    OpenState, OpenSession, claims
<1>4. CASE Delete(t) /\ ~AdminCommits(t)
  BY <1>4 DEF Delete, DeleterEnters, DeleterCommits, AdminPicks, RemoverLocks, RemoverShuts,
    RemoverSubmits, DeleterLeaves, AdminAdvances, claims
<1> QED
  BY <1>1, <1>2, <1>3, <1>4 DEF Step

LEMMA AccountStays ==
  ASSUME RowInv, NEW t \in Threads, Step(t), account'
  PROVE  account /\ t \notin Admins
<1>1. account
  BY AccountHolds
<1>2. ASSUME t \in Admins PROVE FALSE
  <2>1. pc[t] = "start" /\ t \notin Users /\ t \notin Deleters
    BY <1>2, Kinds DEF RowInv
  <2>2. CASE Mutate(t) \/ Busy(t) \/ Leaves(t)
    BY <1>2, <2>1, <2>2 DEF Mutate, MutatorEnters, MutatorFinds, MutatorAudits, MutatorSaves,
      MutatorSubmits, MutatorPersists, Busy, Leaves, At, Users
  <2>3. CASE Open(t)
    BY <2>1, <2>3 DEF Open, OwnerEnters, OwnerLooks, OwnerInserts, OwnerDuplicates, OwnerFails,
      OwnerDiscards, OwnerReaps, OwnerDeletes, LinkResolves, LinkEnters, LinkChecks, NotAllowed,
      OpenState, OpenSession, At, Users
  <2>4. CASE Delete(t)
    BY <2>1, <2>4 DEF Delete, DeleterEnters, DeleterCommits, AdminCommits, AdminPicks,
      RemoverLocks, RemoverShuts, RemoverSubmits, DeleterLeaves, AdminAdvances, At
  <2> QED
    BY <2>2, <2>3, <2>4 DEF Step
<1> QED
  BY <1>1, <1>2

\* The steps that write a row or end a transaction.
Writes(t) == Leaves(t) \/ OwnerInserts(t) \/ OwnerFails(t) \/ DeleterCommits(t)

LEMMA RowsRest ==
  ASSUME RowInv, NEW t \in Threads, Step(t), account', ~Writes(t)
  PROVE  row' = row /\ writer' = writer
<1>1. CASE Mutate(t) \/ Busy(t)
  BY <1>1 DEF Mutate, MutatorEnters, MutatorFinds, MutatorAudits, MutatorSaves, MutatorSubmits,
    MutatorPersists, Busy, claims
<1>2. CASE Open(t)
  BY <1>2 DEF Writes, Open, OwnerEnters, OwnerLooks, OwnerDuplicates, OwnerDiscards, OwnerReaps,
    OwnerDeletes, LinkResolves, LinkEnters, LinkChecks, NotAllowed, OpenState, OpenSession, claims
<1>3. CASE Delete(t)
  <2>1. ~AdminCommits(t)
    BY AccountStays DEF AdminCommits
  <2> QED
    BY <1>3, <2>1 DEF Writes, Delete, DeleterEnters, AdminPicks, RemoverLocks, RemoverShuts,
      RemoverSubmits, DeleterLeaves, AdminAdvances, claims
<1> QED
  BY <1>1, <1>2, <1>3 DEF Step, Writes

\* A committed row goes with a deletion of its board and no other way, and any
\* row with that or the rollback of the transaction that made it.
LEMMA RowsAreKept ==
  ASSUME RemovalInv, RowInv, NEW t \in Threads, Step(t), account', NEW b \in Boards
  PROVE  /\ b \in Committed => b \in Committed' \/ (DeleterCommits(t) /\ BoardOf[t] = b)
         /\ b \in row => \/ b \in row' \/ (DeleterCommits(t) /\ BoardOf[t] = b)
                         \/ (OwnerFails(t) /\ writer = t /\ BoardOf[t] = b)
         /\ b \in row' => b \in row \/ (OwnerInserts(t) /\ BoardOf[t] = b)
<1>1. CASE ~Writes(t)
  BY <1>1, RowsRest DEF Committed
<1>2. CASE Leaves(t)
  <2>1. row' = row /\ (writer' = writer \/ writer' = "free")
    BY <1>2 DEF Leaves
  <2> QED
    BY <2>1, LifecycleAssumption DEF Committed, Threads
<1>3. CASE OwnerInserts(t)
  <2>1. /\ writer = "free" /\ writer' = t /\ t \in Owners
        /\ BoardOf[t] \notin row /\ row' = row \cup {BoardOf[t]}
    BY <1>3 DEF OwnerInserts
  <2>2. Committed' = row
    BY <2>1 DEF Committed
  <2> QED
    BY <1>3, <2>1, <2>2 DEF Committed
<1>4. CASE OwnerFails(t)
  <2>1. CASE writer = t
    <3>1. t \in Owners /\ writer' = "free" /\ row' = row \ {BoardOf[t]}
      BY <1>4, <2>1, LifecycleAssumption DEF OwnerFails
    <3>2. Committed = row \ {BoardOf[t]}
      BY <2>1, <3>1 DEF Committed
    <3>3. Committed' = row'
      BY <3>1, LifecycleAssumption DEF Committed, Threads
    <3> QED
      BY <1>4, <2>1, <3>1, <3>2, <3>3
  <2>2. CASE writer # t
    <3>1. row' = row /\ writer' = writer
      BY <1>4, <2>2 DEF OwnerFails
    <3> QED
      BY <3>1 DEF Committed
  <2> QED
    BY <2>1, <2>2
<1>5. CASE DeleterCommits(t)
  <2>1. row' = row \ {BoardOf[t]} /\ writer' = writer /\ writer = "free"
    BY <1>5 DEF DeleterCommits
  <2> QED
    BY <1>5, <2>1 DEF Committed
<1> QED
  BY <1>1, <1>2, <1>3, <1>4, <1>5 DEF Writes

\* A deletion under way has the board for itself.
LEMMA DeletesAlone ==
  ASSUME GateInv, NEW t \in Deleters, Inside(t), NEW u \in Users \cup Deleters, Inside(u),
         BoardOf[u] = BoardOf[t]
  PROVE  u = t
<1>1. BoardOf[t] \in Boards /\ t \in DeletersOf(BoardOf[t])
  BY Kinds DEF DeletersOf
<1>2. UsersOf(BoardOf[t]) = {}
  BY <1>1 DEF GateInv, GateGuards
<1>3. u \in DeletersOf(BoardOf[t])
  BY <1>2 DEF UsersOf, DeletersOf
<1> QED
  BY <1>1, <1>3 DEF GateInv, GateGuards

LEMMA RowStep ==
  ASSUME GateInv, RemovalInv, KindInv, RowInv, NEW t \in Threads, Step(t), account'
  PROVE  RowInv'
<1>1. t \notin Admins /\ account /\ \A u \in Threads : u # t => pc'[u] = pc[u]
  BY AccountStays, StepsDoNotWait
<1>2. \A u \in Admins : pc'[u] = "start"
  BY <1>1, Kinds DEF RowInv
<1>3. ASSUME NEW u \in Owners \cup Links, pc'[u] \in {"open", "create"}, u # t
      PROVE  BoardOf[u] \in Committed' \/ u = writer'
  <2>1. pc[u] \in {"open", "create"} /\ BoardOf[u] \in Boards /\ u \in Users
    BY <1>1, <1>3, Kinds DEF Users
  <2>2. BoardOf[u] \in Committed \/ u = writer
    BY <2>1 DEF RowInv
  <2>3. CASE u = writer
    <3>1. writer # "free"
      BY <2>1, <2>3, Kinds, LifecycleAssumption
    <3> QED
      BY <1>3, <2>3, <3>1, RowsRest DEF Writes, Leaves, OwnerInserts, OwnerFails, DeleterCommits
  <2>4. CASE BoardOf[u] \in Committed
    <3>1. ~(DeleterCommits(t) /\ BoardOf[t] = BoardOf[u])
      <4> SUFFICES ASSUME DeleterCommits(t), BoardOf[t] = BoardOf[u] PROVE FALSE
        OBVIOUS
      <4>1. t \in Deleters /\ Inside(t) /\ Inside(u)
        BY <2>1 DEF DeleterCommits, Inside
      <4> QED
        BY <1>3, <2>1, <4>1, DeletesAlone
    <3> QED
      BY <2>1, <2>4, <3>1, RowsAreKept
  <2> QED
    BY <2>2, <2>3, <2>4
<1>4. ASSUME t \in Owners \cup Links, pc'[t] \in {"open", "create"}
      PROVE  BoardOf[t] \in Committed' \/ t = writer'
  <2>1. CASE OwnerInserts(t)
    BY <2>1 DEF OwnerInserts
  <2>2. CASE OwnerLooks(t) \/ LinkChecks(t) \/ OpenState(t)
    <3>1. BoardOf[t] \in Committed \/ t = writer
      BY <1>4, <2>2, Kinds DEF OwnerLooks, LinkChecks, OpenState, At, Go, RowInv, GateInv, GateTypes
    <3>2. ~Writes(t)
      BY <2>2, <1>4, Kinds DEF Writes, OwnerLooks, LinkChecks, OpenState, Leaves, OwnerInserts,
        OwnerFails, DeleterCommits, At, Go, GateInv, GateTypes, Users
    <3> QED
      BY <3>1, <3>2, RowsRest DEF Committed
  <2>3. CASE ~OwnerInserts(t) /\ ~OwnerLooks(t) /\ ~LinkChecks(t) /\ ~OpenState(t)
    <3>1. t \notin Mutators /\ t \notin Deleters /\ t \in Threads
      BY <1>4, LifecycleAssumption
    <3>2. \E to : Go(t, to) /\ to \notin {"open", "create"}
      BY <2>3, <3>1, <1>1 DEF Step, Mutate, Open, Delete, Busy, Leaves, MutatorEnters, MutatorFinds,
        MutatorAudits, MutatorSaves, MutatorSubmits, MutatorPersists, OwnerEnters,
        OwnerDuplicates, OwnerFails, OwnerDiscards, OwnerReaps, OwnerDeletes, LinkResolves,
        LinkEnters, NotAllowed, OpenSession, DeleterEnters, DeleterCommits, AdminCommits,
        AdminPicks, RemoverLocks, RemoverShuts, RemoverSubmits, DeleterLeaves, AdminAdvances, At
    <3> QED
      BY <1>4, <3>2 DEF Go, GateInv, GateTypes
  <2> QED
    BY <2>1, <2>2, <2>3
<1>5. ASSUME writer' # "free"
      PROVE  writer' \in Owners /\ BoardOf[writer'] \in row' /\ pc'[writer'] \in Undecided
  <2>1. CASE OwnerInserts(t)
    BY <2>1 DEF OwnerInserts, Go, Undecided, GateInv, GateTypes
  <2>2. CASE ~OwnerInserts(t)
    <3>1. writer' = writer /\ writer \in Owners /\ BoardOf[writer] \in row
          /\ pc[writer] \in Undecided /\ writer \in Threads
      BY <1>5, <2>2, RowsRest, Kinds DEF Writes, Leaves, OwnerFails, DeleterCommits, RowInv, Users
    <3>2. CASE writer # t
      <4>1. pc'[writer] = pc[writer]
        BY <1>1, <3>1, <3>2
      <4>2. BoardOf[writer] \in row'
        <5>1. BoardOf[writer] \in Boards
          BY <3>1, Kinds DEF Users
        <5>2. ~DeleterCommits(t)
          BY <1>5, <3>1 DEF DeleterCommits
        <5> QED
          BY <3>1, <3>2, <5>1, <5>2, RowsAreKept
      <4> QED
        BY <3>1, <4>1, <4>2
    <3>3. CASE writer = t
      <4>1. t \in Owners /\ pc[t] \in Undecided /\ t \notin Mutators \cup Links \cup Deleters
        BY <3>1, <3>3, LifecycleAssumption
      <4>2. OpenState(t) \/ OpenSession(t)
        <5>1. ~Leaves(t) /\ ~OwnerFails(t)
          BY <1>5, <3>1, <3>3, LifecycleAssumption DEF Leaves, OwnerFails
        <5> QED
          BY <1>1, <2>2, <4>1, <5>1 DEF Undecided, Step, Mutate, Open, Delete, Busy, MutatorEnters,
            MutatorFinds, MutatorAudits, MutatorSaves, MutatorSubmits, MutatorPersists,
            OwnerEnters, OwnerLooks, OwnerDuplicates, OwnerDiscards, OwnerReaps, OwnerDeletes,
            LinkResolves, LinkEnters, LinkChecks, NotAllowed, DeleterEnters, DeleterCommits,
            AdminCommits, AdminPicks, RemoverLocks, RemoverShuts, RemoverSubmits, DeleterLeaves,
            AdminAdvances, At
      <4>3. row' = row
        BY <4>2 DEF OpenState, OpenSession, claims
      <4> QED
        BY <3>1, <3>3, <4>2, <4>3 DEF OpenState, OpenSession, At, Go, Undecided, GateInv, GateTypes
    <3> QED
      BY <3>2, <3>3
  <2> QED
    BY <2>1, <2>2
<1> QED
  BY <1>2, <1>3, <1>4, <1>5 DEF RowInv

-----------------------------------------------------------------------------
(* Barriers. *)

\* Who submits, and for which board.
LEMMA Submitters ==
  ASSUME KindInv, RowInv, NEW t \in Threads, Step(t), account'
  PROVE  \/ UNCHANGED work
         \/ /\ t \in Mutators /\ BoardOf[t] \in Boards /\ pc[t] = "submit"
            /\ Submit(BoardOf[t], t, "push")
         \/ /\ t \in Deleters /\ BoardOf[t] \in Boards /\ pc[t] = "barrier"
            /\ Submit(BoardOf[t], t, "reap")
<1>1. CASE MutatorSubmits(t)
  BY <1>1, Kinds DEF MutatorSubmits, At, Users
<1>2. CASE RemoverSubmits(t)
  <2>1. t \notin Admins /\ pc[t] = "barrier" /\ Submit(Target(t), t, "reap")
    BY <1>2, AccountStays DEF RemoverSubmits, At
  <2>2. t \in Deleters
    BY <2>1, Goers DEF KindInv, Threads
  <2> QED
    BY <2>1, <2>2, Kinds DEF Target
<1> QED
  BY <1>1, <1>2, StepsSubmit

\* Nobody submits for a board whose barrier is on its way.
LEMMA NoneBehindABarrier ==
  ASSUME GateInv, WorkInv, BarrierInv, NEW t \in Users \cup Deleters, Inside(t), pc[t] # "wait"
  PROVE  /\ \A k \in active : Barrier(k) => k.board # BoardOf[t]
         /\ \A i \in DOMAIN fifo[BoardOf[t]] : ~Barrier(fifo[BoardOf[t]][i])
<1>1. ASSUME NEW u \in Deleters, pc[u] = "wait" PROVE BoardOf[u] # BoardOf[t]
  BY <1>1, DeletesAlone DEF Inside
<1>2. BoardOf[t] \in Boards
  BY Kinds
<1> QED
  BY <1>1, <1>2 DEF WorkInv, Awaited, BarrierInv

LEMMA BarrierAccepts ==
  ASSUME WorkInv, ServeInv, BarrierInv, NEW b \in Boards, NEW t \in Threads,
         NEW step \in {"push", "reap"}, Submit(b, t, step),
         step = "reap" => t \in Deleters /\ BoardOf[t] = b,
         \A k \in active : Barrier(k) => k.board # b,
         \A i \in DOMAIN fifo[b] : ~Barrier(fifo[b][i])
  PROVE  BarrierInv'
<1> DEFINE task == [board |-> b, by |-> t, step |-> step]
<1>1. task.board = b /\ (Barrier(task) => task.by \in Deleters /\ BoardOf[task.by] = b)
  BY DEF Barrier
<1>2. fifo[b] \in Seq(Task)
  BY DEF WorkInv, WorkTypes
<1>3. CASE Startable(active, b) /\ active' = active \cup {task} /\ fifo' = fifo
  <2>1. fifo[b] = <<>>
    <3>1. Cardinality(active) < Workers /\ \A k \in active : k.board # b
      BY <1>3 DEF Startable
    <3>2. Cardinality(active) # Workers
      BY <3>1, ActiveCounted
    <3> QED
      BY <3>1, <3>2 DEF ServeInv
  <2> HIDE DEF task
  <2> QED
    BY <1>1, <1>3, <2>1 DEF BarrierInv
<1>4. CASE active' = active /\ fifo' = [fifo EXCEPT ![b] = Append(@, task)]
  <2>1. fifo'[b] = Append(fifo[b], task) /\ \A c \in Boards : c # b => fifo'[c] = fifo[c]
    BY <1>4 DEF WorkInv, WorkTypes
  <2>2. /\ Len(fifo'[b]) = Len(fifo[b]) + 1
        /\ \A i \in DOMAIN fifo'[b] : \/ i \in DOMAIN fifo[b] /\ fifo'[b][i] = fifo[b][i]
                                      \/ i = Len(fifo[b]) + 1 /\ fifo'[b][i] = task
    BY <1>2, <2>1
  <2> HIDE DEF task
  <2>3. \A k \in active : Barrier(k) => k.board # b /\ k.board \in Boards
    BY DEF WorkInv, WorkTypes, Task
  <2>4. \A k \in active : Barrier(k) => /\ k.by \in Deleters /\ BoardOf[k.by] = k.board
                                        /\ fifo'[k.board] = <<>>
    BY <2>1, <2>3 DEF BarrierInv
  <2>5. \A i \in DOMAIN fifo'[b] : Barrier(fifo'[b][i]) =>
          /\ fifo'[b][i].by \in Deleters /\ BoardOf[fifo'[b][i].by] = b /\ i = Len(fifo'[b])
    BY <1>1, <2>2
  <2>6. \A c \in Boards : \A i \in DOMAIN fifo'[c] : Barrier(fifo'[c][i]) =>
          /\ fifo'[c][i].by \in Deleters /\ BoardOf[fifo'[c][i].by] = c /\ i = Len(fifo'[c])
    BY SMTT(30), <2>1, <2>5 DEF BarrierInv
  <2> QED
    BY <1>4, <2>4, <2>6 DEF BarrierInv
<1> QED
  BY <1>3, <1>4 DEF Submit

LEMMA BarrierStep ==
  ASSUME GateInv, WorkInv, ServeInv, KindInv, RowInv, BarrierInv,
         NEW t \in Threads, Step(t), account'
  PROVE  BarrierInv'
<1>1. CASE UNCHANGED work
  BY <1>1 DEF work, BarrierInv
<1>2. CASE /\ t \in Mutators /\ BoardOf[t] \in Boards /\ pc[t] = "submit"
           /\ Submit(BoardOf[t], t, "push")
  <2>1. t \in Users \cup Deleters /\ Inside(t) /\ pc[t] # "wait"
    BY <1>2 DEF Users, Inside
  <2> QED
    BY <1>2, <2>1, NoneBehindABarrier, BarrierAccepts
<1>3. CASE /\ t \in Deleters /\ BoardOf[t] \in Boards /\ pc[t] = "barrier"
           /\ Submit(BoardOf[t], t, "reap")
  <2>1. t \in Users \cup Deleters /\ Inside(t) /\ pc[t] # "wait"
    BY <1>3 DEF Inside
  <2> QED
    BY <1>3, <2>1, NoneBehindABarrier, BarrierAccepts
<1> QED
  BY <1>1, <1>2, <1>3, Submitters

LEMMA BarrierExecute ==
  ASSUME WorkInv, ServeInv, BarrierInv, NEW k \in active, Execute(k)
  PROVE  BarrierInv'
<1>1. CASE BarrierRemoves(k) \/ BarrierShuts(k)
  <2>1. PICK step : Becomes(k, step) /\ fifo' = fifo /\ Barrier(k)
    BY <1>1 DEF BarrierRemoves, BarrierShuts, Barrier
  <2> DEFINE l == [k EXCEPT !.step = step]
  <2>2. k \in Task /\ l.board = k.board /\ l.by = k.by /\ active' = (active \ {k}) \cup {l}
    BY <2>1 DEF WorkInv, WorkTypes, Task, Becomes
  <2> HIDE DEF l
  <2> QED
    BY <2>1, <2>2 DEF BarrierInv
<1>2. CASE Finish(k)
  <2> DEFINE rest == active \ {k}
  <2>1. CASE active' = rest /\ fifo' = fifo
    BY <2>1 DEF BarrierInv
  <2>2. CASE \E b \in Boards : /\ fifo[b] # <<>>
                               /\ active' = rest \cup {Head(fifo[b])}
                               /\ fifo' = [fifo EXCEPT ![b] = Tail(@)]
    <3>1. PICK b \in Boards : /\ fifo[b] # <<>>
                              /\ active' = rest \cup {Head(fifo[b])}
                              /\ fifo' = [fifo EXCEPT ![b] = Tail(@)]
      BY <2>2
    <3> DEFINE h == Head(fifo[b])
    <3>2. /\ fifo[b] \in Seq(Task) /\ fifo'[b] = Tail(fifo[b])
          /\ \A c \in Boards : c # b => fifo'[c] = fifo[c]
      BY <3>1 DEF WorkInv, WorkTypes
    <3>3. 1 \in DOMAIN fifo[b] /\ h = fifo[b][1] /\ Len(Tail(fifo[b])) = Len(fifo[b]) - 1
          /\ Len(fifo[b]) \in Nat
      BY <3>1, <3>2
    <3>4. Barrier(h) => /\ h.by \in Deleters /\ BoardOf[h.by] = h.board
                        /\ h.board = b /\ fifo'[b] = <<>>
      <4> SUFFICES ASSUME Barrier(h)
                   PROVE  /\ h.by \in Deleters /\ BoardOf[h.by] = h.board
                          /\ h.board = b /\ fifo'[b] = <<>>
        OBVIOUS
      <4>1. h.by \in Deleters /\ BoardOf[h.by] = b /\ 1 = Len(fifo[b])
        BY <3>3 DEF BarrierInv
      <4>2. h.board = b
        BY <3>3 DEF ServeInv
      <4>3. Tail(fifo[b]) = <<>>
        <5>1. Tail(fifo[b]) \in Seq(Task) /\ Len(Tail(fifo[b])) = 0
          BY <3>2, <3>3, <4>1, <3>1
        <5> QED
          BY <5>1, EmptySeq
      <4> QED
        BY <3>2, <4>1, <4>2, <4>3
    <3>5. \A i \in DOMAIN fifo'[b] :
            i \in Nat /\ i + 1 \in DOMAIN fifo[b] /\ fifo'[b][i] = fifo[b][i + 1]
      <4>1. fifo[b] \in Seq(Task) /\ fifo[b] # <<>>
        BY <3>1, <3>2
      <4>2. \A i \in DOMAIN Tail(fifo[b]) :
              /\ i \in Nat /\ i + 1 \in DOMAIN fifo[b] /\ i + 1 # 1
              /\ Tail(fifo[b])[i] = fifo[b][i + 1]
        BY <4>1, TailFollows
      <4>3. fifo'[b] = Tail(fifo[b])
        BY <3>2
      <4> QED
        BY <4>2, <4>3
    <3> HIDE DEF h
    <3>6. \A p \in active' : Barrier(p) => /\ p.by \in Deleters /\ BoardOf[p.by] = p.board
                                           /\ fifo'[p.board] = <<>>
      <4>1. \A p \in rest : Barrier(p) => p.board \in Boards /\ p.board # b
        BY <3>1 DEF WorkInv, WorkTypes, Task, BarrierInv
      <4> QED
        BY <3>1, <3>2, <3>4, <4>1 DEF BarrierInv, h
    <3>7. \A i \in DOMAIN fifo'[b] : Barrier(fifo'[b][i]) =>
            /\ fifo'[b][i].by \in Deleters /\ BoardOf[fifo'[b][i].by] = b /\ i = Len(fifo'[b])
      <4> SUFFICES ASSUME NEW i \in DOMAIN fifo'[b], Barrier(fifo'[b][i])
                   PROVE  /\ fifo'[b][i].by \in Deleters /\ BoardOf[fifo'[b][i].by] = b
                          /\ i = Len(fifo'[b])
        OBVIOUS
      <4>1. /\ fifo'[b][i].by \in Deleters /\ BoardOf[fifo'[b][i].by] = b
            /\ i \in Nat /\ i + 1 = Len(fifo[b])
        BY <3>5 DEF BarrierInv
      <4>2. Len(fifo'[b]) = Len(fifo[b]) - 1
        BY <3>2, <3>3
      <4> QED
        BY <4>1, <4>2
    <3>8. \A c \in Boards : \A i \in DOMAIN fifo'[c] : Barrier(fifo'[c][i]) =>
            /\ fifo'[c][i].by \in Deleters /\ BoardOf[fifo'[c][i].by] = c /\ i = Len(fifo'[c])
      BY <3>2, <3>7 DEF BarrierInv
    <3> QED
      BY <3>6, <3>8 DEF BarrierInv
  <2> QED
    BY <1>2, <2>1, <2>2 DEF Finish
<1> QED
  BY <1>1, <1>2 DEF Execute, PushTask, BarrierDeletes

-----------------------------------------------------------------------------
(* What is left of a board. *)

LEMMA InTasks ==
  \A k : k \in Tasks <=> k \in active \/ \E b \in Boards : \E i \in DOMAIN fifo[b] : k = fifo[b][i]
BY DEF Tasks

\* Finished work is gone, and what is submitted is the only work that is new.
LEMMA TasksFinish ==
  ASSUME WorkInv, NEW k \in active, Finish(k)
  PROVE  Tasks' \subseteq Tasks
<1>1. CASE active' = active \ {k} /\ fifo' = fifo
  BY <1>1 DEF Tasks
<1>2. CASE \E b \in Boards : /\ fifo[b] # <<>>
                             /\ active' = (active \ {k}) \cup {Head(fifo[b])}
                             /\ fifo' = [fifo EXCEPT ![b] = Tail(@)]
  <2>1. PICK b \in Boards : /\ fifo[b] # <<>>
                            /\ active' = (active \ {k}) \cup {Head(fifo[b])}
                            /\ fifo' = [fifo EXCEPT ![b] = Tail(@)]
    BY <1>2
  <2>2. fifo[b] \in Seq(Task) /\ fifo[b] # <<>>
    BY <2>1 DEF WorkInv, WorkTypes
  <2>3. fifo'[b] = Tail(fifo[b]) /\ \A c \in Boards : c # b => fifo'[c] = fifo[c]
    BY <2>1 DEF WorkInv, WorkTypes
  <2>4. 1 \in DOMAIN fifo[b] /\ Head(fifo[b]) = fifo[b][1]
    BY <2>2
  <2>5. \A i \in DOMAIN Tail(fifo[b]) :
          /\ i \in Nat /\ i + 1 \in DOMAIN fifo[b] /\ i + 1 # 1
          /\ Tail(fifo[b])[i] = fifo[b][i + 1]
    BY <2>2, TailFollows
  <2>6. \A c \in Boards : \A i \in DOMAIN fifo'[c] : fifo'[c][i] \in Tasks
    <3>1. \A i \in DOMAIN fifo'[b] : fifo'[b][i] \in Tasks
      BY <2>3, <2>5, InTasks
    <3>2. \A c \in Boards : c # b => \A i \in DOMAIN fifo'[c] : fifo'[c][i] \in Tasks
      BY <2>3, InTasks
    <3> QED
      BY <3>1, <3>2
  <2>7. \A p \in active' : p \in Tasks
    BY <2>1, <2>4, InTasks
  <2> QED
    BY <2>6, <2>7 DEF Tasks
<1> QED
  BY <1>1, <1>2 DEF Finish

LEMMA TasksSubmit ==
  ASSUME WorkInv, NEW b \in Boards, NEW t, NEW step, Submit(b, t, step)
  PROVE  \A k \in Tasks' : k \in Tasks \/ (k.board = b /\ k.step = step)
<1> DEFINE task == [board |-> b, by |-> t, step |-> step]
<1>1. task.board = b /\ task.step = step
  OBVIOUS
<1>2. CASE active' = active \cup {task} /\ fifo' = fifo
  <2> HIDE DEF task
  <2> QED
    BY <1>1, <1>2 DEF Tasks
<1>3. CASE active' = active /\ fifo' = [fifo EXCEPT ![b] = Append(@, task)]
  <2>1. /\ fifo[b] \in Seq(Task) /\ fifo'[b] = Append(fifo[b], task)
        /\ \A c \in Boards : c # b => fifo'[c] = fifo[c]
    BY <1>3 DEF WorkInv, WorkTypes
  <2>2. \A i \in DOMAIN fifo'[b] : \/ i \in DOMAIN fifo[b] /\ fifo'[b][i] = fifo[b][i]
                                   \/ fifo'[b][i] = task
    BY <2>1
  <2> HIDE DEF task
  <2>3. \A c \in Boards : \A i \in DOMAIN fifo'[c] : fifo'[c][i] \in Tasks \/ fifo'[c][i] = task
    <3>1. \A i \in DOMAIN fifo'[b] : fifo'[b][i] \in Tasks \/ fifo'[b][i] = task
      BY <2>2, InTasks
    <3>2. \A c \in Boards : c # b => \A i \in DOMAIN fifo'[c] : fifo'[c][i] \in Tasks
      BY <2>1, InTasks
    <3> QED
      BY <3>1, <3>2
  <2>4. \A k \in Tasks' : k \in Tasks \/ k = task
    BY <1>3, <2>3 DEF Tasks
  <2> QED
    BY <1>1, <2>4
<1> QED
  BY <1>2, <1>3 DEF Submit

LEMMA TasksStep ==
  ASSUME WorkInv, KindInv, RowInv, NEW t \in Threads, Step(t), account'
  PROVE  \A k \in Tasks' : k.step = "push" =>
           k \in Tasks \/ (t \in Mutators /\ pc[t] = "submit" /\ k.board = BoardOf[t])
<1>1. CASE UNCHANGED work
  BY <1>1 DEF work, Tasks
<1>2. CASE ~UNCHANGED work
  BY <1>2, Submitters, TasksSubmit
<1> QED
  BY <1>1, <1>2

\* A board with a committed row may have anything.
LEMMA CommittedIsKept == ASSUME NEW b, (b \in Committed)' PROVE KeptFor(b)'
BY DEF KeptFor, Known, Committed

\* Nothing is added, nobody who takes the board away has done so, and no row is lost.
LEMMA KeptStays ==
  ASSUME NEW b, KeptFor(b), files'[b] \subseteq files[b], current'[b] \in {current[b], 0},
         b \in Committed => b \in Committed', b \in row => b \in row',
         \A k \in Tasks' : k.board = b /\ k.step = "push" => k \in Tasks,
         \A t \in Mutators : BoardOf[t] = b /\ pc'[t] \in Scoring => pc[t] \in Scoring,
         \A t \in Deleters : BoardOf[t] = b =>
           /\ pc[t] \in Leaving => pc'[t] \in Leaving
           /\ pc[t] \in {"remove", "shut"} => pc'[t] \in {"remove", "shut"} \/ current'[b] = 0,
         \A t \in Owners : BoardOf[t] = b =>
           /\ pc[t] \in {"discard", "discarding"} =>
                pc'[t] \in {"discard", "discarding"} \/ current'[b] = 0
           /\ pc[t] \in {"discard", "discarding", "discarded"} =>
                pc'[t] \in {"discard", "discarding", "discarded"}
  PROVE  KeptFor(b)'
<1>1. Known(b) => Known(b)'
  BY DEF Known, Goes
<1>2. \A t \in Mutators : BoardOf[t] = b /\ pc'[t] \in Scoring => b \in Committed'
  BY DEF KeptFor
<1>3. \A k \in Tasks' : k.board = b /\ k.step = "push" => Known(b)'
  BY <1>1 DEF KeptFor
<1>4. "log" \in files'[b] => Known(b)'
  BY <1>1 DEF KeptFor
<1>5. current'[b] # 0 => (\/ b \in row \/ Goes(b, {"remove", "shut"})
                          \/ Undoes(b, {"discard", "discarding"}))'
  BY DEF KeptFor, Goes, Undoes
<1>6. files'[b] # {} => (\/ b \in row \/ Goes(b, Leaving)
                         \/ Undoes(b, {"discard", "discarding", "discarded"}))'
  BY DEF KeptFor, Goes, Undoes
<1> QED
  BY <1>2, <1>3, <1>4, <1>5, <1>6 DEF KeptFor

\* A request leaves the files and the sessions of other boards alone.
LEMMA StaysAtHome ==
  ASSUME SessionInv, files \in [Boards -> SUBSET Files],
         RowInv, NEW t \in Threads, Step(t), account', NEW b \in Boards, BoardOf[t] # b
  PROVE  files'[b] = files[b] /\ current'[b] = current[b]
<1>1. t \notin Admins /\ Target(t) = BoardOf[t]
  BY AccountStays DEF Target
<1>2. current' = current \/ \E x : current' = [current EXCEPT ![BoardOf[t]] = x]
  <2>1. CASE Mutate(t) \/ Busy(t) \/ Leaves(t)
    BY <2>1 DEF Mutate, MutatorEnters, MutatorFinds, MutatorAudits, MutatorSaves, MutatorSubmits,
      MutatorPersists, Busy, Leaves, sessions
  <2>2. CASE Open(t)
    <3>1. CASE OwnerReaps(t) \/ OpenSession(t)
      BY <3>1 DEF OwnerReaps, OpenSession, ShutAndDrop
    <3> QED
      BY <2>2, <3>1 DEF Open, OwnerEnters, OwnerLooks, OwnerInserts, OwnerDuplicates, OwnerFails,
        OwnerDiscards, OwnerDeletes, LinkResolves, LinkEnters, LinkChecks, NotAllowed, OpenState,
        sessions
  <2>3. CASE Delete(t)
    <3>1. CASE RemoverShuts(t)
      BY <1>1, <3>1 DEF RemoverShuts, ShutAndDrop
    <3> QED
      BY <2>3, <3>1 DEF Delete, DeleterEnters, DeleterCommits, AdminCommits, AdminPicks,
        RemoverLocks, RemoverSubmits, DeleterLeaves, AdminAdvances, sessions
  <2> QED
    BY <2>1, <2>2, <2>3 DEF Step
<1>3. files' = files \/ \E x : files' = [files EXCEPT ![BoardOf[t]] = x]
  <2>1. CASE Mutate(t) \/ Busy(t) \/ Leaves(t)
    <3>1. CASE MutatorAudits(t) \/ MutatorSaves(t) \/ MutatorPersists(t)
      BY <3>1 DEF MutatorAudits, MutatorSaves, MutatorPersists
    <3> QED
      BY <2>1, <3>1 DEF Mutate, MutatorEnters, MutatorFinds, MutatorSubmits, Busy, Leaves
  <2>2. CASE Open(t)
    <3>1. CASE OwnerDeletes(t) \/ OpenState(t) \/ OpenSession(t)
      BY <3>1 DEF OwnerDeletes, OpenState, OpenSession
    <3> QED
      BY <2>2, <3>1 DEF Open, OwnerEnters, OwnerLooks, OwnerInserts, OwnerDuplicates, OwnerFails,
        OwnerDiscards, OwnerReaps, LinkResolves, LinkEnters, LinkChecks, NotAllowed
  <2>3. CASE Delete(t)
    BY <2>3 DEF Delete, DeleterEnters, DeleterCommits, AdminCommits, AdminPicks, RemoverLocks,
      RemoverShuts, RemoverSubmits, DeleterLeaves, AdminAdvances
  <2> QED
    BY <2>1, <2>2, <2>3 DEF Step
<1>4. current \in [Boards -> 0..made]
  BY DEF SessionInv
<1>5. current'[b] = current[b]
  BY <1>2, <1>4
<1>6. files'[b] = files[b]
  BY <1>3
<1> QED
  BY <1>5, <1>6

LEMMA FilesStep ==
  ASSUME FilesInv, NEW t \in Threads, Step(t)
  PROVE  FilesInv' /\ early \subseteq early'
<1>1. \/ files' = files
      \/ \E d, x : files' = [files EXCEPT ![d] = @ \cup x] /\ x \subseteq Files
      \/ \E d, x : files' = [files EXCEPT ![d] = @ \ x]
  <2>1. CASE MutatorAudits(t) \/ MutatorSaves(t) \/ MutatorPersists(t)
    <3>1. {"log", "meta"} \subseteq Files /\ {"meta"} \subseteq Files /\ {"state"} \subseteq Files
      BY DEF Files
    <3>2. files' = files \/ \E d, x : files' = [files EXCEPT ![d] = @ \cup x]
                                      /\ x \in {{"log", "meta"}, {"meta"}, {"state"}}
      BY <2>1 DEF MutatorAudits, MutatorSaves, MutatorPersists
    <3> QED
      BY <3>1, <3>2
  <2>2. CASE OpenState(t) \/ OpenSession(t)
    <3>1. {"meta"} \subseteq Files /\ {"state"} \subseteq Files
      BY DEF Files
    <3>2. files' = files \/ \E d, x : files' = [files EXCEPT ![d] = @ \cup x]
                                      /\ x \in {{"meta"}, {"state"}}
      BY <2>2 DEF OpenState, OpenSession
    <3> QED
      BY <3>1, <3>2
  <2>3. CASE OwnerDeletes(t)
    BY <2>3 DEF OwnerDeletes
  <2>4. CASE Open(t) /\ ~OwnerDeletes(t) /\ ~OpenState(t) /\ ~OpenSession(t)
    BY <2>4 DEF Open, OwnerEnters, OwnerLooks, OwnerInserts, OwnerDuplicates, OwnerFails,
      OwnerDiscards, OwnerReaps, LinkResolves, LinkEnters, LinkChecks, NotAllowed
  <2>5. CASE \/ MutatorEnters(t) \/ MutatorFinds(t) \/ MutatorSubmits(t) \/ Busy(t) \/ Leaves(t)
    BY <2>5 DEF MutatorEnters, MutatorFinds, MutatorSubmits, Busy, Leaves
  <2>6. CASE Delete(t)
    BY <2>6 DEF Delete, DeleterEnters, DeleterCommits, AdminCommits, AdminPicks, RemoverLocks,
      RemoverShuts, RemoverSubmits, DeleterLeaves, AdminAdvances
  <2> QED
    BY <2>1, <2>2, <2>3, <2>4, <2>5, <2>6 DEF Step, Mutate
<1>2. files' \in [Boards -> SUBSET Files]
  BY <1>1 DEF FilesInv
<1>3. early' = early \/ \E d \in Boards : early' = early \cup {d}
  <2>1. CASE MutatorFinds(t)
    BY <2>1, Kinds DEF MutatorFinds, Users
  <2>2. CASE Mutate(t) /\ ~MutatorFinds(t)
    BY <2>2 DEF Mutate, MutatorEnters, MutatorAudits, MutatorSaves, MutatorSubmits,
      MutatorPersists
  <2>3. CASE Open(t)
    BY <2>3 DEF Open, OwnerEnters, OwnerLooks, OwnerInserts, OwnerDuplicates, OwnerFails,
      OwnerDiscards, OwnerReaps, OwnerDeletes, LinkResolves, LinkEnters, LinkChecks, NotAllowed,
      OpenState, OpenSession
  <2>4. CASE Delete(t)
    BY <2>4 DEF Delete, DeleterEnters, DeleterCommits, AdminCommits, AdminPicks, RemoverLocks,
      RemoverShuts, RemoverSubmits, DeleterLeaves, AdminAdvances
  <2>5. CASE Busy(t) \/ Leaves(t)
    BY <2>5 DEF Busy, Leaves
  <2> QED
    BY <2>1, <2>2, <2>3, <2>4, <2>5 DEF Step
<1> QED
  BY <1>2, <1>3 DEF FilesInv

LEMMA FilesExecute ==
  ASSUME FilesInv, NEW k \in active, Execute(k)
  PROVE  FilesInv' /\ early' = early
BY DEF FilesInv, Execute, PushTask, BarrierRemoves, BarrierShuts, BarrierDeletes, Files

\* Another board than the one of the request.
LEMMA KeptElsewhere ==
  ASSUME GateInv, WorkInv, RemovalInv, KindInv, SessionInv, FilesInv, RowInv,
         NEW t \in Threads, Step(t), account', NEW b \in Boards, BoardOf[t] # b, KeptFor(b)
  PROVE  KeptFor(b)'
<1>1. files'[b] = files[b] /\ current'[b] = current[b]
  BY StaysAtHome DEF FilesInv
<1>2. (b \in Committed => b \in Committed') /\ (b \in row => b \in row')
  BY RowsAreKept
<1>3. \A k \in Tasks' : k.board = b /\ k.step = "push" => k \in Tasks
  BY TasksStep
<1>4. \A u \in Threads : BoardOf[u] = b => pc'[u] = pc[u]
  BY StepsDoNotWait
<1>5. Mutators \subseteq Threads /\ Deleters \subseteq Threads /\ Owners \subseteq Threads
  BY DEF Threads
<1> QED
  BY <1>1, <1>2, <1>3, <1>4, <1>5, KeptStays

\* A step on the board itself that changes nothing of it and takes no side.
Aside(t) ==
  \/ pc[t] \in {"start", "resolved", "insert", "open", "create", "claimed", "cleaned", "release"}
  \/ pc[t] = "discard" /\ pc'[t] = "discarding"
  \/ pc[t] = "remove" /\ pc'[t] = "shut"
  \/ pc[t] = "barrier" /\ pc'[t] = "wait"
LEMMA KeptAside ==
  ASSUME GateInv, WorkInv, RemovalInv, KindInv, RowInv, NEW t \in Threads, Step(t), account',
         BoardOf[t] \in Boards, KeptFor(BoardOf[t]),
         files' = files, current' = current, Aside(t), pc'[t] \notin Scoring,
         ~(DeleterCommits(t) /\ BoardOf[t] \in row), ~(OwnerFails(t) /\ writer = t)
  PROVE  KeptFor(BoardOf[t])'
<1> DEFINE b == BoardOf[t]
<1>1. (b \in Committed => b \in Committed') /\ (b \in row => b \in row')
  BY RowsAreKept DEF Committed
<1>2. \A k \in Tasks' : k.board = b /\ k.step = "push" => k \in Tasks
  BY TasksStep DEF Aside
<1>3. \A u \in Threads : u # t => pc'[u] = pc[u]
  BY StepsDoNotWait
<1>4. Mutators \subseteq Threads /\ Deleters \subseteq Threads /\ Owners \subseteq Threads
  BY DEF Threads
<1>5. /\ pc[t] \in Leaving => pc'[t] \in Leaving
      /\ pc[t] \in {"remove", "shut"} => pc'[t] \in {"remove", "shut"}
      /\ pc[t] \in {"discard", "discarding"} => pc'[t] \in {"discard", "discarding"}
      /\ pc[t] \in {"discard", "discarding", "discarded"} =>
           pc'[t] \in {"discard", "discarding", "discarded"}
  BY DEF Aside, Leaving
<1>6. \A u \in Mutators : pc'[u] \in Scoring => pc[u] \in Scoring
  BY <1>3, <1>4
<1>7. \A u \in Deleters : /\ pc[u] \in Leaving => pc'[u] \in Leaving
                          /\ pc[u] \in {"remove", "shut"} => pc'[u] \in {"remove", "shut"}
  BY <1>3, <1>4, <1>5
<1>8. \A u \in Owners : /\ pc[u] \in {"discard", "discarding"} => pc'[u] \in {"discard", "discarding"}
                        /\ pc[u] \in {"discard", "discarding", "discarded"} =>
                             pc'[u] \in {"discard", "discarding", "discarded"}
  BY <1>3, <1>4, <1>5
<1> QED
  BY <1>1, <1>2, <1>6, <1>7, <1>8, KeptStays

LEMMA KeptMutate ==
  ASSUME GateInv, WorkInv, RemovalInv, KindInv, RowInv, NEW t \in Threads, Mutate(t), account',
         BoardOf[t] \in Boards, KeptFor(BoardOf[t]), BoardOf[t] \notin early'
  PROVE  KeptFor(BoardOf[t])'
<1> DEFINE b == BoardOf[t]
<1>1. Step(t) /\ t \in Mutators /\ t \notin Deleters /\ t \notin Owners
  BY LifecycleAssumption DEF Step, Mutate, MutatorEnters, MutatorFinds, MutatorAudits,
    MutatorSaves, MutatorSubmits, MutatorPersists
<1>2. ~DeleterCommits(t) /\ ~OwnerFails(t)
  BY <1>1, LifecycleAssumption DEF DeleterCommits, OwnerFails
<1>3. b \in Committed => (b \in Committed)'
  BY <1>1, <1>2, RowsAreKept
<1>4. CASE MutatorEnters(t) \/ (MutatorFinds(t) /\ current[b] = 0)
  <2>1. Aside(t) /\ pc'[t] \notin Scoring
    BY <1>4 DEF MutatorEnters, MutatorFinds, At, Aside, Go, Scoring, GateInv, GateTypes
  <2>2. files' = files /\ current' = current
    BY <1>4 DEF MutatorEnters, MutatorFinds, sessions
  <2> QED
    BY <1>1, <1>2, <2>1, <2>2, KeptAside
<1>5. CASE MutatorFinds(t) /\ current[b] # 0
  <2>1. b \in Committed
    BY <1>5 DEF MutatorFinds
  <2> QED
    BY <1>3, <2>1, CommittedIsKept
<1>6. CASE MutatorAudits(t) \/ MutatorSaves(t) \/ MutatorSubmits(t) \/ MutatorPersists(t)
  <2>1. pc[t] \in Scoring
    BY <1>6 DEF MutatorAudits, MutatorSaves, MutatorSubmits, MutatorPersists, At, Scoring
  <2>2. b \in Committed
    BY <1>1, <2>1 DEF KeptFor
  <2> QED
    BY <1>3, <2>2, CommittedIsKept
<1> QED
  BY <1>4, <1>5, <1>6 DEF Mutate

LEMMA KeptOpen ==
  ASSUME GateInv, WorkInv, RemovalInv, KindInv, SessionInv, FilesInv, RowInv,
         NEW t \in Threads, Open(t), account', BoardOf[t] \in Boards, KeptFor(BoardOf[t])
  PROVE  KeptFor(BoardOf[t])'
<1> DEFINE b == BoardOf[t]
<1> USE DEF GateInv, GateTypes
<1>1. Step(t) /\ \A u \in Threads : u # t => pc'[u] = pc[u]
  BY StepsDoNotWait DEF Step
<1>2. CASE \/ OwnerEnters(t) \/ OwnerLooks(t) \/ OwnerInserts(t) \/ OwnerDuplicates(t)
           \/ OwnerDiscards(t)
  <2>1. Aside(t) /\ pc'[t] \notin Scoring
    BY <1>2 DEF OwnerEnters, OwnerLooks, OwnerInserts, OwnerDuplicates, OwnerDiscards, At, Aside,
      Go, Scoring
  <2>2. files' = files /\ current' = current
    BY <1>2 DEF OwnerEnters, OwnerLooks, OwnerInserts, OwnerDuplicates, OwnerDiscards, sessions
  <2>3. ~DeleterCommits(t)
    BY <1>2, <2>1, Goers DEF OwnerEnters, OwnerLooks, OwnerInserts, OwnerDuplicates,
      OwnerDiscards, DeleterCommits, At, KindInv, Go
  <2>4. ~(OwnerFails(t) /\ writer = t)
    BY <1>2, LifecycleAssumption DEF OwnerEnters, OwnerLooks, OwnerInserts, OwnerDuplicates,
      OwnerDiscards, OwnerFails, At
  <2> QED
    BY <1>1, <2>1, <2>2, <2>3, <2>4, KeptAside
<1>3. CASE LinkResolves(t) \/ LinkEnters(t) \/ LinkChecks(t) \/ NotAllowed(t)
  <2>1. Aside(t) /\ pc'[t] \notin Scoring
    BY <1>3 DEF LinkResolves, LinkEnters, LinkChecks, NotAllowed, At, Aside, Go, Scoring
  <2>2. files' = files /\ current' = current
    BY <1>3 DEF LinkResolves, LinkEnters, LinkChecks, NotAllowed, sessions
  <2>3. ~DeleterCommits(t)
    BY <1>3, LifecycleAssumption DEF LinkResolves, LinkEnters, LinkChecks, NotAllowed,
      DeleterCommits, At
  <2>4. ~OwnerFails(t)
    BY <1>3, LifecycleAssumption DEF LinkResolves, LinkEnters, LinkChecks, NotAllowed,
      OwnerFails, At
  <2> QED
    BY <1>1, <2>1, <2>2, <2>3, <2>4, KeptAside
<1>4. CASE OpenState(t) \/ OpenSession(t)
  <2>1. t \in Owners \cup Links /\ pc[t] \in {"open", "create"} /\ row' = row /\ writer' = writer
    <3>1. pc[t] \in {"open", "create"}
      BY <1>4 DEF OpenState, OpenSession, At
    <3>2. t \in Owners \cup Links
      BY <3>1, Goers DEF KindInv, Threads, AdminStages
    <3> QED
      BY <1>4, <3>1, <3>2 DEF OpenState, OpenSession, claims
  <2>2. CASE b \in Committed
    BY <2>1, <2>2, CommittedIsKept DEF Committed
  <2>3. CASE b \notin Committed
    <3>1. t = writer /\ b \in row'
      BY <2>1, <2>3, LifecycleAssumption DEF RowInv
    <3>2. /\ \A u \in Mutators : pc'[u] \in Scoring => pc[u] \in Scoring
          /\ \A u \in Deleters : pc'[u] = pc[u]
      <4>1. t \notin Deleters /\ pc'[t] \notin Scoring
        BY <1>4, <2>1, LifecycleAssumption DEF OpenState, OpenSession, At, Go, Scoring
      <4> QED
        BY <1>1, <4>1 DEF Threads
    <3>3. Known(b) => Known(b)'
      BY <2>1, <3>2 DEF Known, Goes, Committed
    <3>4. "log" \in files'[b] => "log" \in files[b]
      BY <1>4 DEF OpenState, OpenSession, FilesInv
    <3>5. \A k \in Tasks' : k \in Tasks
      BY <1>4 DEF OpenState, OpenSession, work, Tasks
    <3> QED
      BY <2>1, <3>1, <3>2, <3>3, <3>4, <3>5 DEF KeptFor, Committed
  <2> QED
    BY <2>2, <2>3
<1>5. CASE OwnerFails(t)
  <2>1. CASE writer # t
    <3>1. Aside(t) /\ pc'[t] \notin Scoring /\ files' = files /\ current' = current
      BY <1>5, <2>1 DEF OwnerFails, Aside, Go, Scoring, sessions
    <3>2. ~DeleterCommits(t)
      BY <1>5, LifecycleAssumption DEF OwnerFails, DeleterCommits
    <3> QED
      BY <1>1, <2>1, <3>1, <3>2, KeptAside
  <2>2. CASE writer = t
    <3>1. t \in Owners /\ pc'[t] = "discard" /\ t \in Threads
      BY <1>5, <2>2, LifecycleAssumption DEF OwnerFails, Go
    <3>2. b \notin Committed
      BY <2>2, <3>1 DEF Committed
    <3>3. /\ \A u \in Mutators : pc'[u] \in Scoring => pc[u] \in Scoring
          /\ \A u \in Deleters : pc'[u] = pc[u]
      BY <1>1, <3>1, LifecycleAssumption DEF Threads, Scoring
    <3>4. Known(b) => Known(b)'
      BY <3>2, <3>3 DEF Known, Goes
    <3>5. files' = files /\ \A k \in Tasks' : k \in Tasks
      BY <1>5 DEF OwnerFails, work, Tasks
    <3>6. Undoes(b, {"discard", "discarding"})' /\ Undoes(b, {"discard", "discarding", "discarded"})'
      BY <3>1 DEF Undoes
    <3>7. \A u \in Mutators : BoardOf[u] = b /\ pc'[u] \in Scoring => (b \in Committed)'
      BY <3>2, <3>3 DEF KeptFor
    <3> QED
      BY <3>4, <3>5, <3>6, <3>7 DEF KeptFor
  <2> QED
    BY <2>1, <2>2
<1>6. CASE OwnerReaps(t)
  <2>1. /\ pc[t] = "discarding" /\ pc'[t] = "discarded" /\ files' = files /\ row' = row
        /\ writer' = writer /\ UNCHANGED work
    BY <1>6 DEF OwnerReaps, At, Go, claims
  <2>2. current'[b] = 0
    BY <1>6 DEF OwnerReaps, ShutAndDrop, SessionInv
  <2>3. t \in Owners
    BY <2>1, Goers DEF KindInv, Threads, AdminStages
  <2>4. /\ \A u \in Mutators : pc'[u] = pc[u]
        /\ \A u \in Deleters : pc'[u] = pc[u]
    BY <1>1, <2>3, LifecycleAssumption DEF Threads
  <2>5. \A u \in Owners : /\ pc[u] \in {"discard", "discarding", "discarded"} =>
                               pc'[u] \in {"discard", "discarding", "discarded"}
    BY <1>1, <2>1, <2>3 DEF Threads
  <2> QED
    BY <2>1, <2>2, <2>4, <2>5, KeptStays DEF Committed, work, Tasks
<1>7. CASE OwnerDeletes(t)
  <2>1. /\ pc[t] = "discarded" /\ pc'[t] = "release" /\ current' = current /\ row' = row
        /\ writer' = writer /\ UNCHANGED work /\ files'[b] = files[b] \ {"meta", "state"}
    BY <1>7 DEF OwnerDeletes, At, Go, claims, sessions, FilesInv
  <2>2. t \in Owners
    BY <2>1, Goers DEF KindInv, Threads, AdminStages
  <2>3. /\ \A u \in Mutators : pc'[u] = pc[u]
        /\ \A u \in Deleters : pc'[u] = pc[u]
        /\ \A u \in Owners : pc[u] \in {"discard", "discarding"} => pc'[u] = pc[u]
    BY <1>1, <2>1, <2>2, LifecycleAssumption DEF Threads
  <2>4. Known(b) => Known(b)'
    BY <2>1, <2>3 DEF Known, Goes, Committed
  <2>5. /\ "log" \in files'[b] => "log" \in files[b]
        /\ files'[b] # {} => "log" \in files[b]
    BY <2>1 DEF FilesInv, Files
  <2>6. Known(b)' => b \in row' \/ Goes(b, Leaving)'
    BY DEF Known, Committed
  <2>7. current'[b] # 0 => (\/ b \in row \/ Goes(b, {"remove", "shut"})
                            \/ Undoes(b, {"discard", "discarding"}))'
    BY <2>1, <2>3 DEF KeptFor, Goes, Undoes
  <2> QED
    BY <2>1, <2>3, <2>4, <2>5, <2>6, <2>7 DEF KeptFor, work, Tasks, Committed
<1> QED
  BY <1>2, <1>3, <1>4, <1>5, <1>6, <1>7 DEF Open

LEMMA KeptDelete ==
  ASSUME GateInv, WorkInv, RemovalInv, KindInv, SessionInv, FilesInv, RowInv,
         NEW t \in Threads, Delete(t), account', BoardOf[t] \in Boards, KeptFor(BoardOf[t])
  PROVE  KeptFor(BoardOf[t])'
<1> DEFINE b == BoardOf[t]
<1> USE DEF GateInv, GateTypes
<1>1. /\ Step(t) /\ t \notin Admins /\ \A u \in Threads : u # t => pc'[u] = pc[u]
  <2>1. Step(t)
    BY DEF Step
  <2> QED
    BY <2>1, StepsDoNotWait, AccountStays
<1>2. t \in Deleters /\ t \notin Users /\ Target(t) = b
  <2>1. t \in Deleters
    BY <1>1, Goers, Kinds DEF KindInv, Delete, DeleterEnters, DeleterCommits, AdminCommits,
      AdminPicks, RemoverLocks, RemoverShuts, RemoverSubmits, DeleterLeaves, AdminAdvances, At,
      Threads
  <2> QED
    BY <1>1, <2>1, Kinds DEF Target
<1>3. ~OwnerFails(t) /\ Users \subseteq Threads /\ Deleters \subseteq Threads
  BY <1>2, LifecycleAssumption DEF OwnerFails, Users, Threads
<1>4. /\ \A u \in Mutators : pc'[u] = pc[u]
      /\ \A u \in Owners : pc'[u] = pc[u]
  BY <1>1, <1>2, <1>3 DEF Users
<1>5. CASE \/ DeleterEnters(t) \/ RemoverLocks(t) \/ RemoverSubmits(t) \/ DeleterLeaves(t)
  <2>1. Aside(t) /\ pc'[t] \notin Scoring
    BY <1>5 DEF DeleterEnters, RemoverLocks, RemoverSubmits, DeleterLeaves, At, Aside, Go, Scoring
  <2>2. files' = files /\ current' = current
    BY <1>5 DEF DeleterEnters, RemoverLocks, RemoverSubmits, DeleterLeaves, sessions
  <2>3. ~DeleterCommits(t)
    BY <1>5 DEF DeleterEnters, RemoverLocks, RemoverSubmits, DeleterLeaves, DeleterCommits, At
  <2> QED
    BY <1>1, <1>3, <2>1, <2>2, <2>3, KeptAside
<1>6. CASE DeleterCommits(t)
  <2>1. /\ pc[t] = "claimed" /\ files' = files /\ current' = current
        /\ pc'[t] = IF b \in row THEN "remove" ELSE "cleaned"
    BY <1>6 DEF DeleterCommits, Go, sessions
  <2>2. CASE b \notin row
    <3>1. Aside(t) /\ pc'[t] \notin Scoring
      BY <2>1, <2>2 DEF Aside, Scoring
    <3> QED
      BY <1>1, <1>3, <2>1, <2>2, <3>1, KeptAside
  <2>3. CASE b \in row
    <3>1. Goes(b, Leaving)' /\ Goes(b, {"remove", "shut"})'
      BY <1>2, <2>1, <2>3 DEF Goes, Leaving
    <3>2. \A u \in Mutators : BoardOf[u] = b => pc'[u] \notin Scoring
      <4> SUFFICES ASSUME NEW u \in Mutators, BoardOf[u] = b, pc'[u] \in Scoring
                   PROVE  FALSE
        OBVIOUS
      <4>1. u \in Users /\ Inside(u) /\ Inside(t) /\ u # t
        BY <1>2, <1>4, <2>1 DEF Users, Inside, Scoring
      <4> QED
        BY <1>2, <4>1, DeletesAlone
    <3> QED
      BY <3>1, <3>2 DEF KeptFor, Known
  <2> QED
    BY <2>2, <2>3
<1>7. CASE RemoverShuts(t)
  <2>1. /\ pc[t] = "shut" /\ pc'[t] = "barrier" /\ files' = files /\ row' = row
        /\ writer' = writer /\ UNCHANGED work
    BY <1>7 DEF RemoverShuts, At, Go, claims
  <2>2. current'[b] = 0
    BY <1>2, <1>7 DEF RemoverShuts, ShutAndDrop, SessionInv
  <2>3. \A u \in Deleters : pc[u] \in Leaving => pc'[u] \in Leaving
    BY <1>1, <1>3, <2>1 DEF Leaving
  <2> QED
    BY <1>4, <2>1, <2>2, <2>3, KeptStays DEF Committed, work, Tasks
<1>8. ~AdminCommits(t) /\ ~AdminPicks(t) /\ ~AdminAdvances(t)
  BY <1>1 DEF AdminCommits, AdminPicks, AdminAdvances
<1> QED
  BY <1>5, <1>6, <1>7, <1>8 DEF Delete

LEMMA KeptStep ==
  ASSUME GateInv, WorkInv, RemovalInv, KindInv, SessionInv, FilesInv, RowInv, KeptInv,
         NEW t \in Threads, Step(t), account'
  PROVE  KeptInv'
<1>1. early \subseteq early' /\ early' \subseteq Boards
  BY FilesStep DEF FilesInv
<1>2. ASSUME NEW b \in Boards \ early', b # BoardOf[t] PROVE KeptFor(b)'
  BY <1>1, <1>2, KeptElsewhere DEF KeptInv
<1>3. ASSUME BoardOf[t] \in Boards \ early' PROVE KeptFor(BoardOf[t])'
  <2>1. KeptFor(BoardOf[t]) /\ BoardOf[t] \notin early'
    BY <1>1, <1>3 DEF KeptInv
  <2>2. CASE Mutate(t)
    BY <1>3, <2>1, <2>2, KeptMutate
  <2>3. CASE Open(t)
    BY <1>3, <2>1, <2>3, KeptOpen
  <2>4. CASE Delete(t)
    BY <1>3, <2>1, <2>4, KeptDelete
  <2>5. CASE Busy(t) \/ Leaves(t)
    <3>1. /\ Aside(t) /\ pc'[t] \notin Scoring /\ files' = files /\ current' = current
      BY <2>5 DEF Busy, Leaves, At, Aside, Go, Scoring, GateInv, GateTypes, sessions
    <3>2. ~DeleterCommits(t) /\ ~(OwnerFails(t) /\ writer = t)
      BY <2>5 DEF Busy, Leaves, At, Go, DeleterCommits, OwnerFails, GateInv, GateTypes
    <3> QED
      BY <1>3, <2>1, <3>1, <3>2, KeptAside
  <2> QED
    BY <2>2, <2>3, <2>4, <2>5 DEF Step
<1> QED
  BY <1>2, <1>3 DEF KeptInv

LEMMA KeptExecute ==
  ASSUME GateInv, WorkInv, ServeInv, SessionInv, FilesInv, RowInv, BarrierInv, KeptInv,
         NEW k \in active, Execute(k)
  PROVE  KeptInv'
<1> SUFFICES ASSUME NEW b \in Boards \ early, KeptFor(b) PROVE KeptFor(b)'
  BY FilesExecute DEF KeptInv
<1>1. k \in Task /\ k \in Tasks /\ row' = row /\ writer' = writer
  BY DEF WorkInv, WorkTypes, Task, Tasks, Execute, PushTask, BarrierRemoves, BarrierShuts,
    BarrierDeletes, claims
<1>2. Committed' = Committed
  BY <1>1 DEF Committed
<1>3. CASE PushTask(k)
  <2>1. pc' = pc /\ current' = current /\ k.step = "push" /\ Tasks' \subseteq Tasks
        /\ files' = [files EXCEPT ![k.board] = @ \cup {"state"}]
    BY <1>3, TasksFinish DEF PushTask, sessions
  <2>2. CASE k.board # b
    <3>1. files'[b] = files[b]
      BY <2>1, <2>2 DEF FilesInv
    <3> QED
      BY <1>1, <1>2, <2>1, <3>1, KeptStays
  <2>3. CASE k.board = b
    <3>1. Known(b) /\ Known(b)'
      BY <1>1, <1>2, <2>1, <2>3 DEF KeptFor, Known, Goes
    <3>2. b \in row' \/ Goes(b, Leaving)'
      BY <3>1 DEF Known, Committed
    <3> QED
      BY <1>1, <1>2, <2>1, <3>1, <3>2 DEF KeptFor, Goes, Undoes
  <2> QED
    BY <2>2, <2>3
<1>4. CASE BarrierRemoves(k) \/ BarrierShuts(k)
  <2>1. PICK step : step # "push" /\ Becomes(k, step) /\ fifo' = fifo /\ pc' = pc /\ files' = files
    BY <1>4 DEF BarrierRemoves, BarrierShuts
  <2>2. \A p \in Tasks' : p.step = "push" => p \in Tasks
    <3> DEFINE l == [k EXCEPT !.step = step]
    <3>1. l.step = step /\ active' = (active \ {k}) \cup {l}
      BY <1>1, <2>1 DEF Becomes, Task
    <3> HIDE DEF l
    <3> QED
      BY <2>1, <3>1 DEF Tasks
  <2>3. current'[b] \in {current[b], 0}
    BY <1>4 DEF BarrierRemoves, BarrierShuts, ShutAndDrop, SessionInv
  <2> QED
    BY <1>1, <1>2, <2>1, <2>2, <2>3, KeptStays
<1>5. CASE BarrierDeletes(k)
  <2>1. /\ Barrier(k) /\ Finish(k) /\ Tasks' \subseteq Tasks /\ current' = current
        /\ files' = [files EXCEPT ![k.board] = {}] /\ Go(k.by, "cleaned")
    BY <1>5, TasksFinish DEF BarrierDeletes, sessions, Barrier
  <2>2. k.by \in Deleters /\ BoardOf[k.by] = k.board /\ fifo[k.board] = <<>> /\ pc[k.by] = "wait"
    BY <2>1 DEF BarrierInv, WorkInv, Awaited
  <2>3. \A u \in Threads : u # k.by => pc'[u] = pc[u]
    BY <2>1 DEF Go, GateInv, GateTypes
  <2>4. /\ \A u \in Mutators \cup Owners : pc'[u] = pc[u]
        /\ \A u \in Deleters : u # k.by => pc'[u] = pc[u]
    BY <2>2, <2>3, LifecycleAssumption DEF Threads
  <2>5. CASE k.board # b
    <3>1. files'[b] = files[b]
      BY <2>1, <2>5 DEF FilesInv
    <3>2. \A u \in Deleters : BoardOf[u] = b => pc'[u] = pc[u]
      BY <2>2, <2>4, <2>5
    <3> QED
      BY <1>1, <1>2, <2>1, <2>4, <3>1, <3>2, KeptStays
  <2>6. CASE k.board = b
    <3>1. files'[b] = {}
      BY <2>1, <2>6 DEF FilesInv
    <3>2. \A p \in Tasks' : p.board = b => p.step # "push"
      <4> SUFFICES ASSUME NEW p \in Tasks, p.board = b PROVE p.step # "push"
        BY <2>1
      <4>1. CASE p \in active
        BY <2>1, <2>6, <4>1 DEF ServeInv, Barrier
      <4>2. CASE \E c \in Boards : \E i \in DOMAIN fifo[c] : p = fifo[c][i]
        <5>1. PICK c \in Boards : \E i \in DOMAIN fifo[c] : p = fifo[c][i]
          BY <4>2
        <5>2. c = b
          BY <5>1 DEF ServeInv
        <5>3. fifo[b] = <<>>
          BY <2>2, <2>6
        <5> QED
          BY <5>1, <5>2, <5>3
      <4> QED
        BY <4>1, <4>2, InTasks
    <3>3. ~Goes(b, {"remove", "shut"})
      <4> SUFFICES ASSUME NEW u \in Deleters, BoardOf[u] = b, pc[u] \in {"remove", "shut"}
                   PROVE  FALSE
        BY DEF Goes
      <4>1. Inside(u) /\ Inside(k.by) /\ u # k.by
        BY <2>2 DEF Inside
      <4> QED
        BY <2>2, <2>6, <4>1, DeletesAlone
    <3>4. current'[b] # 0 => b \in row' \/ Undoes(b, {"discard", "discarding"})'
      BY <1>1, <2>1, <2>4, <3>3 DEF KeptFor, Undoes
    <3>5. \A u \in Mutators : BoardOf[u] = b /\ pc'[u] \in Scoring => (b \in Committed)'
      BY <1>2, <2>4 DEF KeptFor
    <3> QED
      BY <3>1, <3>2, <3>4, <3>5 DEF KeptFor
  <2> QED
    BY <2>5, <2>6
<1> QED
  BY <1>3, <1>4, <1>5 DEF Execute

-----------------------------------------------------------------------------
Inv == /\ GateInv /\ WorkInv /\ RemovalInv /\ SessionInv
       /\ ServeInv /\ KindInv /\ RuntimeInv

LEMMA Begins == ASSUME Init PROVE Inv
<1>1. \A b : UsersOf(b) = {} /\ DeletersOf(b) = {}
  BY Kinds DEF Init, Inside, UsersOf, DeletersOf
<1>2. GateInv
  <2>1. "start" \in Stages
    BY DEF Stages
  <2>2. GateTypes
    BY <2>1 DEF Init, GateTypes
  <2>3. GateCounts /\ GateGuards
    BY <1>1, FS_EmptySet DEF Init, GateCounts, GateGuards
  <2> QED
    BY <2>2, <2>3 DEF GateInv
<1>3. WorkInv
  BY DEF Init, WorkInv, WorkTypes, Awaited, OnlyOne
<1>4. RemovalInv
  <2>1. "start" \in AdminStages /\ "start" \notin Removing
    BY DEF AdminStages, Removing
  <2> QED
    BY <2>1, Kinds DEF Init, RemovalInv
<1>5. SessionInv
  <2>1. Cardinality(Boards) \in Nat
    BY LifecycleAssumption, FS_CardinalityType
  <2> QED
    BY <2>1 DEF Init, SessionInv
<1>6. ServeInv
  BY LifecycleAssumption, FS_EmptySet DEF Init, ServeInv
<1>7. KindInv
  BY Goers DEF Init, KindInv, Threads, AdminStages
<1>8. RuntimeInv
  <2>1. FilesInv
    BY DEF Init, FilesInv
  <2>2. RowInv
    BY Kinds, LifecycleAssumption DEF Init, RowInv, Threads
  <2>3. BarrierInv
    BY DEF Init, BarrierInv
  <2>4. Committed = Boards
    BY LifecycleAssumption DEF Init, Committed, Threads
  <2>5. KeptInv
    BY <2>4 DEF KeptInv, KeptFor, Known, Committed
  <2> QED
    BY <2>1, <2>2, <2>3, <2>5 DEF RuntimeInv
<1> QED
  BY <1>2, <1>3, <1>4, <1>5, <1>6, <1>7, <1>8 DEF Inv

LEMMA RuntimeStep ==
  ASSUME Inv, NEW t \in Threads, Step(t)
  PROVE  RuntimeInv'
<1>1. FilesInv'
  BY FilesStep DEF Inv, RuntimeInv
<1>2. ASSUME account' PROVE RowInv' /\ BarrierInv' /\ KeptInv'
  <2>1. account
    BY <1>2, AccountHolds
  <2>2. RowInv /\ BarrierInv /\ KeptInv
    BY <2>1 DEF Inv, RuntimeInv
  <2> QED
    BY <1>2, <2>2, RowStep, BarrierStep, KeptStep DEF Inv, RuntimeInv
<1> QED
  BY <1>1, <1>2 DEF RuntimeInv

LEMMA RuntimeExecute ==
  ASSUME Inv, NEW k \in active, Execute(k)
  PROVE  RuntimeInv'
<1>1. FilesInv'
  BY FilesExecute DEF Inv, RuntimeInv
<1>2. account' = account /\ row' = row /\ writer' = writer /\ k.by \in Threads
  BY DEF Inv, WorkInv, WorkTypes, Task, Execute, PushTask, BarrierRemoves, BarrierShuts,
    BarrierDeletes, claims
<1>3. ASSUME account PROVE RowInv' /\ BarrierInv' /\ KeptInv'
  <2>1. RowInv /\ BarrierInv /\ KeptInv
    BY <1>3 DEF Inv, RuntimeInv
  <2>2. BarrierInv' /\ KeptInv'
    BY <2>1, BarrierExecute, KeptExecute DEF Inv, RuntimeInv
  <2>3. \A u \in Threads : pc'[u] = pc[u] \/ (u \in Deleters /\ pc'[u] = "cleaned")
    <3>1. CASE PushTask(k) \/ BarrierRemoves(k) \/ BarrierShuts(k)
      BY <3>1 DEF PushTask, BarrierRemoves, BarrierShuts
    <3>2. CASE BarrierDeletes(k)
      <4>1. k.by \in Deleters /\ Go(k.by, "cleaned")
        BY <2>1, <3>2 DEF BarrierDeletes, BarrierInv, Barrier
      <4> QED
        BY <4>1 DEF Go, Inv, GateInv, GateTypes
    <3> QED
      BY <3>1, <3>2 DEF Execute
  <2>4. \A u \in Users \cup Admins : pc'[u] = pc[u]
    BY <2>3, Kinds
  <2>5. RowInv'
    BY <1>2, <2>1, <2>4 DEF RowInv, Users, Committed
  <2> QED
    BY <2>2, <2>5
<1> QED
  BY <1>1, <1>2, <1>3 DEF RuntimeInv

LEMMA Steps == ASSUME Inv, [Next]_vars PROVE Inv'
<1>1. CASE \E t \in Threads : Step(t)
  BY <1>1, ClaimsStep, SessionStep, ServeStep, KindStep, RuntimeStep DEF Inv
<1>2. CASE \E k \in active : Execute(k)
  BY <1>2, ClaimsExecute, SessionExecute, ServeExecute, KindExecute, RuntimeExecute DEF Inv
<1>3. CASE UNCHANGED vars
  <2>1. /\ pc' = pc /\ gate' = gate /\ row' = row /\ todo' = todo /\ UNCHANGED work
        /\ UNCHANGED <<current, shut, made>>
        /\ account' = account /\ writer' = writer /\ files' = files /\ early' = early
        /\ active' = active /\ fifo' = fifo
    BY <1>3 DEF vars, claims, sessions, work
  <2>2. GateInv'
    BY <2>1, GoesOn DEF Inv, Inside, GateInv, GateTypes
  <2>3. WorkInv' /\ SessionInv'
    BY <2>1, WorkRests, SessionRests DEF Inv
  <2>4. RemovalInv'
    BY <2>1 DEF Inv, RemovalInv
  <2>5. ServeInv' /\ KindInv'
    BY <2>1 DEF Inv, ServeInv, KindInv
  <2>6. RuntimeInv'
    BY <2>1 DEF Inv, RuntimeInv, FilesInv, RowInv, BarrierInv, KeptInv, KeptFor, Known, Goes,
      Undoes, Committed, Tasks
  <2> QED
    BY <2>2, <2>3, <2>4, <2>5, <2>6 DEF Inv
<1> QED
  BY <1>1, <1>2, <1>3 DEF Next

\* The gate does its work: no request scores, opens or deletes a board that is
\* being deleted, whatever the requests and however many.
THEOREM DeletersStayAlone == Spec => []DeletersAreAlone
<1>1. Inv => DeletersAreAlone
  <2> SUFFICES ASSUME Inv, NEW t \in Deleters, Inside(t), NEW u \in Threads \ Admins,
                      Inside(u), BoardOf[u] = BoardOf[t]
               PROVE  u = t
    BY DEF DeletersAreAlone
  <2> DEFINE b == BoardOf[t]
  <2>1. b \in Boards /\ t \in DeletersOf(b)
    BY Kinds DEF DeletersOf
  <2>2. gate[b].deleting /\ UsersOf(b) = {}
    BY <2>1 DEF Inv, GateInv, GateGuards
  <2>3. u \in DeletersOf(b)
    BY <2>2, Kinds DEF UsersOf, DeletersOf
  <2> QED
    BY <2>1, <2>3 DEF Inv, GateInv, GateGuards
<1> QED
  BY <1>1, Begins, Steps, PTL DEF Spec

\* Nobody is ever handed a session that can no longer save: removal shuts a
\* session down and unregisters it in one, and each is a session of one board.
THEOREM SessionsCanSave == Spec => []RegisteredCanSave
<1>1. Inv => RegisteredCanSave
  BY DEF Inv, SessionInv, RegisteredCanSave
<1> QED
  BY <1>1, Begins, Steps, PTL DEF Spec

\* Deletions are alone with their boards, and leave nobody a session they shut down.
THEOREM DeletionsAreExclusive == Spec => []DeletionIsExclusive
BY DeletersStayAlone, SessionsCanSave, PTL DEF DeletionIsExclusive

\* Nobody revives a board behind the back of a deletion, whoever scores, opens or
\* deletes and whatever work waits: what is left of a board without a row is in
\* the hands of the deletion or the rollback that took the row, which holds its
\* claim until the files are gone.
THEOREM NothingIsLeftBehind == Spec => []NoRuntimeWithoutOverlay
<1>1. Inv => NoRuntimeWithoutOverlay
  <2> SUFFICES ASSUME Inv, account, NEW b \in Boards \ early, b \notin row, Runtime(b)
               PROVE  gate[b].deleting \/ gate[b].users > 0
    BY DEF NoRuntimeWithoutOverlay
  <2>1. \/ Goes(b, Leaving) \/ Goes(b, {"remove", "shut"})
        \/ Undoes(b, {"discard", "discarding"}) \/ Undoes(b, {"discard", "discarding", "discarded"})
    BY DEF Inv, RuntimeInv, KeptInv, KeptFor, Runtime
  <2>2. \/ \E t \in Deleters : BoardOf[t] = b /\ Inside(t)
        \/ \E t \in Owners : BoardOf[t] = b /\ Inside(t)
    BY <2>1 DEF Goes, Undoes, Inside, Leaving
  <2>3. CASE \E t \in Deleters : BoardOf[t] = b /\ Inside(t)
    BY <2>3 DEF Inv, GateInv, GateGuards, DeletersOf
  <2>4. CASE \E t \in Owners : BoardOf[t] = b /\ Inside(t)
    <3>1. UsersOf(b) # {}
      BY <2>4 DEF UsersOf, Users
    <3>2. IsFiniteSet(UsersOf(b)) /\ Cardinality(UsersOf(b)) \in Nat
      BY UsersFinite
    <3>3. Cardinality(UsersOf(b)) # 0
      BY <3>1, <3>2, FS_EmptySet
    <3>4. gate[b].users = Cardinality(UsersOf(b))
      BY DEF Inv, GateInv, GateCounts
    <3> QED
      BY <3>2, <3>3, <3>4
  <2> QED
    BY <2>2, <2>3, <2>4
<1> QED
  BY <1>1, Begins, Steps, PTL DEF Spec
=============================================================================
