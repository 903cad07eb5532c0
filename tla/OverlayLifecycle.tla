-------------------------- MODULE OverlayLifecycle --------------------------
(***************************************************************************)
(* The life of an overlay: its row in the database, the live session, the  *)
(* files kept for it, and the threads that create, use and delete them.    *)
(* They meet in OverlayLifecycleGate, whose claims never wait, in the lock *)
(* of SessionManager, in the lock of a session's Backend, which save_model *)
(* holds while it submits, and in the overlay executor, which is here as   *)
(* OverlayExecutor shows it to behave.                                     *)
(***************************************************************************)
EXTENDS Integers, Sequences, FiniteSets

CONSTANTS
  Boards,    \* storage keys of one account
  Mutators,  \* requests that score
  Owners,    \* session inits by the owner, which create a missing row
  Failing,   \* the owners whose transaction may roll back
  Links,     \* session inits through a control link, which do not
  Deleters,  \* requests to delete an overlay
  Admins,    \* requests to delete the account
  BoardOf,   \* the board of every thread but the admins
  Workers,   \* threads of the executor
  Capacity   \* work it accepts

Threads == Mutators \cup Owners \cup Links \cup Deleters \cup Admins

ASSUME LifecycleAssumption ==
  /\ IsFiniteSet(Threads) /\ IsFiniteSet(Boards)
  /\ Mutators \cap Owners = {} /\ (Mutators \cup Owners) \cap Links = {}
  /\ (Mutators \cup Owners \cup Links) \cap (Deleters \cup Admins) = {}
  /\ Deleters \cap Admins = {} /\ "free" \notin Threads
  /\ \A t \in Threads \ Admins : BoardOf[t] \in Boards
  /\ Failing \subseteq Owners
  /\ Workers \in Nat \ {0} /\ Capacity \in Nat \ {0}

VARIABLES
  pc,       \* per thread
  obj,      \* per thread: the session object it works on
  gate,     \* per board: users, deleting
  account,  \* the user row exists
  row,      \* boards with an overlay row
  writer,   \* the owner whose open transaction created a row, or "free"
  current,  \* per board: the registered session object, 0 for none
  shut,     \* session objects whose backend has been shut down
  made,     \* how many session objects there have been
  files,    \* per board: the files kept for it
  registry, \* the thread in a section of SessionManager._lock, or whose task is
  fifo,     \* per board: accepted background work
  active,   \* background work under way, and what it does next
  todo,     \* per admin: boards whose runtime is still to be removed
  early     \* boards scored before their creation was committed

claims == <<gate, account, row, writer>>
sessions == <<obj, current, shut, made, registry>>
work == <<fifo, active>>
vars == <<pc, claims, sessions, files, work, todo, early>>

Files == {"state", "meta", "log"}

\* Every board starts in use: one session, all its files.
Init ==
  /\ pc = [t \in Threads |-> "start"] /\ obj = [t \in Threads |-> 0]
  /\ gate = [b \in Boards |-> [users |-> 0, deleting |-> FALSE]]
  /\ account = TRUE /\ row = Boards /\ writer = "free"
  /\ \E f \in [Boards -> 1..Cardinality(Boards)] :
       /\ \A b, d \in Boards : f[b] = f[d] => b = d
       /\ current = f
  /\ shut = {} /\ made = Cardinality(Boards)
  /\ files = [b \in Boards |-> Files]
  /\ registry = {}
  /\ fifo = [b \in Boards |-> <<>>] /\ active = {}
  /\ todo = [t \in Admins |-> {}] /\ early = {}

\* The rows every transaction sees: not the one of a transaction still open.
Committed == row \ {BoardOf[t] : t \in Owners \cap {writer}}

Go(t, to) == pc' = [pc EXCEPT ![t] = to]
At(t, from, to) == pc[t] = from /\ Go(t, to)

-----------------------------------------------------------------------------
\* OverlayLifecycleGate.

BeginUse(b) ==
  /\ ~gate[b].deleting
  /\ gate' = [gate EXCEPT ![b].users = @ + 1]
\* Mutant: a deletion does not look at the users of the key.
BeginDeleteAnyway(b) ==
  /\ ~gate[b].deleting
  /\ gate' = [gate EXCEPT ![b].deleting = TRUE]

BeginDelete(b) ==
  /\ ~gate[b].deleting /\ gate[b].users = 0
  /\ gate' = [gate EXCEPT ![b].deleting = TRUE]
EndUse(b) == gate' = [gate EXCEPT ![b].users = @ - 1]
EndDelete(b) == gate' = [gate EXCEPT ![b].deleting = FALSE]

\* OverlayLifecycleBusy: the claim is refused and the request with it.
Busy(t) ==
  LET b == BoardOf[t] IN
  /\ t \notin Admins /\ pc[t] \in {"start", "resolved"}
  /\ gate[b].deleting \/ (t \in Deleters /\ gate[b].users > 0)
  /\ Go(t, "done")
  /\ UNCHANGED <<claims, sessions, files, work, todo, early>>

-----------------------------------------------------------------------------
\* SessionManager.remove: the lock of the registry, and inside it the lock of
\* the session's backend.  p is the thread that removes, or the one whose task does.

BackendFree(o) == \A t \in Mutators : ~(pc[t] = "submit" /\ obj[t] = o)

TakeRegistry(p) == registry = {} /\ registry' = {p}
\* Mutant: the lock is kept.
ShutHolding(p, b) ==
  /\ registry = {p} /\ UNCHANGED registry
  /\ BackendFree(current[b])
  /\ shut' = shut \cup ({current[b]} \ {0})
  /\ current' = [current EXCEPT ![b] = 0]

ShutAndDrop(p, b) ==
  /\ registry = {p} /\ registry' = {}
  /\ BackendFree(current[b])
  /\ shut' = shut \cup ({current[b]} \ {0})
  /\ current' = [current EXCEPT ![b] = 0]

\* The executor: work of one board in order and never overlapping, started as
\* soon as a worker is free; which of the waiting boards comes next is open.
Tasks == active \cup UNION {{fifo[b][j] : j \in DOMAIN fifo[b]} : b \in Boards}
Room == Cardinality(Tasks) < Capacity
Startable(running, b) == Cardinality(running) < Workers /\ \A k \in running : k.board # b

Submit(b, t, step) ==
  LET task == [board |-> b, by |-> t, step |-> step] IN
  /\ Room
  /\ IF Startable(active, b)
     THEN active' = active \cup {task} /\ UNCHANGED fifo
     ELSE fifo' = [fifo EXCEPT ![b] = Append(@, task)] /\ UNCHANGED active

Finish(k) ==
  LET rest == active \ {k}
      next == {b \in Boards : fifo[b] # <<>> /\ Startable(rest, b)}
  IN  IF next = {}
      THEN active' = rest /\ UNCHANGED fifo
      ELSE \E b \in next : /\ active' = rest \cup {Head(fifo[b])}
                          /\ fifo' = [fifo EXCEPT ![b] = Tail(@)]

Becomes(k, step) == active' = (active \ {k}) \cup {[k EXCEPT !.step = step]}

\* A push writes the overlay state, and creates it if it is not there.
PushTask(k) ==
  /\ k \in active /\ k.step = "push"
  /\ files' = [files EXCEPT ![k.board] = @ \cup {"state"}]
  /\ Finish(k)
  /\ UNCHANGED <<pc, claims, sessions, todo, early>>

\* The barrier: reap once more, and then the files.
BarrierRemoves(k) ==
  /\ k \in active /\ k.step = "reap"
  /\ TakeRegistry(k.by) /\ Becomes(k, "shut")
  /\ UNCHANGED <<pc, claims, obj, current, shut, made, files, fifo, todo, early>>

BarrierShuts(k) ==
  /\ k \in active /\ k.step = "shut"
  /\ ShutAndDrop(k.by, k.board) /\ Becomes(k, "files")
  /\ UNCHANGED <<pc, claims, obj, made, files, fifo, todo, early>>

\* run_after_pending returns in the thread that waits for it.
BarrierDeletes(k) ==
  /\ k \in active /\ k.step = "files"
  /\ files' = [files EXCEPT ![k.board] = {}]
  /\ Finish(k) /\ Go(k.by, "cleaned")
  /\ UNCHANGED <<claims, sessions, todo, early>>

-----------------------------------------------------------------------------
\* A scoring request: get_session, then the handler.

MutatorEnters(t) ==
  /\ t \in Mutators /\ account /\ At(t, "start", "claimed") /\ BeginUse(BoardOf[t])
  /\ UNCHANGED <<account, row, writer, sessions, files, work, todo, early>>

\* No session is a 404.  The session may be that of an owner whose own row is
\* not committed yet: the cookie of its account is enough to score.
MutatorFinds(t) ==
  LET b == BoardOf[t]
      o == current[b]
  IN
  /\ t \in Mutators /\ pc[t] = "claimed" /\ registry = {}
  /\ Go(t, IF o = 0 THEN "release" ELSE "audit")
  /\ obj' = [obj EXCEPT ![t] = o]
  /\ early' = IF o # 0 /\ b \notin Committed THEN early \cup {b} ELSE early
  /\ UNCHANGED <<claims, current, shut, made, registry, files, work, todo>>

\* GameSession.lock, from the audit line to the last write of the handler.
SessionFree(o) == \A t \in Mutators : ~(pc[t] \in {"save", "submit", "meta"} /\ obj[t] = o)

MutatorAudits(t) ==
  /\ t \in Mutators /\ At(t, "audit", "save") /\ SessionFree(obj[t])
  /\ files' = [files EXCEPT ![BoardOf[t]] = @ \cup {"log", "meta"}]
  /\ UNCHANGED <<claims, sessions, work, todo, early>>

\* save_model: nothing on a backend that was shut down.
MutatorSaves(t) ==
  /\ t \in Mutators /\ pc[t] = "save" /\ BackendFree(obj[t])
  /\ IF obj[t] \in shut
     THEN Go(t, "meta") /\ UNCHANGED files
     ELSE Go(t, "submit") /\ files' = [files EXCEPT ![BoardOf[t]] = @ \cup {"state"}]
  /\ UNCHANGED <<claims, sessions, work, todo, early>>

MutatorSubmits(t) ==
  /\ t \in Mutators /\ At(t, "submit", "meta")
  /\ Submit(BoardOf[t], t, "push")
  /\ UNCHANGED <<claims, sessions, files, todo, early>>

MutatorPersists(t) ==
  /\ t \in Mutators /\ At(t, "meta", "release")
  /\ files' = [files EXCEPT ![BoardOf[t]] = @ \cup {"meta"}]
  /\ UNCHANGED <<claims, sessions, work, todo, early>>

\* The transaction commits and its hooks release the claim.
Leaves(t) ==
  /\ t \notin Deleters \cup Admins
  /\ At(t, "release", "done") /\ EndUse(BoardOf[t])
  /\ writer' = IF writer = t THEN "free" ELSE writer
  /\ UNCHANGED <<account, row, sessions, files, work, todo, early>>

-----------------------------------------------------------------------------
\* Opening a board.  An owner claims the key first, and then finds the row or
\* creates it; a link is resolved first, and claimed only then.

OwnerEnters(t) ==
  /\ t \in Owners /\ account
  /\ At(t, "start", "claimed") /\ BeginUse(BoardOf[t])
  /\ UNCHANGED <<account, row, writer, sessions, files, work, todo, early>>

OwnerLooks(t) ==
  /\ t \in Owners /\ pc[t] = "claimed"
  /\ Go(t, IF BoardOf[t] \in Committed THEN "open" ELSE "insert")
  /\ UNCHANGED <<claims, sessions, files, work, todo, early>>

\* The database has one writer.  A plain create stops at the row.
OwnerInserts(t) ==
  /\ t \in Owners /\ pc[t] = "insert" /\ writer = "free"
  /\ account /\ BoardOf[t] \notin row
  /\ \E to \in {"open", "release"} : Go(t, to)
  /\ row' = row \cup {BoardOf[t]} /\ writer' = t
  /\ UNCHANGED <<gate, account, sessions, files, work, todo, early>>

\* The row is there by now, or the user is not.
OwnerDuplicates(t) ==
  /\ t \in Owners /\ writer = "free"
  /\ ~account \/ BoardOf[t] \in row
  /\ At(t, "insert", "release")
  /\ UNCHANGED <<claims, sessions, files, work, todo, early>>

\* The rollback of a creation runs _discard_auto_created_overlay_runtime.
OwnerFails(t) ==
  /\ t \in Failing /\ pc[t] \in {"open", "create", "release"}
  /\ IF writer = t
     THEN Go(t, "discard") /\ row' = row \ {BoardOf[t]} /\ writer' = "free"
     ELSE pc[t] # "release" /\ Go(t, "release") /\ UNCHANGED <<row, writer>>
  /\ UNCHANGED <<gate, account, sessions, files, work, todo, early>>

OwnerDiscards(t) ==
  /\ At(t, "discard", "discarding") /\ TakeRegistry(t)
  /\ UNCHANGED <<claims, obj, current, shut, made, files, work, todo, early>>

OwnerReaps(t) ==
  /\ At(t, "discarding", "discarded") /\ ShutAndDrop(t, BoardOf[t])
  /\ UNCHANGED <<claims, obj, made, files, work, todo, early>>

OwnerDeletes(t) ==
  /\ At(t, "discarded", "release")
  /\ files' = [files EXCEPT ![BoardOf[t]] = @ \ {"meta", "state"}]
  /\ UNCHANGED <<claims, sessions, work, todo, early>>

LinkResolves(t) ==
  /\ t \in Links /\ At(t, "start", "resolved") /\ BoardOf[t] \in Committed
  /\ UNCHANGED <<claims, sessions, files, work, todo, early>>

\* init_session reads the row again before it creates anything.
LinkEnters(t) ==
  /\ t \in Links /\ At(t, "resolved", "claimed") /\ BeginUse(BoardOf[t])
  /\ UNCHANGED <<account, row, writer, sessions, files, work, todo, early>>

LinkChecks(t) ==
  /\ t \in Links /\ pc[t] = "claimed"
  /\ Go(t, IF BoardOf[t] \in Committed THEN "open" ELSE "release")
  /\ UNCHANGED <<claims, sessions, files, work, todo, early>>

NotAllowed(t) ==
  /\ \/ t \in Mutators \cup Owners \cup Deleters /\ ~account
     \/ t \in Links /\ BoardOf[t] \notin Committed
  /\ At(t, "start", "done")
  /\ UNCHANGED <<claims, sessions, files, work, todo, early>>

\* Under the init lock: ensure_overlay, and get_or_create in one section of the
\* registry's lock.
InitFree(b) == \A t \in Owners \cup Links : BoardOf[t] = b => pc[t] # "create"

OpenState(t) ==
  /\ At(t, "open", "create") /\ InitFree(BoardOf[t])
  /\ files' = IF current[BoardOf[t]] # 0 THEN files
              ELSE [files EXCEPT ![BoardOf[t]] = @ \cup {"state"}]
  /\ UNCHANGED <<claims, sessions, work, todo, early>>

OpenSession(t) ==
  LET b == BoardOf[t] IN
  /\ registry = {} /\ At(t, "create", "release")
  /\ IF current[b] # 0
     THEN UNCHANGED <<current, made, files>>
     ELSE /\ made' = made + 1
          /\ current' = [current EXCEPT ![b] = made + 1]
          /\ files' = [files EXCEPT ![b] = @ \cup {"meta"}]
  /\ UNCHANGED <<claims, obj, shut, registry, work, todo, early>>

-----------------------------------------------------------------------------
\* Deleting an overlay: the row, and after the commit its runtime.

DeleterEnters(t) ==
  /\ t \in Deleters /\ account
  /\ At(t, "start", "claimed") /\ BeginDelete(BoardOf[t])
  /\ UNCHANGED <<account, row, writer, sessions, files, work, todo, early>>
\* Mutant: the claim ends with the transaction.
DeleterReleases(t) ==
  LET b == BoardOf[t] IN
  /\ t \in Deleters /\ pc[t] = "claimed" /\ writer = "free"
  /\ Go(t, IF b \in row THEN "remove" ELSE "cleaned")
  /\ row' = row \ {b} /\ EndDelete(b)
  /\ UNCHANGED <<account, writer, sessions, files, work, todo, early>>

\* A missing row is a 404, and the rollback releases the claim.
DeleterCommits(t) ==
  LET b == BoardOf[t] IN
  /\ t \in Deleters /\ pc[t] = "claimed" /\ writer = "free"
  /\ Go(t, IF b \in row THEN "remove" ELSE "cleaned")
  /\ row' = row \ {b}
  /\ UNCHANGED <<gate, account, writer, sessions, files, work, todo, early>>

\* Deleting the account cascades to its overlay rows; no claim is taken.  The
\* write waits for a transaction that is creating a row.
AdminCommits(t) ==
  /\ t \in Admins /\ At(t, "start", "next") /\ account /\ writer = "free"
  /\ account' = FALSE /\ row' = {}
  /\ todo' = [todo EXCEPT ![t] = row]
  /\ UNCHANGED <<gate, writer, sessions, files, work, early>>

AdminPicks(t) ==
  /\ t \in Admins /\ pc[t] = "next"
  /\ IF todo[t] = {} THEN Go(t, "done") ELSE Go(t, "remove")
  /\ UNCHANGED <<claims, sessions, files, work, todo, early>>

Target(t) == IF t \in Admins THEN CHOOSE b \in todo[t] : TRUE ELSE BoardOf[t]

RemoverLocks(t) ==
  /\ At(t, "remove", "shut") /\ TakeRegistry(t)
  /\ UNCHANGED <<claims, obj, current, shut, made, files, work, todo, early>>

RemoverShuts(t) ==
  /\ At(t, "shut", "barrier") /\ ShutAndDrop(t, Target(t))
  /\ UNCHANGED <<claims, obj, made, files, work, todo, early>>

RemoverSubmits(t) ==
  /\ At(t, "barrier", "wait") /\ Submit(Target(t), t, "reap")
  /\ UNCHANGED <<claims, sessions, files, todo, early>>

DeleterLeaves(t) ==
  /\ t \in Deleters /\ At(t, "cleaned", "done") /\ EndDelete(BoardOf[t])
  /\ UNCHANGED <<account, row, writer, sessions, files, work, todo, early>>

AdminAdvances(t) ==
  /\ t \in Admins /\ At(t, "cleaned", "next")
  /\ todo' = [todo EXCEPT ![t] = @ \ {Target(t)}]
  /\ UNCHANGED <<claims, sessions, files, work, early>>

-----------------------------------------------------------------------------
Mutate(t) ==
  \/ MutatorEnters(t) \/ MutatorFinds(t) \/ MutatorAudits(t) \/ MutatorSaves(t)
  \/ MutatorSubmits(t) \/ MutatorPersists(t)

Open(t) ==
  \/ OwnerEnters(t) \/ OwnerLooks(t) \/ OwnerInserts(t) \/ OwnerDuplicates(t)
  \/ OwnerFails(t) \/ OwnerDiscards(t) \/ OwnerReaps(t) \/ OwnerDeletes(t)
  \/ LinkResolves(t) \/ LinkEnters(t) \/ LinkChecks(t) \/ NotAllowed(t) \/ OpenState(t) \/ OpenSession(t)

Delete(t) ==
  \/ DeleterEnters(t) \/ DeleterCommits(t) \/ AdminCommits(t) \/ AdminPicks(t)
  \/ RemoverLocks(t) \/ RemoverShuts(t) \/ RemoverSubmits(t)
  \/ DeleterLeaves(t) \/ AdminAdvances(t)

Step(t) == Busy(t) \/ Mutate(t) \/ Open(t) \/ Leaves(t) \/ Delete(t)

Execute(k) == PushTask(k) \/ BarrierRemoves(k) \/ BarrierShuts(k) \/ BarrierDeletes(k)

Next ==
  \/ \E t \in Threads : Step(t)
  \/ \E k \in active : Execute(k)

Spec == Init /\ [][Next]_vars

\* Every step takes a request or a task further, so it is enough that as long
\* as one can go on, one does; no lock needs to be fair.
FairSpec == Spec /\ WF_vars(Next)

-----------------------------------------------------------------------------
Runtime(b) == files[b] # {} \/ current[b] # 0

\* While the account exists, a board without a row has a session or files only
\* as long as somebody holds a claim on it: whoever deletes waits for the work
\* already accepted, and nobody revives a board behind the back of a deletion.
\* (Except a board somebody scored before its creation was committed: a rollback
\* discards its session under that request, and leaves the audit log behind.)
NoRuntimeWithoutOverlay ==
  account => \A b \in Boards \ early :
    b \notin row /\ Runtime(b) => gate[b].deleting \/ gate[b].users > 0

\* A registered session can still save: nobody is given one whose backend
\* has been shut down, so no score is accepted and then dropped.
RegisteredCanSave == \A b \in Boards : current[b] \notin shut

\* A deletion holds the key alone, from before the row goes until its claim is
\* released: no request scores, opens or deletes the board meanwhile.
Inside(t) == pc[t] \notin {"start", "resolved", "done"}
DeletersAreAlone ==
  \A t \in Deleters : Inside(t) =>
    \A u \in Threads \ Admins : Inside(u) /\ BoardOf[u] = BoardOf[t] => u = t

\* A deletion is alone with its board, and leaves no session behind in the registry
\* that it has shut down.
DeletionIsExclusive == DeletersAreAlone /\ RegisteredCanSave

\* Every request returns: the claims, the registry's lock, the backend's lock
\* and the executor's capacity never wait for each other in a circle.
AtRest == \A t \in Threads : pc[t] = "done"
EveryoneReturns == <>AtRest
=============================================================================
