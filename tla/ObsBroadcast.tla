---------------------------- MODULE ObsBroadcast ----------------------------
(***************************************************************************)
(* The path from a change of an overlay's state to the OBS browser         *)
(* sources that show it: the state store, which orders its writes by a     *)
(* lock per overlay; the hub of app/overlay/broadcast.py, which pushes the *)
(* state of the moment after a debounce that every further change starts   *)
(* again; the WebSocket route; and the page, which reconnects for ever.    *)
(* Overlays share nothing here, so there is one.  A state is the number of *)
(* the change that made it.                                                *)
(***************************************************************************)
EXTENDS Integers, FiniteSets

CONSTANTS
  Sources,      \* browser sources
  Writers,      \* threads that change the state: a request, the executor
  Cap,          \* _MAX_CLIENTS_PER_OVERLAY
  Punctual,     \* a snapshot is sent sooner after it is read than a debounce lasts
  MaxChanges,   \* bound: changes of the state
  MaxTimeouts,  \* bound: sends that run into the timeout
  MaxCuts,      \* bound: connections that break
  MaxRestarts   \* bound: restarts of the process

ASSUME ObsAssumption ==
  /\ Cap \in Nat \ {0} /\ Punctual \in BOOLEAN
  /\ MaxChanges \in Nat /\ MaxTimeouts \in Nat /\ MaxCuts \in Nat /\ MaxRestarts \in Nat

VARIABLES
  state,    \* the state in memory
  disk,     \* the state file
  writer,   \* per thread: idle, saving under the persistence lock, or saved
  posted,   \* schedule_broadcast calls posted to the loop
  task,     \* the current broadcast task
  clients,  \* sources the hub knows
  conn,     \* per source: its socket, as the server knows it
  shown,    \* per source: the state it was last sent, which it shows unless it is cut off
  lost,     \* history: states a restart took back
  deaf,     \* history: open sockets a send to which has timed out
  used      \* the bounds' counters

store == <<state, disk, writer, lost>>
hub == <<posted, task, clients>>
pages == <<conn, shown>>
vars == <<store, hub, pages, deaf, used>>

Idle == [stage |-> "idle", snap |-> 0]
NoTask == [stage |-> "none", hops |-> {}, to |-> {}, failed |-> {}]

Init ==
  /\ state = 0 /\ disk = 0 /\ lost = {}
  /\ writer = [w \in Writers |-> Idle]
  /\ posted = 0 /\ task = NoTask /\ clients = {}
  /\ conn = [s \in Sources |-> [stage |-> "closed", snap |-> 0]]
  /\ shown = [s \in Sources |-> 0]
  /\ deaf = {}
  /\ used = [changes |-> 0, timeouts |-> 0, cuts |-> 0, restarts |-> 0]

-----------------------------------------------------------------------------
\* The state store.

Changed(w) ==
  /\ writer[w] = Idle /\ used.changes < MaxChanges
  /\ used' = [used EXCEPT !.changes = @ + 1]
  /\ state' = used.changes + 1
  /\ writer' = [writer EXCEPT ![w] = [stage |-> "saving", snap |-> state']]
  /\ UNCHANGED <<disk, lost, hub, pages, deaf>>

\* Mutant: no lock orders the snapshots on their way to the disk.
MutateUnordered(w) == Changed(w)

\* _mutate_and_persist holds the overlay's persistence lock until it has saved.
Mutate(w) == (\A v \in Writers : writer[v].stage # "saving") /\ Changed(w)

\* A snapshot that cannot be written is logged, and the change stands.
Persist(w, written) ==
  /\ writer[w].stage = "saving"
  /\ disk' = IF written THEN writer[w].snap ELSE disk
  /\ writer' = [writer EXCEPT ![w].stage = "saved"]
  /\ UNCHANGED <<state, lost, hub, pages, deaf, used>>

\* Mutant: the change is not announced.
NotifyNobody(w) ==
  /\ writer[w].stage = "saved"
  /\ writer' = [writer EXCEPT ![w] = Idle]
  /\ UNCHANGED <<state, disk, lost, hub, pages, deaf, used>>

\* schedule_broadcast_from_sync.
Notify(w) ==
  /\ writer[w].stage = "saved"
  /\ writer' = [writer EXCEPT ![w] = Idle]
  /\ posted' = posted + 1
  /\ UNCHANGED <<state, disk, lost, task, clients, pages, deaf, used>>

-----------------------------------------------------------------------------
\* The hub, on the event loop.

\* The snapshots read and not sent when the debounce starts are sent before it
\* ends, if they are punctual.
Hops == {s \in Sources : conn[s].stage = "read"}
Debounce == [NoTask EXCEPT !.stage = "sleeping", !.hops = Hops]

\* Mutant: a broadcast under way is left to finish, and counts for the change.
ScheduleOnce ==
  /\ posted > 0 /\ posted' = posted - 1
  /\ task' = IF task.stage = "none" THEN Debounce ELSE task
  /\ UNCHANGED <<store, clients, pages, deaf, used>>

\* Mutant: a send that is cancelled counts as one that failed.
ScheduleDropping ==
  /\ posted > 0 /\ posted' = posted - 1
  /\ task' = Debounce /\ clients' = clients \ task.to
  /\ UNCHANGED <<store, pages, deaf, used>>

\* schedule_broadcast cancels the task there is, asleep or sending.
Schedule ==
  /\ posted > 0 /\ posted' = posted - 1
  /\ task' = Debounce
  /\ UNCHANGED <<store, clients, pages, deaf, used>>

Connected(s) == conn[s].stage \in {"accepted", "read", "open"}

\* Mutant: what is sent is the file.
BroadcastFile ==
  /\ task.stage = "sleeping"
  /\ task' = IF clients = {} THEN NoTask
             ELSE [NoTask EXCEPT !.stage = "sending", !.to = clients]
  /\ shown' = [s \in Sources |-> IF s \in clients /\ Connected(s) THEN disk ELSE shown[s]]
  /\ UNCHANGED <<store, posted, clients, conn, deaf, used>>

\* The sends are started in one turn of the loop; what is left is their ends.
Broadcast ==
  /\ task.stage = "sleeping"
  /\ task' = IF clients = {} THEN NoTask
             ELSE [NoTask EXCEPT !.stage = "sending", !.to = clients]
  /\ shown' = [s \in Sources |-> IF s \in clients /\ Connected(s) THEN state ELSE shown[s]]
  /\ UNCHANGED <<store, posted, clients, conn, deaf, used>>

\* Mutant: there is no debounce.
WakeAtOnce == Broadcast

\* _debounced_broadcast has slept, and reads the state of this moment.
Wake == (Punctual => task.hops \cap Hops = {}) /\ Broadcast

\* A send ends: it went out, it raised, or it ran into the timeout.
Sent(s) ==
  /\ s \in task.to /\ Connected(s)
  /\ task' = [task EXCEPT !.to = @ \ {s}]
  /\ UNCHANGED <<store, posted, clients, pages, deaf, used>>

SendFails(s) ==
  /\ s \in task.to /\ conn[s].stage = "cut"
  /\ task' = [task EXCEPT !.to = @ \ {s}, !.failed = @ \cup {s}]
  /\ UNCHANGED <<store, posted, clients, pages, deaf, used>>

SendTimesOut(s) ==
  /\ s \in task.to /\ Connected(s) /\ used.timeouts < MaxTimeouts
  /\ task' = [task EXCEPT !.to = @ \ {s}, !.failed = @ \cup {s}]
  /\ deaf' = deaf \cup {s}
  /\ used' = [used EXCEPT !.timeouts = @ + 1]
  /\ UNCHANGED <<store, posted, clients, pages>>

\* The gather is over: the failed ones leave the list, not their sockets.
EndBroadcast ==
  /\ task.stage = "sending" /\ task.to = {}
  /\ clients' = clients \ task.failed
  /\ task' = NoTask
  /\ UNCHANGED <<store, posted, pages, deaf, used>>

-----------------------------------------------------------------------------
\* The route, and the page behind it.

At(s, stage) == conn[s].stage = stage
To(s, stage) == conn' = [conn EXCEPT ![s].stage = stage]

\* add_client before accept; a full overlay refuses, and the page tries again.
Connect(s) ==
  /\ At(s, "closed") /\ Cardinality(clients) < Cap
  /\ clients' = clients \cup {s} /\ To(s, "accepted")
  /\ UNCHANGED <<store, posted, task, shown, deaf, used>>

\* The snapshot is read in a worker thread, and sent by the loop.
ReadSnapshot(s) ==
  /\ At(s, "accepted")
  /\ conn' = [conn EXCEPT ![s] = [stage |-> "read", snap |-> state]]
  /\ UNCHANGED <<store, hub, shown, deaf, used>>

SendSnapshot(s) ==
  /\ At(s, "read")
  /\ shown' = [shown EXCEPT ![s] = conn[s].snap]
  /\ To(s, "open")
  /\ UNCHANGED <<store, hub, deaf, used>>

Cut(s) ==
  /\ Connected(s) /\ used.cuts < MaxCuts
  /\ conn' = [conn EXCEPT ![s] = [stage |-> "cut", snap |-> 0]]
  /\ used' = [used EXCEPT !.cuts = @ + 1]
  /\ UNCHANGED <<store, hub, shown, deaf>>

\* The handler ends: remove_client.  A broadcast under way knows the socket that
\* is gone, not the next one of the same page.
Leave(s) ==
  /\ At(s, "cut") /\ To(s, "closed")
  /\ clients' = clients \ {s} /\ deaf' = deaf \ {s}
  /\ task' = [task EXCEPT !.hops = @ \ {s}, !.to = @ \ {s}, !.failed = @ \ {s}]
  /\ UNCHANGED <<store, posted, shown, used>>

\* The process starts again from the file; the pages stay as they are.
Restart ==
  /\ used.restarts < MaxRestarts
  /\ used' = [used EXCEPT !.restarts = @ + 1]
  /\ state' = disk /\ lost' = lost \cup (disk + 1)..used.changes
  /\ writer' = [w \in Writers |-> Idle]
  /\ posted' = 0 /\ task' = NoTask /\ clients' = {} /\ deaf' = {}
  /\ conn' = [s \in Sources |-> [stage |-> "closed", snap |-> 0]]
  /\ UNCHANGED <<disk, shown>>

-----------------------------------------------------------------------------
Write(w) == Mutate(w) \/ (\E written \in BOOLEAN : Persist(w, written)) \/ Notify(w)
Push(s) == Sent(s) \/ SendFails(s) \/ SendTimesOut(s)
Page(s) == Connect(s) \/ ReadSnapshot(s) \/ SendSnapshot(s) \/ Leave(s)

Next ==
  \/ \E w \in Writers : Write(w)
  \/ Schedule \/ Wake \/ EndBroadcast
  \/ \E s \in Sources : Push(s) \/ Page(s) \/ Cut(s)
  \/ Restart

Spec == Init /\ [][Next]_vars

\* Threads run on, so does the event loop, a send ends one way or another, and a
\* page tries again every two seconds: one that always meets a full overlay may
\* not get in, so Connect is not fair.
FairSpec ==
  /\ Spec /\ WF_vars(Schedule) /\ WF_vars(Wake) /\ WF_vars(EndBroadcast)
  /\ \A w \in Writers : WF_vars(Persist(w, TRUE) \/ Persist(w, FALSE) \/ Notify(w))
  /\ \A s \in Sources : /\ WF_vars(Push(s)) /\ WF_vars(Leave(s))
                        /\ WF_vars(ReadSnapshot(s) \/ SendSnapshot(s))

-----------------------------------------------------------------------------
\* Once nothing is under way, every connected source shows the current state:
\* no change is swallowed by the cancelling of broadcasts, by a connection that
\* is being set up, or by a client that is being dropped.
Quiet == (\A w \in Writers : writer[w] = Idle) /\ posted = 0 /\ task = NoTask
QuietScreensAgree ==
  Quiet => \A s \in clients : At(s, "open") => shown[s] = state

\* Broadcasts never take a screen back to an older state: that is left to a
\* restart that lost the newer one, and to the snapshot of the connection, which
\* may be overtaken by a broadcast on its way.
ScreensNeverGoBack ==
  [][\A s \in Sources : shown'[s] < shown[s] =>
       shown[s] \in lost \/ shown'[s] = conn[s].snap]_vars

\* The file never goes back to an older state.
FileNeverGoesBack == [][disk' >= disk]_vars

\* Neither the file nor a screen goes back to an older state, but for what is said above.
NothingGoesBack == FileNeverGoesBack /\ ScreensNeverGoBack

\* An open socket is out of the hub's list only if a send to it has timed out: a
\* cancelled broadcast, a reconnection or another's failure drops nobody.
OnlyTimeoutsDrop ==
  \A s \in Sources \ clients : Connected(s) => s \in deaf

\* When the changes stop, the screens that the hub knows come to show the last.
ScreensCatchUp ==
  <>[](\A s \in clients : At(s, "open") => shown[s] = state)
=============================================================================
