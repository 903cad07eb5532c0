-------------------------- MODULE RevisionProtocol --------------------------
(***************************************************************************)
(* One board driven from several browser tabs: the React hook              *)
(* useGameState, the mutation routes behind X-Expected-State-Revision, the *)
(* revision that game_state_presenter advances, the three files a board is *)
(* kept in (overlay state, session meta, audit log), and the WebSocket     *)
(* pushes that bring every screen up to date.  The server may stop between *)
(* any two writes, a response or a socket may be lost at any time, and a   *)
(* request whose response was lost may still be executed.                  *)
(*                                                                         *)
(* What a match is made of is abstract here (Scoreboard has it): a board   *)
(* is the sequence of taps it shows, each tap being one operator gesture.  *)
(***************************************************************************)
EXTENDS Integers, Sequences, FiniteSets

CONSTANTS
  Clients,        \* browser tabs
  Taps,           \* gestures: one point each
  Owner,          \* the tab a gesture is made in
  Fingerprinted,  \* has a mutation already persisted this board's fingerprint?
  MaxSent,        \* bound: requests one tab sends
  MaxResets,      \* bound: resets
  MaxCrashes,     \* bound: restarts of the process or expiries of the session
  MaxEvictions    \* bound: pushes that run into the send timeout

ASSUME RevisionAssumption ==
  /\ Owner \in [Taps -> Clients]
  /\ "reset" \notin Taps
  /\ Fingerprinted \in BOOLEAN
  /\ MaxSent \in Nat /\ MaxResets \in Nat
  /\ MaxCrashes \in Nat /\ MaxEvictions \in Nat

VARIABLES
  disk,      \* board and log files, and the session meta's revision, fingerprint
  mem,       \* the GameSession object, while there is one
  job,       \* the mutation that owns session.lock
  requests,  \* mutations sent and not yet executed
  answers,   \* responses not yet received
  pending,   \* per tab: the action in flight (mutationRunningRef)
  view,      \* per tab: stateRef, optimistic writes included
  held,      \* per tab: confirmedState
  sock,      \* per tab: the control WebSocket
  wire,      \* per tab: pushes sent and not yet delivered
  used       \* the bounds' counters

server == <<disk, mem, job>>
screens == <<view, held>>
sockets == <<sock, wire>>
vars == <<disk, mem, job, requests, answers, pending, view, held, sock, wire, used>>

-----------------------------------------------------------------------------
\* States, and the token that tells two of them apart.

State(r, b) == [rev |-> r, board |-> b]
NoState == State(-1, <<>>)                 \* null, before the first snapshot
Null == <<>>                               \* no fingerprint

\* Mutant: the digest says only whether there is something to undo.
UndoDigest(b, log) == <<log # <<>> >>

\* The digest _apply_state_revision takes of a state response: what the board
\* shows, and can_undo, which follows the log.
Digest(b, log) == <<b, log # <<>> >>

Idle == [stage |-> "none"]
NoAction == [kind |-> "none", n |-> 0, snap |-> NoState]

Init ==
  /\ disk = [board |-> <<>>, log |-> <<>>, rev |-> 0,
             fp |-> IF Fingerprinted THEN Digest(<<>>, <<>>) ELSE Null]
  /\ mem = [live |-> FALSE, board |-> <<>>, rev |-> 0, fp |-> Null]
  /\ job = Idle
  /\ requests = {} /\ answers = {}
  /\ pending = [c \in Clients |-> NoAction]
  /\ view = [c \in Clients |-> NoState]
  /\ held = [c \in Clients |-> NoState]
  /\ sock = [c \in Clients |-> "closed"]
  /\ wire = [c \in Clients |-> <<>>]
  /\ used = [sent |-> [c \in Clients |-> 0], resets |-> 0, crashes |-> 0,
             evictions |-> 0]

-----------------------------------------------------------------------------
\* The tab.

\* applyState: an answer must not roll back what a newer push has shown.
Stale(c, s) == s.rev < view[c].rev

Show(c, s) == view' = IF Stale(c, s) THEN view ELSE [view EXCEPT ![c] = s]

Confirm(c, s) ==
  /\ Show(c, s)
  /\ held' = IF Stale(c, s) THEN held ELSE [held EXCEPT ![c] = s]

\* handleAction sends with the revision of the state the operator is looking
\* at; drainMutationQueue keeps one action of a tab in flight.  Of "seen", the
\* header carries the revision.
Send(c, kind, op) ==
  LET n == used.sent[c] + 1 IN
  /\ pending[c] = NoAction /\ view[c] # NoState
  /\ n <= MaxSent
  /\ pending' = [pending EXCEPT ![c] = [kind |-> kind, n |-> n, snap |-> view[c]]]
  /\ requests' = requests \cup {[client |-> c, n |-> n, op |-> op, seen |-> view[c]]}

\* A point: shown at once, at the revision it was predicted from.  An operator
\* who sees the point on the board does not tap it again.
PressPoint(c, p) ==
  /\ Owner[p] = c
  /\ \A i \in DOMAIN view[c].board : view[c].board[i] # p
  /\ Send(c, "tap", p)
  /\ Show(c, State(view[c].rev, Append(view[c].board, p)))
  /\ used' = [used EXCEPT !.sent[c] = @ + 1]
  /\ UNCHANGED <<server, answers, held, sockets>>

\* A reset has no optimistic prediction.
PressReset(c) ==
  /\ used.resets < MaxResets
  /\ Send(c, "reset", "reset")
  /\ used' = [used EXCEPT !.sent[c] = @ + 1, !.resets = @ + 1]
  /\ UNCHANGED <<server, answers, screens, sockets>>

\* Mutant: a failed tap stays on the screen.
KeepPrediction(c) == UNCHANGED screens

\* Only an optimistic write has to be taken back.
RollBack(c) ==
  /\ IF pending[c].kind = "tap" THEN Show(c, pending[c].snap) ELSE UNCHANGED view
  /\ UNCHANGED held

Answered(c, status) ==
  \E a \in answers : /\ a.client = c /\ a.status = status
                     /\ answers' = answers \ {a}

\* The awaited response arrives: the state after the action, or the latest one.
ReceiveState(c) ==
  \E a \in answers :
    /\ a.client = c /\ a.status = "ok"
    /\ answers' = answers \ {a}
    /\ Confirm(c, a.state)
    /\ pending' = [pending EXCEPT ![c] = NoAction]
    /\ UNCHANGED <<server, requests, sockets, used>>

\* 409: take the prediction back, then GET /state.
ReceiveConflict(c) ==
  /\ Answered(c, "conflict")
  /\ RollBack(c)
  /\ pending' = [pending EXCEPT ![c].kind = "fetch"]
  /\ UNCHANGED <<server, requests, sockets, used>>

\* 404: there is no session.
ReceiveMissing(c) ==
  /\ Answered(c, "missing")
  /\ RollBack(c)
  /\ pending' = [pending EXCEPT ![c] = NoAction]
  /\ UNCHANGED <<server, requests, sockets, used>>

\* The connection of the request breaks, and its response with it.
Fail(c) ==
  /\ pending[c] # NoAction
  /\ RollBack(c)
  /\ pending' = [pending EXCEPT ![c] = NoAction]
  /\ answers' = {a \in answers : a.client # c}
  /\ UNCHANGED <<server, requests, sockets, used>>

\* A push: the handshake's snapshot, or a broadcast.
Deliver(c) ==
  /\ wire[c] # <<>>
  /\ Confirm(c, Head(wire[c]))
  /\ wire' = [wire EXCEPT ![c] = Tail(@)]
  /\ UNCHANGED <<server, requests, answers, pending, sock, used>>

-----------------------------------------------------------------------------
\* The server.

Free == mem.live /\ job = Idle
Taken(q) == q \in requests /\ requests' = requests \ {q}

\* A tab that gave up on a request has closed its connection.
Answer(c, n, status, s) ==
  answers' = IF pending[c].n # n THEN answers
             ELSE answers \cup {[client |-> c, status |-> status, state |-> s]}

\* get_session: 404 when the board has no session.
NotFound(q) ==
  /\ Taken(q) /\ ~mem.live
  /\ Answer(q.client, q.n, "missing", NoState)
  /\ UNCHANGED <<server, pending, screens, sockets, used>>

\* Mutant: only a revision from the future is refused.
NotAhead(q) == q.seen.rev <= mem.rev

\* get_mutation_session, once it holds the lock: another revision is a 409.
Current(q) == q.seen.rev = mem.rev

Conflict(q) ==
  /\ Taken(q) /\ Free /\ ~Current(q)
  /\ Answer(q.client, q.n, "conflict", NoState)
  /\ UNCHANGED <<server, pending, screens, sockets, used>>

\* add_point: the board in memory, then the audit record, which is durable.
AcceptTap(q) ==
  /\ Taken(q) /\ Free /\ Current(q) /\ q.op \in Taps
  /\ mem' = [mem EXCEPT !.board = Append(@, q.op)]
  /\ disk' = [disk EXCEPT !.log = Append(@, q.op)]
  /\ job' = [stage |-> "logged", req |-> q]
  /\ UNCHANGED <<answers, pending, screens, sockets, used>>

\* Mutant: the log is emptied first and the blank board saved at the end.
ResetLogFirst(q) ==
  /\ Taken(q) /\ Free /\ Current(q) /\ q.op = "reset"
  /\ mem' = [mem EXCEPT !.board = <<>>]
  /\ disk' = [disk EXCEPT !.log = <<>>]
  /\ job' = [stage |-> "blanked", req |-> q]
  /\ UNCHANGED <<answers, pending, screens, sockets, used>>

\* reset: GameManager.reset saves the blank board before the log is cleared.
AcceptReset(q) ==
  /\ Taken(q) /\ Free /\ Current(q) /\ q.op = "reset"
  /\ mem' = [mem EXCEPT !.board = <<>>]
  /\ disk' = [disk EXCEPT !.board = <<>>]
  /\ job' = [stage |-> "blanked", req |-> q]
  /\ UNCHANGED <<answers, pending, screens, sockets, used>>

ClearLog ==
  /\ job.stage = "blanked"
  /\ disk' = [disk EXCEPT !.log = <<>>]
  /\ job' = [job EXCEPT !.stage = "logged"]
  /\ UNCHANGED <<mem, requests, answers, pending, screens, sockets, used>>

\* Mutant: the new revision is not persisted when it is given out.
RefreshInMemory ==
  LET now == Digest(mem.board, disk.log)
      changed == mem.fp # Null /\ mem.fp # now
  IN  /\ mem' = [mem EXCEPT !.rev = IF changed THEN @ + 1 ELSE @, !.fp = now]
      /\ UNCHANGED disk

\* get_state -> _apply_state_revision.  The first digest of a session that was
\* restored without one is adopted as it is, and not persisted.
Refresh ==
  LET now == Digest(mem.board, disk.log)
      adopt == mem.fp = Null
      changed == ~adopt /\ mem.fp # now
      rev == IF changed THEN mem.rev + 1 ELSE mem.rev
  IN  /\ mem' = [mem EXCEPT !.rev = rev, !.fp = now]
      /\ disk' = IF changed THEN [disk EXCEPT !.rev = rev, !.fp = now] ELSE disk

Present ==
  /\ job.stage = "logged"
  /\ Refresh
  /\ job' = [job EXCEPT !.stage = "presented"]
  /\ UNCHANGED <<requests, answers, pending, screens, sockets, used>>

\* save_and_broadcast writes the board, and then the meta.
SaveBoard ==
  /\ job.stage = "presented"
  /\ disk' = [disk EXCEPT !.board = mem.board]
  /\ job' = [job EXCEPT !.stage = "saved"]
  /\ UNCHANGED <<mem, requests, answers, pending, screens, sockets, used>>

Registered == {c \in Clients : sock[c] \in {"joined", "open"}}
Now == State(mem.rev, mem.board)

\* Mutant: nobody is told.
FinishSilently ==
  /\ job.stage = "saved"
  /\ disk' = [disk EXCEPT !.rev = mem.rev, !.fp = mem.fp]
  /\ Answer(job.req.client, job.req.n, "ok", Now)
  /\ job' = Idle
  /\ UNCHANGED <<mem, requests, pending, screens, sockets, used>>

\* persist_meta, the push to every registered socket, the response.
Finish ==
  /\ job.stage = "saved"
  /\ disk' = [disk EXCEPT !.rev = mem.rev, !.fp = mem.fp]
  /\ wire' = [c \in Clients |-> IF c \in Registered THEN Append(wire[c], Now) ELSE wire[c]]
  /\ Answer(job.req.client, job.req.n, "ok", Now)
  /\ job' = Idle
  /\ UNCHANGED <<mem, requests, pending, screens, sock, used>>

\* GET /state after a 409: get_state_snapshot waits for the lock.
Fetch(c) ==
  /\ Free /\ pending[c].kind = "fetch"
  /\ \A a \in answers : a.client # c
  /\ Refresh
  /\ Answer(c, pending[c].n, "ok", State(mem'.rev, mem.board))
  /\ UNCHANGED <<job, requests, pending, screens, sockets, used>>

\* Mutant: the revision is restored and its fingerprint is not.
LoadRevisionOnly ==
  /\ ~mem.live
  /\ mem' = [live |-> TRUE, board |-> disk.board, rev |-> disk.rev, fp |-> Null]
  /\ UNCHANGED <<disk, job, requests, answers, pending, screens, sockets, used>>

\* POST /session/init creates the session from the files and persists its meta
\* as it read it; its own get_state_snapshot comes later, under the lock.
Load ==
  /\ ~mem.live
  /\ mem' = [live |-> TRUE, board |-> disk.board, rev |-> disk.rev, fp |-> disk.fp]
  /\ UNCHANGED <<disk, job, requests, answers, pending, screens, sockets, used>>

InitSnapshot ==
  /\ Free /\ Refresh /\ mem' # mem
  /\ UNCHANGED <<job, requests, answers, pending, screens, sockets, used>>

-----------------------------------------------------------------------------
\* Sockets, and what goes wrong.

\* WSHub.connect registers the socket before the handshake takes its snapshot,
\* so a push may be sent ahead of it.  The tab drops its old socket first.
Connect(c) ==
  /\ mem.live /\ sock[c] = "closed"
  /\ sock' = [sock EXCEPT ![c] = "joined"]
  /\ UNCHANGED <<server, requests, answers, pending, screens, wire, used>>

Handshake(c) ==
  /\ Free /\ sock[c] = "joined"
  /\ Refresh
  /\ wire' = [wire EXCEPT ![c] = Append(@, State(mem'.rev, mem.board))]
  /\ sock' = [sock EXCEPT ![c] = "open"]
  /\ UNCHANGED <<job, requests, answers, pending, screens, used>>

Disconnect(c) ==
  /\ sock[c] # "closed"
  /\ sock' = [sock EXCEPT ![c] = "closed"]
  /\ wire' = [wire EXCEPT ![c] = <<>>]
  /\ UNCHANGED <<server, requests, answers, pending, screens, used>>

\* A push times out: _broadcast_text drops the socket from the hub and leaves
\* it open, so that the tab sees no reason to reconnect.
Evict(c) ==
  /\ used.evictions < MaxEvictions
  /\ sock[c] = "open" /\ wire[c] # <<>>
  /\ sock' = [sock EXCEPT ![c] = "deaf"]
  /\ wire' = [wire EXCEPT ![c] = SubSeq(@, 1, Len(@) - 1)]
  /\ used' = [used EXCEPT !.evictions = @ + 1]
  /\ UNCHANGED <<server, requests, answers, pending, screens>>

\* The process stops: every socket and every response goes with it.  A request
\* it had not read yet may reach the next process.
Crash ==
  /\ mem.live /\ used.crashes < MaxCrashes
  /\ mem' = [mem EXCEPT !.live = FALSE, !.board = <<>>, !.rev = 0, !.fp = Null]
  /\ job' = Idle
  /\ answers' = {}
  /\ sock' = [c \in Clients |-> "closed"]
  /\ wire' = [c \in Clients |-> <<>>]
  /\ used' = [used EXCEPT !.crashes = @ + 1]
  /\ UNCHANGED <<disk, requests, pending, screens>>

\* Mutant: a session expires under its own mutation.
ExpireBusy ==
  /\ mem.live /\ requests = {} /\ used.crashes < MaxCrashes
  /\ mem' = [mem EXCEPT !.live = FALSE, !.board = <<>>, !.rev = 0, !.fp = Null]
  /\ used' = [used EXCEPT !.crashes = @ + 1]
  /\ UNCHANGED <<disk, job, requests, answers, pending, screens, sockets>>

\* cleanup_expired: an idle session leaves memory; its sockets stay.
Expire ==
  /\ Free /\ requests = {} /\ used.crashes < MaxCrashes
  /\ mem' = [mem EXCEPT !.live = FALSE, !.board = <<>>, !.rev = 0, !.fp = Null]
  /\ used' = [used EXCEPT !.crashes = @ + 1]
  /\ UNCHANGED <<disk, job, requests, answers, pending, screens, sockets>>

-----------------------------------------------------------------------------
Receive(c) == ReceiveState(c) \/ ReceiveConflict(c) \/ ReceiveMissing(c)

Work == ClearLog \/ Present \/ SaveBoard \/ Finish

Serve(q) == NotFound(q) \/ Conflict(q) \/ AcceptTap(q) \/ AcceptReset(q)

Next ==
  \/ \E c \in Clients : \E p \in Taps : PressPoint(c, p)
  \/ \E c \in Clients : PressReset(c) \/ Receive(c) \/ Fail(c)
  \/ \E c \in Clients : Deliver(c) \/ Fetch(c)
  \/ \E c \in Clients : Connect(c) \/ Handshake(c) \/ Disconnect(c) \/ Evict(c)
  \/ \E q \in requests : Serve(q)
  \/ Work
  \/ Load \/ InitSnapshot \/ Crash \/ Expire

Spec == Init /\ [][Next]_vars

\* The server's worker finishes what it started; a board is opened again after
\* a restart; tabs reconnect with a backoff; asyncio.Lock is first come, first
\* served; and a request is either answered or seen to fail.
Lost(c) ==
  /\ \A q \in requests : ~(q.client = c /\ q.n = pending[c].n)
  /\ job # Idle => ~(job.req.client = c /\ job.req.n = pending[c].n)
  /\ \A a \in answers : a.client # c
  /\ pending[c].kind # "fetch"

Fairness ==
  /\ WF_vars(Work) /\ WF_vars(Load)
  /\ \A c \in Clients :
       /\ WF_vars(Connect(c)) /\ SF_vars(Handshake(c)) /\ SF_vars(Deliver(c))
       /\ WF_vars(Receive(c) \/ (Lost(c) /\ Fail(c)))
       /\ SF_vars(Fetch(c) \/ \E q \in requests : q.client = c /\ Serve(q))

FairSpec == Spec /\ Fairness

-----------------------------------------------------------------------------
Times(p, b) == Cardinality({i \in DOMAIN b : b[i] = p})

\* A gesture counts once, however often its response was lost and the operator
\* tried again, and whenever the process restarted in between: the docstring of
\* _restore_revision says what it takes.
AtMostOnce == \A p \in Taps : Times(p, mem.board) <= 1 /\ Times(p, disk.board) <= 1

\* A revision names one board: two screens that hold the same revision show the
\* same points, and so does the server once it has presented what it holds.
RevisionNamesOneBoard ==
  \A c \in Clients :
    /\ \A d \in Clients : held[c].rev = held[d].rev => held[c] = held[d]
    /\ Free /\ mem.fp = Digest(mem.board, disk.log) /\ held[c].rev = mem.rev
         => held[c].board = mem.board

\* No screen holds a revision a restart could take back: applyState would then
\* discard every snapshot of the new process.
RestartNeverFallsBehind == \A c \in Clients : held[c].rev <= disk.rev

\* What a screen shows between two actions is what the server confirmed: no
\* prediction outlives the request it was made for.
PredictionsSettle ==
  \A c \in Clients : pending[c] = NoAction => view[c] = held[c]

\* A point on the saved board has its audit record, so that undo can find it
\* after a restart.
SavedPointsAreLogged ==
  \A p \in Taps : Times(p, disk.board) <= Times(p, disk.log)

\* A mutation is applied to the board its operator was looking at
\* (X-Expected-State-Revision).
MutationsLandWhereAimed ==
  [][job = Idle /\ job' # Idle => mem.board = job'.req.seen.board]_vars

\* Every screen comes to show the server's board again and again, whatever was
\* lost, except one whose socket the hub dropped without closing it.
ScreensCatchUp ==
  \A c \in Clients : []<>(sock[c] = "deaf" \/ (Free /\ view[c] = Now))
=============================================================================
