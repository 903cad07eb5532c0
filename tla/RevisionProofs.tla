--------------------------- MODULE RevisionProofs ---------------------------
(***************************************************************************)
(* What holds of the revisions of a board for any number of tabs, taps,    *)
(* resets, restarts and evictions, and of the presses on its buttons for   *)
(* any number of buttons and presses.                                      *)
(***************************************************************************)
EXTENDS RevisionProtocol, BoardControls, FiniteSetTheorems, SequenceTheorems, TLAPS

Boards == Seq(Taps)
Fingerprints == {Null} \cup {Digest(b, log) : b \in Boards, log \in Boards}
States == [rev : Int, board : Boards]

\* The parts of the types that the proofs need.
Shape ==
  /\ disk \in [board : Boards, log : Boards, rev : Nat, fp : Fingerprints]
  /\ mem \in [live : BOOLEAN, board : Boards, rev : Nat, fp : Fingerprints]
  /\ held \in [Clients -> States]
  /\ wire \in [Clients -> Seq(States)]
  /\ \A a \in answers : a.state \in States

\* A revision is on file before anything shows it.
OnFile(s) == s.rev <= disk.rev

RevisionInv ==
  /\ Shape
  /\ mem.live => mem.rev = disk.rev
  /\ job.stage # "none" => mem.live
  /\ \A a \in answers : OnFile(a.state)
  /\ \A c \in Clients : OnFile(held[c])
  /\ \A c \in Clients : \A i \in DOMAIN wire[c] : OnFile(wire[c][i])

LEMMA InitRevision == Init => RevisionInv
<1> SUFFICES ASSUME Init PROVE RevisionInv
  OBVIOUS
<1>0. <<>> \in Boards
  BY DEF Boards
<1>1. <<>> \in Boards /\ Digest(<<>>, <<>>) \in Fingerprints /\ Null \in Fingerprints
  BY <1>0 DEF Fingerprints
<1>2. NoState \in States /\ NoState.rev = -1
  BY <1>1 DEF NoState, State, States
<1>3. Shape
  BY <1>1, <1>2 DEF Init, Shape
<1> QED
  BY <1>2, <1>3 DEF Init, RevisionInv, OnFile, Idle

LEMMA NoStateShape == NoState \in States /\ NoState.rev = -1
BY DEF NoState, State, States, Boards

LEMMA AnswerShape ==
  ASSUME Shape, NEW c, NEW n, NEW status, NEW s \in States, Answer(c, n, status, s)
  PROVE  \A a \in answers' : a.state \in States /\ (a \in answers \/ a.state = s)
BY DEF Answer, Shape

\* The tab's own actions show it what it was sent, or nothing new.
LEMMA TabStep ==
  ASSUME RevisionInv, NEW c \in Clients,
         \/ \E p \in Taps : PressPoint(c, p)
         \/ PressReset(c) \/ Receive(c) \/ Fail(c) \/ Deliver(c)
  PROVE  RevisionInv'
<1> USE DEF server, screens, sockets
<1>1. ASSUME UNCHANGED <<disk, mem, job, held, wire>>, answers' \subseteq answers
      PROVE  RevisionInv'
  BY <1>1 DEF RevisionInv, Shape, OnFile
<1>2. ASSUME NEW s \in States, OnFile(s), Confirm(c, s), UNCHANGED <<disk, mem, job>>,
             answers' \subseteq answers, wire' \in [Clients -> Seq(States)],
             \A d \in Clients : \A i \in DOMAIN wire'[d] : OnFile(wire'[d][i])
      PROVE  RevisionInv'
  <2>1. held' \in [Clients -> States] /\ \A d \in Clients : held'[d] \in {held[d], s}
    BY <1>2 DEF Confirm, RevisionInv, Shape
  <2> QED
    BY <1>2, <2>1 DEF RevisionInv, Shape, OnFile
<1>3. CASE \E p \in Taps : PressPoint(c, p)
  BY <1>1, <1>3 DEF PressPoint
<1>4. CASE PressReset(c)
  BY <1>1, <1>4 DEF PressReset
<1>5. CASE ReceiveState(c)
  <2>1. PICK a \in answers : Confirm(c, a.state) /\ answers' = answers \ {a}
    BY <1>5 DEF ReceiveState
  <2> QED
    BY <1>2, <1>5, <2>1 DEF ReceiveState, RevisionInv, Shape
<1>6. CASE ReceiveConflict(c) \/ ReceiveMissing(c) \/ Fail(c)
  BY <1>1, <1>6 DEF ReceiveConflict, ReceiveMissing, Fail, Answered, RollBack
<1>7. CASE Deliver(c)
  <2>1. wire[c] \in Seq(States) /\ wire[c] # <<>>
    BY <1>7 DEF Deliver, RevisionInv, Shape
  <2>2. /\ Head(wire[c]) = wire[c][1] /\ 1 \in DOMAIN wire[c] /\ Head(wire[c]) \in States
        /\ Tail(wire[c]) \in Seq(States)
        /\ \A i \in DOMAIN Tail(wire[c]) :
              i + 1 \in DOMAIN wire[c] /\ Tail(wire[c])[i] = wire[c][i + 1]
    BY <2>1
  <2>3. OnFile(Head(wire[c]))
    BY <2>2 DEF RevisionInv
  <2>4. wire' = [wire EXCEPT ![c] = Tail(wire[c])]
    BY <1>7 DEF Deliver
  <2>5. wire'[c] = Tail(wire[c]) /\ \A d \in Clients \ {c} : wire'[d] = wire[d]
    BY <2>4 DEF RevisionInv, Shape
  <2>6. wire' \in [Clients -> Seq(States)]
    BY <2>2, <2>4 DEF RevisionInv, Shape
  <2>7. \A d \in Clients : \A i \in DOMAIN wire'[d] : OnFile(wire'[d][i])
    <3>1. \A i \in DOMAIN wire'[c] : OnFile(wire'[c][i])
      BY <2>2, <2>5 DEF RevisionInv
    <3>2. \A d \in Clients \ {c} : \A i \in DOMAIN wire'[d] : OnFile(wire'[d][i])
      BY <2>5 DEF RevisionInv
    <3> QED
      BY <3>1, <3>2
  <2> QED
    BY <1>2, <1>7, <2>2, <2>3, <2>6, <2>7 DEF Deliver
<1> QED
  BY <1>3, <1>4, <1>5, <1>6, <1>7 DEF Receive

-----------------------------------------------------------------------------
\* Giving out a revision puts it on file in the same step.

LEMMA RefreshStep ==
  ASSUME RevisionInv, mem.live, Refresh
  PROVE  /\ mem' \in [live : BOOLEAN, board : Boards, rev : Nat, fp : Fingerprints]
         /\ disk' \in [board : Boards, log : Boards, rev : Nat, fp : Fingerprints]
         /\ mem'.live /\ mem'.board = mem.board
         /\ mem'.rev = disk'.rev /\ disk'.rev >= disk.rev
<1> DEFINE now == Digest(mem.board, disk.log)
           rev == IF mem.fp # Null /\ mem.fp # now THEN mem.rev + 1 ELSE mem.rev
<1>1. now \in Fingerprints
  BY DEF RevisionInv, Shape, Fingerprints
<1>2. rev \in Nat /\ rev >= disk.rev /\ mem.rev = disk.rev
  BY DEF RevisionInv, Shape
<1>3. mem' = [mem EXCEPT !.rev = rev, !.fp = now]
  BY DEF Refresh
<1>4. disk' = IF mem.fp # Null /\ mem.fp # now THEN [disk EXCEPT !.rev = rev, !.fp = now]
              ELSE disk
  BY DEF Refresh
<1>5. rev = mem.rev \/ (mem.fp # Null /\ mem.fp # now)
  OBVIOUS
<1> HIDE DEF now
<1>6. mem' \in [live : BOOLEAN, board : Boards, rev : Nat, fp : Fingerprints]
  BY <1>1, <1>2, <1>3 DEF RevisionInv, Shape
<1>7. disk' \in [board : Boards, log : Boards, rev : Nat, fp : Fingerprints]
  BY <1>1, <1>2, <1>4 DEF RevisionInv, Shape
<1>8. mem'.live /\ mem'.board = mem.board /\ mem'.rev = rev
  BY <1>3 DEF RevisionInv, Shape
<1>9. disk'.rev = rev
  BY <1>2, <1>4, <1>5 DEF RevisionInv, Shape
<1> QED
  BY <1>2, <1>6, <1>7, <1>8, <1>9

\* What is on file stays on file as the revision on file grows.
LEMMA StaysOnFile ==
  ASSUME RevisionInv, Shape', disk'.rev >= disk.rev,
         mem'.live => mem'.rev = disk'.rev, job'.stage # "none" => mem'.live,
         held' = held,
         \A a \in answers' : a \in answers \/ a.state.rev <= disk'.rev,
         \A c \in Clients : \A i \in DOMAIN wire'[c] :
            \/ i \in DOMAIN wire[c] /\ wire'[c][i] = wire[c][i]
            \/ wire'[c][i].rev <= disk'.rev
  PROVE  RevisionInv'
<1>1. \A s \in States : OnFile(s) => s.rev <= disk'.rev
  BY DEF OnFile, RevisionInv, Shape, States
<1>2. \A a \in answers' : a.state.rev <= disk'.rev
  BY <1>1 DEF RevisionInv, Shape
<1>3. \A c \in Clients : held'[c].rev <= disk'.rev
  BY <1>1 DEF RevisionInv, Shape
<1>4. ASSUME NEW c \in Clients, NEW i \in DOMAIN wire'[c]
      PROVE  wire'[c][i].rev <= disk'.rev
  <2>1. CASE i \in DOMAIN wire[c] /\ wire'[c][i] = wire[c][i]
    <3>1. wire[c] \in Seq(States)
      BY DEF RevisionInv, Shape
    <3>2. wire[c][i] \in States
      BY <2>1, <3>1, ElementOfSeq
    <3> QED
      BY <1>1, <2>1, <3>2 DEF RevisionInv
  <2> QED
    BY <1>4, <2>1
<1> QED
  BY <1>2, <1>3, <1>4 DEF RevisionInv, OnFile

-----------------------------------------------------------------------------
\* The server, while it works on a mutation.

LEMMA BlankBoard == <<>> \in Boards
BY DEF Boards

LEMMA LogShape ==
  ASSUME NEW b \in Boards, NEW p \in Taps
  PROVE  Append(b, p) \in Boards
BY DEF Boards

LEMMA ServeStep ==
  ASSUME RevisionInv, NEW q \in requests, Serve(q)
  PROVE  RevisionInv'
<1> USE DEF server, screens, sockets
<1>1. CASE NotFound(q) \/ Conflict(q)
  <2>1. \A a \in answers' : a.state \in States /\ (a \in answers \/ a.state = NoState)
    BY <1>1, NoStateShape, AnswerShape DEF NotFound, Conflict, RevisionInv
  <2>2. Shape' /\ disk' = disk /\ mem' = mem /\ job' = job /\ held' = held /\ wire' = wire
    BY <1>1, <2>1 DEF NotFound, Conflict, RevisionInv, Shape
  <2> QED
    BY <2>1, <2>2, NoStateShape, StaysOnFile DEF RevisionInv, Shape
<1>2. CASE AcceptTap(q) \/ AcceptReset(q)
  <2>1. /\ disk' \in [board : Boards, log : Boards, rev : Nat, fp : Fingerprints]
        /\ disk'.rev = disk.rev
    <3>1. CASE AcceptTap(q)
      BY <3>1, LogShape DEF AcceptTap, RevisionInv, Shape
    <3>2. CASE AcceptReset(q)
      BY <3>2, BlankBoard DEF AcceptReset, RevisionInv, Shape
    <3> QED
      BY <1>2, <3>1, <3>2
  <2>2. /\ mem' \in [live : BOOLEAN, board : Boards, rev : Nat, fp : Fingerprints]
        /\ mem'.live = mem.live /\ mem'.rev = mem.rev /\ mem.live
    <3>1. CASE AcceptTap(q)
      BY <3>1, LogShape DEF AcceptTap, Free, RevisionInv, Shape
    <3>2. CASE AcceptReset(q)
      BY <3>2, BlankBoard DEF AcceptReset, Free, RevisionInv, Shape
    <3> QED
      BY <1>2, <3>1, <3>2
  <2>3. held' = held /\ wire' = wire /\ answers' = answers
    BY <1>2 DEF AcceptTap, AcceptReset
  <2>4. Shape'
    BY <2>1, <2>2, <2>3 DEF RevisionInv, Shape
  <2> QED
    BY <2>1, <2>2, <2>3, <2>4, StaysOnFile DEF RevisionInv, Shape
<1> QED
  BY <1>1, <1>2 DEF Serve

LEMMA NowIsOnFile ==
  ASSUME RevisionInv, mem.live
  PROVE  Now \in States /\ Now.rev = disk.rev
BY DEF Now, State, States, RevisionInv, Shape

LEMMA WorkStep ==
  ASSUME RevisionInv, Work
  PROVE  RevisionInv'
<1> USE DEF server, screens, sockets
<1>1. mem.live
  BY DEF Work, ClearLog, Present, SaveBoard, Finish, RevisionInv
<1>2. CASE ClearLog \/ SaveBoard
  <2>1. /\ disk' \in [board : Boards, log : Boards, rev : Nat, fp : Fingerprints]
        /\ disk'.rev = disk.rev
    BY <1>2, BlankBoard DEF ClearLog, SaveBoard, RevisionInv, Shape
  <2>2. mem' = mem /\ held' = held /\ wire' = wire /\ answers' = answers
    BY <1>2 DEF ClearLog, SaveBoard
  <2>3. Shape'
    BY <2>1, <2>2 DEF RevisionInv, Shape
  <2> QED
    BY <1>1, <2>1, <2>2, <2>3, StaysOnFile DEF RevisionInv, Shape
<1>3. CASE Present
  <2>1. held' = held /\ wire' = wire /\ answers' = answers /\ Refresh
    BY <1>3 DEF Present
  <2>2. Shape'
    BY <1>1, <2>1, RefreshStep DEF RevisionInv, Shape
  <2> QED
    BY <1>1, <2>1, <2>2, RefreshStep, StaysOnFile
<1>4. CASE Finish
  <2>1. /\ disk' \in [board : Boards, log : Boards, rev : Nat, fp : Fingerprints]
        /\ disk'.rev = disk.rev /\ mem' = mem /\ held' = held
    BY <1>1, <1>4 DEF Finish, RevisionInv, Shape
  <2>2. Now \in States /\ Now.rev = disk'.rev
    BY <1>1, <2>1, NowIsOnFile
  <2>3. \A a \in answers' : a.state \in States /\ (a \in answers \/ a.state = Now)
    BY <1>4, <2>2, AnswerShape DEF Finish, RevisionInv
  <2>4. \A c \in Clients : /\ wire[c] \in Seq(States)
                           /\ wire'[c] \in {wire[c], Append(wire[c], Now)}
    BY <1>4 DEF Finish, RevisionInv, Shape
  <2>5. wire' \in [Clients -> Seq(States)]
    BY <1>4, <2>2, <2>4 DEF Finish
  <2>6. Shape'
    BY <2>1, <2>3, <2>5 DEF RevisionInv, Shape
  <2>7. ASSUME NEW c \in Clients, NEW i \in DOMAIN wire'[c]
        PROVE  (i \in DOMAIN wire[c] /\ wire'[c][i] = wire[c][i]) \/ wire'[c][i] = Now
    BY SMTT(30), <2>2, <2>4, <2>7
  <2> QED
    BY <1>1, <2>1, <2>2, <2>3, <2>6, <2>7, StaysOnFile DEF RevisionInv
<1> QED
  BY <1>2, <1>3, <1>4 DEF Work

-----------------------------------------------------------------------------
\* The session, and the sockets.

LEMMA SnapshotStep ==
  ASSUME RevisionInv, NEW c \in Clients, Fetch(c) \/ Handshake(c)
  PROVE  RevisionInv'
<1> USE DEF server, screens, sockets
<1> DEFINE new == State(mem'.rev, mem.board)
<1>1. mem.live /\ Refresh /\ held' = held
  BY DEF Fetch, Handshake, Free
<1>2. new \in States /\ new.rev = disk'.rev
  <2>1. mem'.rev \in Nat /\ mem.board \in Boards /\ mem'.rev = disk'.rev
    BY <1>1, RefreshStep DEF RevisionInv, Shape
  <2> QED
    BY <2>1 DEF State, States
<1>3. CASE Fetch(c)
  <2>1. wire' = wire /\ Answer(c, pending[c].n, "ok", new)
    BY <1>3 DEF Fetch
  <2> HIDE DEF new
  <2>2. \A a \in answers' : a.state \in States /\ (a \in answers \/ a.state = new)
    BY <1>2, <2>1, AnswerShape DEF RevisionInv
  <2>3. Shape'
    BY <1>1, <2>1, <2>2, RefreshStep DEF RevisionInv, Shape
  <2> QED
    BY <1>1, <1>2, <2>1, <2>2, <2>3, RefreshStep, StaysOnFile
<1>4. CASE Handshake(c)
  <2>1. wire' = [wire EXCEPT ![c] = Append(@, new)] /\ answers' = answers
    BY <1>4 DEF Handshake
  <2> HIDE DEF new
  <2>2. wire[c] \in Seq(States) /\ wire' \in [Clients -> Seq(States)]
    BY <1>2, <2>1 DEF RevisionInv, Shape
  <2>3. wire'[c] = Append(wire[c], new) /\ \A d \in Clients \ {c} : wire'[d] = wire[d]
    BY <2>1 DEF RevisionInv, Shape
  <2>4. Shape'
    BY <1>1, <2>1, <2>2, RefreshStep DEF RevisionInv, Shape
  <2>5. \A i \in DOMAIN wire'[c] :
           (i \in DOMAIN wire[c] /\ wire'[c][i] = wire[c][i]) \/ wire'[c][i] = new
    BY <1>2, <2>2, <2>3
  <2> QED
    BY <1>1, <1>2, <2>1, <2>3, <2>4, <2>5, RefreshStep, StaysOnFile
<1> QED
  BY <1>3, <1>4

LEMMA SessionStep ==
  ASSUME RevisionInv, Load \/ InitSnapshot \/ Crash \/ Expire
  PROVE  RevisionInv'
<1> USE DEF server, screens, sockets
<1>1. CASE Load
  <2>1. disk' = disk /\ held' = held /\ wire' = wire /\ answers' = answers /\ job' = job
    BY <1>1 DEF Load
  <2>2. /\ mem' \in [live : BOOLEAN, board : Boards, rev : Nat, fp : Fingerprints]
        /\ mem'.rev = disk.rev /\ mem'.live
    BY <1>1 DEF Load, RevisionInv, Shape
  <2>3. Shape'
    BY <2>1, <2>2 DEF RevisionInv, Shape
  <2> QED
    BY <2>1, <2>2, <2>3, StaysOnFile DEF RevisionInv, Shape
<1>2. CASE InitSnapshot
  <2>1. mem.live /\ Refresh /\ UNCHANGED <<held, wire, answers>>
    BY <1>2 DEF InitSnapshot, Free
  <2>2. Shape'
    BY <2>1, RefreshStep DEF RevisionInv, Shape
  <2> QED
    BY <2>1, <2>2, RefreshStep, StaysOnFile
<1>3. CASE Crash \/ Expire
  <2>1. disk' = disk /\ held' = held /\ answers' \subseteq answers /\ job' = Idle
    BY <1>3 DEF Crash, Expire, Free
  <2>2. mem' = [mem EXCEPT !.live = FALSE, !.board = <<>>, !.rev = 0, !.fp = Null]
    BY <1>3 DEF Crash, Expire
  <2>3. <<>> \in Boards /\ Null \in Fingerprints
    BY DEF Boards, Fingerprints
  <2>4. /\ mem' \in [live : BOOLEAN, board : Boards, rev : Nat, fp : Fingerprints]
        /\ ~mem'.live
    BY <2>2, <2>3 DEF RevisionInv, Shape
  <2>5. wire' \in [Clients -> Seq(States)] /\ \A c \in Clients : wire'[c] \in {<<>>, wire[c]}
    <3>1. CASE wire' = [c \in Clients |-> <<>>]
      BY <3>1
    <3>2. CASE wire' = wire
      BY <3>2 DEF RevisionInv, Shape
    <3> QED
      BY <1>3, <3>1, <3>2 DEF Crash, Expire
  <2>6. Shape'
    BY <2>1, <2>4, <2>5 DEF RevisionInv, Shape
  <2>7. \A c \in Clients : \A i \in DOMAIN wire'[c] :
           i \in DOMAIN wire[c] /\ wire'[c][i] = wire[c][i]
    BY <2>5
  <2> QED
    BY <2>1, <2>4, <2>6, <2>7, StaysOnFile DEF RevisionInv, Shape, Idle
<1> QED
  BY <1>1, <1>2, <1>3

LEMMA SocketStep ==
  ASSUME RevisionInv, NEW c \in Clients, Connect(c) \/ Disconnect(c) \/ Evict(c)
  PROVE  RevisionInv'
<1> USE DEF server, screens, sockets
<1>1. UNCHANGED <<disk, mem, job, held, answers>>
  BY DEF Connect, Disconnect, Evict
<1>2. wire[c] \in Seq(States)
  BY DEF RevisionInv, Shape
<1>3. /\ wire' \in [Clients -> Seq(States)]
      /\ \A d \in Clients : \A i \in DOMAIN wire'[d] :
            i \in DOMAIN wire[d] /\ wire'[d][i] = wire[d][i]
  <2>1. CASE Connect(c)
    BY <2>1 DEF Connect, RevisionInv, Shape
  <2>2. CASE Disconnect(c)
    BY <2>2 DEF Disconnect, RevisionInv, Shape
  <2>3. CASE Evict(c)
    <3> DEFINE kept == SubSeq(wire[c], 1, Len(wire[c]) - 1)
    <3>1. wire' = [wire EXCEPT ![c] = kept] /\ wire[c] # <<>>
      BY <2>3 DEF Evict
    <3>2. /\ kept \in Seq(States)
          /\ \A i \in DOMAIN kept : i \in DOMAIN wire[c] /\ kept[i] = wire[c][i]
      BY <1>2, <3>1
    <3> HIDE DEF kept
    <3> QED
      BY <3>1, <3>2 DEF RevisionInv, Shape
  <2> QED
    BY <2>1, <2>2, <2>3
<1>4. Shape'
  BY <1>1, <1>3 DEF RevisionInv, Shape
<1> QED
  BY <1>1, <1>3, <1>4, StaysOnFile DEF RevisionInv, Shape

LEMMA StepRevision == RevisionInv /\ [Next]_vars => RevisionInv'
<1> SUFFICES ASSUME RevisionInv, [Next]_vars PROVE RevisionInv'
  OBVIOUS
<1>1. CASE UNCHANGED vars
  BY <1>1 DEF vars, RevisionInv, Shape, OnFile
<1> QED
  BY <1>1, TabStep, ServeStep, WorkStep, SnapshotStep, SessionStep, SocketStep DEF Next

\* However often the process restarts, and whichever write it stops between, no
\* tab holds a revision that the file has not: the new process hands out none
\* that applyState would discard as stale.
THEOREM RestartsKeepUp == Spec => []RestartNeverFallsBehind
<1>1. RevisionInv => RestartNeverFallsBehind
  BY DEF RevisionInv, OnFile, RestartNeverFallsBehind
<1> QED
  BY <1>1, InitRevision, StepRevision, PTL DEF Spec

-----------------------------------------------------------------------------
\* What a revision names.  Beyond Shape: the requests, the answers, and what a
\* tab shows and waits for.

Request == [client : Clients, n : Nat, op : Taps \cup {"reset"}, seen : States]
Reply == [client : Clients, status : {"ok", "conflict", "missing"}, state : States]
Action == [kind : {"none", "tap", "reset", "fetch"}, n : Nat, snap : States]
Job == {Idle} \cup [stage : {"blanked", "logged", "presented", "saved"}, req : Request]

Counters == [sent : [Clients -> Nat], resets : Nat, crashes : Nat, evictions : Nat]

TabShape ==
  /\ requests \subseteq Request /\ answers \subseteq Reply /\ job \in Job
  /\ pending \in [Clients -> Action] /\ view \in [Clients -> States]
  /\ used \in Counters

\* The states the server has given out, wherever one is kept.
Given ==
  {s \in States : \/ s = NoState
                  \/ \E c \in Clients : s = held[c] \/ s = pending[c].snap
                  \/ \E c \in Clients : \E i \in DOMAIN wire[c] : s = wire[c][i]
                  \/ \E a \in answers : s = a.state
                  \/ \E q \in requests : s = q.seen}

\* No revision is above rev, the one whose digest is fp, and each names one state.
Named(G, rev, fp) ==
  /\ \A s \in G : s.rev <= rev /\ (s.rev = rev => s.board = fp[1])
  /\ \A s, t \in G : s.rev = t.rev => s = t

NamesInv ==
  /\ disk.fp # Null
  /\ mem.live => mem.fp = disk.fp
  /\ job.stage \in {"presented", "saved"} => mem.fp = Digest(mem.board, disk.log)
  /\ Named(Given, disk.rev, disk.fp)

\* A tab shows what it holds, apart from the tap it waits for.
Settled(c) ==
  \/ view[c] = held[c]
  \/ /\ pending[c].kind = "tap"
     /\ held[c] = pending[c].snap /\ view[c].rev = held[c].rev

SettledInv ==
  \A c \in Clients :
    /\ Settled(c)
    /\ pending[c].kind # "none" => pending[c].snap.rev <= held[c].rev
    /\ pending[c].kind = "none" => pending[c] = NoAction

\* A request is on its way, or being worked on, or answered.
Underway(c, n) ==
  \/ \E q \in requests : q.client = c /\ q.n = n
  \/ job.stage # "none" /\ job.req.client = c /\ job.req.n = n

Awaited(c) == Underway(c, pending[c].n)

AskedInv ==
  /\ \A q \in requests :
       /\ q.n \in 1..used.sent[q.client]
       /\ job.stage # "none" => ~(job.req.client = q.client /\ job.req.n = q.n)
  /\ \A q, r \in requests : q.client = r.client /\ q.n = r.n => q = r
  /\ job.stage # "none" => job.req.n \in 1..used.sent[job.req.client]
  /\ \A c \in Clients : pending[c].kind = "fetch" => ~Awaited(c)
  /\ \A a \in answers :
       /\ pending[a.client].kind # "none"
       /\ ~Awaited(a.client)
       /\ a.status = "ok" => pending[a.client].snap.rev <= a.state.rev
  /\ \A a, b \in answers : a.client = b.client => a = b

TabInv == RevisionInv /\ TabShape /\ NamesInv /\ SettledInv /\ AskedInv

\* Without resets, the board a revision names is the one on file.
Fresh(q) == q.op \in Taps /\ \A i \in DOMAIN q.seen.board : q.seen.board[i] # q.op

LandedInv ==
  /\ job.stage # "blanked"
  /\ \A q \in requests : Fresh(q)
  /\ mem.live /\ job.stage \in {"none", "saved"} => mem.board = disk.board
  /\ \A s \in Given : s.rev = disk.rev => s.board = disk.board

Distinct(b) == \A i, j \in DOMAIN b : b[i] = b[j] => i = j
OnceInv == Distinct(mem.board) /\ Distinct(disk.board)

\* Every point of the two boards has its record, once a blanked log is gone.
LoggedInv ==
  /\ \A p \in Taps : /\ Times(p, disk.board) <= Times(p, disk.log)
                     /\ Times(p, mem.board) <= Times(p, disk.log)
  /\ job.stage = "blanked" => disk.board = <<>> /\ mem.board = <<>>

LEMMA InitTabShape == Init => TabShape
BY NoStateShape DEF Init, TabShape, Counters, NoAction, Action, Job

LEMMA InitTab == Fingerprinted = TRUE /\ Init => TabInv
<1> SUFFICES ASSUME Fingerprinted = TRUE, Init PROVE TabInv
  OBVIOUS
<1>1. NoState \in States /\ NoState.rev = -1 /\ NoState.board = <<>>
  BY NoStateShape DEF NoState, State
<1>2. TabShape
  BY InitTabShape
<1>3. Given \subseteq {NoState}
  BY DEF Init, Given, NoAction
<1>4. disk.rev = 0 /\ disk.fp # Null /\ ~mem.live /\ job.stage = "none"
  BY DEF Init, Digest, Null, Idle
<1>5. NamesInv
  BY <1>1, <1>3, <1>4 DEF NamesInv, Named
<1>6. SettledInv /\ AskedInv
  BY <1>1, <1>4 DEF Init, SettledInv, Settled, AskedInv, Underway, NoAction
<1> QED
  BY <1>2, <1>5, <1>6, InitRevision DEF TabInv

-----------------------------------------------------------------------------
\* The types of what a tab keeps.

LEMMA AnswerType ==
  ASSUME TabShape, NEW c \in Clients, NEW n, NEW status \in {"ok", "conflict", "missing"},
         NEW s \in States, Answer(c, n, status, s)
  PROVE  answers' \subseteq Reply
BY DEF Answer, TabShape, Reply

LEMMA ShowType ==
  ASSUME TabShape, NEW c \in Clients, NEW s \in States, Show(c, s)
  PROVE  view' \in [Clients -> States]
BY DEF Show, TabShape

LEMMA RollBackType ==
  ASSUME TabShape, NEW c \in Clients, RollBack(c)
  PROVE  view' \in [Clients -> States]
<1>1. pending[c].snap \in States
  BY DEF TabShape, Action
<1> QED
  BY <1>1, ShowType DEF RollBack, TabShape

LEMMA SendType ==
  ASSUME TabShape, NEW c \in Clients, NEW kind \in {"tap", "reset"},
         NEW op \in Taps \cup {"reset"}, Send(c, kind, op)
  PROVE  pending' \in [Clients -> Action] /\ requests' \subseteq Request
<1> DEFINE n == used.sent[c] + 1
<1>1. n \in Nat /\ view[c] \in States
  BY DEF TabShape, Counters
<1>2. /\ pending' = [pending EXCEPT ![c] = [kind |-> kind, n |-> n, snap |-> view[c]]]
      /\ requests' = requests \cup {[client |-> c, n |-> n, op |-> op, seen |-> view[c]]}
  BY DEF Send
<1> HIDE DEF n
<1>3. /\ [kind |-> kind, n |-> n, snap |-> view[c]] \in Action
      /\ [client |-> c, n |-> n, op |-> op, seen |-> view[c]] \in Request
  BY <1>1 DEF Action, Request
<1> QED
  BY <1>2, <1>3 DEF TabShape

LEMMA UsedSent ==
  ASSUME TabShape, NEW c \in Clients,
         \/ used' = [used EXCEPT !.sent[c] = @ + 1]
         \/ used' = [used EXCEPT !.sent[c] = @ + 1, !.resets = @ + 1]
  PROVE  /\ used' \in Counters
         /\ used'.sent = [used.sent EXCEPT ![c] = @ + 1]
<1> DEFINE sent == [used.sent EXCEPT ![c] = @ + 1]
<1>1. sent \in [Clients -> Nat]
  BY DEF TabShape, Counters
<1>2. \/ used' = [used EXCEPT !.sent = sent]
      \/ used' = [used EXCEPT !.sent = sent, !.resets = @ + 1]
  OBVIOUS
<1> HIDE DEF sent
<1>3. used' \in Counters /\ used'.sent = sent
  <2>1. used \in Counters
    BY DEF TabShape
  <2>2. CASE used' = [used EXCEPT !.sent = sent]
    BY <1>1, <2>1, <2>2 DEF Counters
  <2>3. CASE used' = [used EXCEPT !.sent = sent, !.resets = @ + 1]
    <3>1. /\ used.resets + 1 \in Nat
          /\ used' = [[used EXCEPT !.sent = sent] EXCEPT !.resets = used.resets + 1]
      BY <2>1, <2>3 DEF Counters
    <3>2. [used EXCEPT !.sent = sent] \in Counters /\ [used EXCEPT !.sent = sent].sent = sent
      BY <1>1, <2>1 DEF Counters
    <3> QED
      BY <3>1, <3>2 DEF Counters
  <2> QED
    BY <1>2, <2>2, <2>3
<1> QED
  BY <1>3 DEF sent

LEMMA NoActionType == NoAction \in Action /\ NoAction.n = 0 /\ NoAction.kind = "none"
BY NoStateShape DEF NoAction, Action

LEMMA TabShapeOfTab ==
  ASSUME RevisionInv, TabShape, NEW c \in Clients,
         \/ \E p \in Taps : PressPoint(c, p)
         \/ PressReset(c) \/ Receive(c) \/ Fail(c) \/ Deliver(c)
  PROVE  TabShape'
<1> USE DEF server, screens, sockets
<1>1. CASE \E p \in Taps : PressPoint(c, p)
  <2>1. PICK p \in Taps : PressPoint(c, p)
    BY <1>1
  <2>2. pending' \in [Clients -> Action] /\ requests' \subseteq Request
    BY <2>1, SendType DEF PressPoint
  <2>3. State(view[c].rev, Append(view[c].board, p)) \in States
    BY LogShape DEF TabShape, State, States
  <2>4. view' \in [Clients -> States]
    BY <2>1, <2>3, ShowType DEF PressPoint
  <2> QED
    BY <2>1, <2>2, <2>4, UsedSent DEF PressPoint, TabShape
<1>2. CASE PressReset(c)
  <2>1. pending' \in [Clients -> Action] /\ requests' \subseteq Request
    BY <1>2, SendType DEF PressReset
  <2> QED
    BY <1>2, <2>1, UsedSent DEF PressReset, TabShape
<1>3. CASE ReceiveState(c)
  <2>1. PICK a \in answers : Confirm(c, a.state) /\ answers' = answers \ {a}
    BY <1>3 DEF ReceiveState
  <2>2. view' \in [Clients -> States]
    BY <2>1, ShowType DEF Confirm, TabShape, Reply
  <2>3. pending' \in [Clients -> Action]
    BY <1>3, NoActionType DEF ReceiveState, TabShape
  <2> QED
    BY <1>3, <2>1, <2>2, <2>3 DEF ReceiveState, TabShape
<1>4. CASE ReceiveConflict(c)
  <2>1. pending' \in [Clients -> Action]
    BY <1>4 DEF ReceiveConflict, TabShape, Action
  <2> QED
    BY <1>4, <2>1, RollBackType DEF ReceiveConflict, Answered, TabShape
<1>5. CASE ReceiveMissing(c) \/ Fail(c)
  <2>1. pending' \in [Clients -> Action] /\ answers' \subseteq answers
    BY <1>5, NoActionType DEF ReceiveMissing, Fail, Answered, TabShape
  <2> QED
    BY <1>5, <2>1, RollBackType DEF ReceiveMissing, Fail, TabShape
<1>6. CASE Deliver(c)
  <2>1. wire[c] \in Seq(States) /\ wire[c] # <<>>
    BY <1>6 DEF Deliver, RevisionInv, Shape
  <2>2. Head(wire[c]) \in States
    BY <2>1
  <2> QED
    BY <1>6, <2>2, ShowType DEF Deliver, Confirm, TabShape
<1> QED
  BY <1>1, <1>2, <1>3, <1>4, <1>5, <1>6 DEF Receive

LEMMA TabShapeOfServer ==
  ASSUME RevisionInv, RevisionInv', TabShape,
         \/ \E q \in requests : Serve(q)
         \/ Work \/ \E c \in Clients : Fetch(c) \/ Handshake(c)
  PROVE  TabShape'
<1> USE DEF server, screens, sockets
<1>1. ASSUME NEW q \in requests, NotFound(q) \/ Conflict(q)
      PROVE  TabShape'
  <2>1. q.client \in Clients /\ NoState \in States
    BY NoStateShape DEF TabShape, Request
  <2>2. answers' \subseteq Reply
    BY <1>1, <2>1, AnswerType DEF NotFound, Conflict
  <2> QED
    BY <1>1, <2>2 DEF NotFound, Conflict, Taken, TabShape
<1>2. ASSUME NEW q \in requests, AcceptTap(q) \/ AcceptReset(q)
      PROVE  TabShape'
  <2>1. q \in Request
    BY DEF TabShape
  <2>2. job' \in Job
    BY <1>2, <2>1 DEF AcceptTap, AcceptReset, Job
  <2> QED
    BY <1>2, <2>2 DEF AcceptTap, AcceptReset, Taken, TabShape
<1>3. CASE ClearLog \/ Present \/ SaveBoard
  <2>1. job.stage # "none" /\ job \in Job
    BY <1>3 DEF ClearLog, Present, SaveBoard, TabShape
  <2>2. job' \in Job
    BY <1>3, <2>1 DEF ClearLog, Present, SaveBoard, Job, Idle
  <2> QED
    BY <1>3, <2>2 DEF ClearLog, Present, SaveBoard, TabShape
<1>4. CASE Finish
  <2>1. job.stage = "saved" /\ job \in Job /\ mem.live
    BY <1>4 DEF Finish, TabShape, RevisionInv
  <2>2. job.req.client \in Clients
    BY <2>1 DEF Job, Idle, Request
  <2>3. answers' \subseteq Reply
    BY <1>4, <2>1, <2>2, NowIsOnFile, AnswerType DEF Finish
  <2> QED
    BY <1>4, <2>3 DEF Finish, TabShape, Job
<1>5. ASSUME NEW c \in Clients, Fetch(c)
      PROVE  TabShape'
  <2>1. State(mem'.rev, mem.board) \in States
    BY DEF RevisionInv, Shape, State, States
  <2>2. answers' \subseteq Reply
    BY <1>5, <2>1, AnswerType DEF Fetch
  <2> QED
    BY <1>5, <2>2 DEF Fetch, TabShape
<1>6. ASSUME NEW c \in Clients, Handshake(c)
      PROVE  TabShape'
  BY <1>6 DEF Handshake, TabShape
<1> QED
  BY <1>1, <1>2, <1>3, <1>4, <1>5, <1>6 DEF Serve, Work

LEMMA TabShapeOfSockets ==
  ASSUME TabShape,
         \/ Load \/ InitSnapshot \/ Crash \/ Expire
         \/ \E c \in Clients : Connect(c) \/ Disconnect(c) \/ Evict(c)
  PROVE  TabShape'
<1> USE DEF server, screens, sockets
<1>1. CASE Load \/ InitSnapshot
  BY <1>1 DEF Load, InitSnapshot, TabShape
<1>2. CASE Crash
  <2>1. used' \in Counters
    <3>1. used' = [used EXCEPT !.crashes = @ + 1] /\ used \in Counters
      BY <1>2 DEF Crash, TabShape
    <3> QED
      BY <3>1 DEF Counters
  <2> QED
    BY <1>2, <2>1 DEF Crash, TabShape, Job
<1>3. CASE Expire
  <2>1. used' \in Counters
    <3>1. used' = [used EXCEPT !.crashes = @ + 1] /\ used \in Counters
      BY <1>3 DEF Expire, TabShape
    <3> QED
      BY <3>1 DEF Counters
  <2> QED
    BY <1>3, <2>1 DEF Expire, TabShape
<1>4. ASSUME NEW c \in Clients, Connect(c) \/ Disconnect(c)
      PROVE  TabShape'
  BY <1>4 DEF Connect, Disconnect, TabShape
<1>5. ASSUME NEW c \in Clients, Evict(c)
      PROVE  TabShape'
  <2>1. used' \in Counters
    <3>1. used' = [used EXCEPT !.evictions = @ + 1] /\ used \in Counters
      BY <1>5 DEF Evict, TabShape
    <3> QED
      BY <3>1 DEF Counters
  <2> QED
    BY <1>5, <2>1 DEF Evict, TabShape
<1> QED
  BY <1>1, <1>2, <1>3, <1>4, <1>5

LEMMA StepTabShape ==
  ASSUME RevisionInv, TabShape, [Next]_vars
  PROVE  TabShape'
<1>1. RevisionInv'
  BY StepRevision
<1>2. CASE UNCHANGED vars
  BY <1>2 DEF vars, TabShape
<1> QED
  BY <1>1, <1>2, TabShapeOfTab, TabShapeOfServer, TabShapeOfSockets DEF Next

-----------------------------------------------------------------------------
\* The states given out.

LEMMA GivenHas ==
  ASSUME RevisionInv, TabShape
  PROVE  /\ Given \subseteq States /\ NoState \in Given
         /\ \A c \in Clients : held[c] \in Given /\ pending[c].snap \in Given
         /\ \A c \in Clients : \A i \in DOMAIN wire[c] : wire[c][i] \in Given
         /\ \A a \in answers : a.state \in Given
         /\ \A q \in requests : q.seen \in Given
<1>1. /\ \A c \in Clients : held[c] \in States /\ pending[c].snap \in States
      /\ \A a \in answers : a.state \in States
      /\ \A q \in requests : q.seen \in States
  BY DEF RevisionInv, Shape, TabShape, Action, Reply, Request
<1>2. ASSUME NEW c \in Clients, NEW i \in DOMAIN wire[c]
      PROVE  wire[c][i] \in States
  <2>1. wire[c] \in Seq(States)
    BY DEF RevisionInv, Shape
  <2> QED
    BY <1>2, <2>1, ElementOfSeq
<1> QED
  BY <1>1, <1>2, NoStateShape DEF Given

\* A step gives out g at most.
LEMMA GivenFollows ==
  ASSUME NEW g,
         \A c \in Clients : {held'[c], pending'[c].snap} \subseteq Given \cup {g},
         \A c \in Clients : \A i \in DOMAIN wire'[c] : wire'[c][i] \in Given \cup {g},
         \A a \in answers' : a.state \in Given \cup {g},
         \A q \in requests' : q.seen \in Given \cup {g},
         NoState \in Given
  PROVE  Given' \subseteq Given \cup {g}
BY DEF Given

LEMMA GivenOfTab ==
  ASSUME TabInv, NEW c \in Clients,
         \/ \E p \in Taps : PressPoint(c, p)
         \/ PressReset(c) \/ Receive(c) \/ Fail(c) \/ Deliver(c)
  PROVE  Given' \subseteq Given
<1> USE DEF server, screens, sockets
<1>1. /\ RevisionInv /\ TabShape /\ NoState \in Given
      /\ \A d \in Clients : held[d] \in Given /\ pending[d].snap \in Given
      /\ \A d \in Clients : \A i \in DOMAIN wire[d] : wire[d][i] \in Given
      /\ \A a \in answers : a.state \in Given
      /\ \A q \in requests : q.seen \in Given
  BY GivenHas DEF TabInv
<1>2. held \in [Clients -> States] /\ pending \in [Clients -> Action]
  BY <1>1 DEF RevisionInv, Shape, TabShape
<1>3. ASSUME \A d \in Clients : held'[d] \in Given /\ pending'[d].snap \in Given,
             \A d \in Clients : \A i \in DOMAIN wire'[d] : wire'[d][i] \in Given,
             answers' \subseteq answers,
             \A q \in requests' : q.seen \in Given
      PROVE  Given' \subseteq Given
  BY <1>1, <1>3, GivenFollows
<1>4. ASSUME NEW kind, NEW op, Send(c, kind, op)
      PROVE  /\ \A d \in Clients : pending'[d].snap \in Given
             /\ \A q \in requests' : q.seen \in Given
  <2>1. pending[c].kind # "tap"
    BY <1>4, NoActionType DEF Send
  <2>2. view[c] = held[c]
    BY <2>1 DEF TabInv, SettledInv, Settled
  <2> QED
    BY <1>1, <1>2, <1>4, <2>2 DEF Send
<1>5. ASSUME NEW s \in Given, Confirm(c, s)
      PROVE  \A d \in Clients : held'[d] \in Given
  BY <1>1, <1>2, <1>5 DEF Confirm
<1>6. CASE \E p \in Taps : PressPoint(c, p)
  BY <1>1, <1>3, <1>4, <1>6 DEF PressPoint
<1>7. CASE PressReset(c)
  BY <1>1, <1>3, <1>4, <1>7 DEF PressReset
<1>8. ASSUME \/ pending' = [pending EXCEPT ![c] = NoAction]
             \/ pending' = [pending EXCEPT ![c].kind = "fetch"]
      PROVE  \A d \in Clients : pending'[d].snap \in Given
  <2>1. NoAction.snap = NoState
    BY DEF NoAction
  <2> HIDE DEF NoAction
  <2>2. ASSUME NEW d \in Clients
        PROVE  pending'[d].snap = NoState \/ pending'[d].snap = pending[d].snap
    BY <1>2, <1>8, <2>1 DEF Action
  <2> QED
    BY <1>1, <2>2
<1>9. CASE ReceiveState(c)
  <2>1. PICK a \in answers : Confirm(c, a.state) /\ answers' = answers \ {a}
    BY <1>9 DEF ReceiveState
  <2>2. \A d \in Clients : held'[d] \in Given
    BY <1>1, <1>5, <2>1
  <2>3. \A d \in Clients : pending'[d].snap \in Given
    BY <1>8, <1>9 DEF ReceiveState
  <2> QED
    BY <1>1, <1>3, <1>9, <2>1, <2>2, <2>3 DEF ReceiveState
<1>10. CASE ReceiveConflict(c) \/ ReceiveMissing(c) \/ Fail(c)
  <2>1. held' = held /\ answers' \subseteq answers /\ wire' = wire /\ requests' = requests
    BY <1>10 DEF ReceiveConflict, ReceiveMissing, Fail, Answered, RollBack
  <2>2. \A d \in Clients : pending'[d].snap \in Given
    BY <1>8, <1>10 DEF ReceiveConflict, ReceiveMissing, Fail
  <2> QED
    BY <1>1, <1>3, <2>1, <2>2
<1>11. CASE Deliver(c)
  <2>1. wire[c] \in Seq(States) /\ wire[c] # <<>> /\ wire \in [Clients -> Seq(States)]
    BY <1>1, <1>11 DEF Deliver, RevisionInv, Shape
  <2>2. /\ Head(wire[c]) = wire[c][1] /\ 1 \in DOMAIN wire[c]
        /\ \A i \in DOMAIN Tail(wire[c]) :
              i + 1 \in DOMAIN wire[c] /\ Tail(wire[c])[i] = wire[c][i + 1]
    BY <2>1
  <2>3. \A d \in Clients : held'[d] \in Given
    BY <1>1, <1>5, <1>11, <2>2 DEF Deliver
  <2>4. \A d \in Clients : wire'[d] = IF d = c THEN Tail(wire[c]) ELSE wire[d]
    BY <1>11, <2>1 DEF Deliver
  <2>5. \A d \in Clients : \A i \in DOMAIN wire'[d] : wire'[d][i] \in Given
    BY ZenonT(60), <1>1, <2>2, <2>4
  <2> QED
    BY <1>1, <1>3, <1>11, <2>3, <2>5 DEF Deliver
<1> QED
  BY <1>6, <1>7, <1>9, <1>10, <1>11 DEF Receive

LEMMA AnswerGives ==
  ASSUME NEW c, NEW n, NEW status, NEW s, Answer(c, n, status, s)
  PROVE  \A a \in answers' : a \in answers \/ a.state = s
BY DEF Answer

\* What a snapshot gives out.
Snapshot == State(mem'.rev, mem.board)

LEMMA GivenOfServer ==
  ASSUME TabInv,
         \/ \E q \in requests : Serve(q)
         \/ Work \/ \E c \in Clients : Fetch(c) \/ Handshake(c)
  PROVE  Given' \subseteq Given \cup {Snapshot}
<1> USE DEF server, screens, sockets
<1>1. /\ RevisionInv /\ TabShape /\ NoState \in Given
      /\ \A d \in Clients : held[d] \in Given /\ pending[d].snap \in Given
      /\ \A d \in Clients : \A i \in DOMAIN wire[d] : wire[d][i] \in Given
      /\ \A a \in answers : a.state \in Given
      /\ \A q \in requests : q.seen \in Given
  BY GivenHas DEF TabInv
<1>2. wire \in [Clients -> Seq(States)]
  BY <1>1 DEF RevisionInv, Shape
<1>3. ASSUME UNCHANGED <<held, pending>>, requests' \subseteq requests,
             \A d \in Clients : \A i \in DOMAIN wire'[d] :
                wire'[d][i] \in Given \cup {Snapshot},
             \A a \in answers' : a \in answers \/ a.state \in {NoState, Snapshot}
      PROVE  Given' \subseteq Given \cup {Snapshot}
  <2> HIDE DEF Snapshot
  <2>1. \A d \in Clients : {held'[d], pending'[d].snap} \subseteq Given \cup {Snapshot}
    BY <1>1, <1>3
  <2>2. \A a \in answers' : a.state \in Given \cup {Snapshot}
    BY <1>1, <1>3
  <2>3. \A q \in requests' : q.seen \in Given \cup {Snapshot}
    BY <1>1, <1>3
  <2> QED
    BY <1>1, <1>3, <2>1, <2>2, <2>3, GivenFollows
<1>4. ASSUME NEW c \in Clients, wire' = [wire EXCEPT ![c] = Append(@, Snapshot)],
             Snapshot \in States
      PROVE  \A d \in Clients : \A i \in DOMAIN wire'[d] :
                wire'[d][i] \in Given \cup {Snapshot}
  <2> HIDE DEF Snapshot
  <2>1. \A d \in Clients : wire'[d] \in {wire[d], Append(wire[d], Snapshot)}
    BY <1>2, <1>4
  <2>2. ASSUME NEW d \in Clients, NEW i \in DOMAIN wire'[d]
        PROVE  (i \in DOMAIN wire[d] /\ wire'[d][i] = wire[d][i]) \/ wire'[d][i] = Snapshot
    BY <1>2, <1>4, <2>1, <2>2
  <2> QED
    BY <1>1, <2>2
<1>5. ASSUME NEW q \in requests, NotFound(q) \/ Conflict(q)
      PROVE  Given' \subseteq Given \cup {Snapshot}
  <2>1. \A a \in answers' : a \in answers \/ a.state = NoState
    BY <1>5, AnswerGives DEF NotFound, Conflict
  <2> QED
    BY <1>1, <1>3, <1>5, <2>1 DEF NotFound, Conflict, Taken
<1>6. ASSUME NEW q \in requests, AcceptTap(q) \/ AcceptReset(q)
      PROVE  Given' \subseteq Given \cup {Snapshot}
  BY <1>1, <1>3, <1>6 DEF AcceptTap, AcceptReset, Taken
<1>7. CASE ClearLog \/ Present \/ SaveBoard
  BY <1>1, <1>3, <1>7 DEF ClearLog, Present, SaveBoard
<1>8. CASE Finish
  <2>1. Now = Snapshot /\ mem.live
    BY <1>1, <1>8 DEF Finish, Now, Snapshot, RevisionInv
  <2>2. Now \in States
    BY <1>1, <2>1, NowIsOnFile
  <2>3. \A a \in answers' : a \in answers \/ a.state = Snapshot
    BY <1>8, <2>1, AnswerGives DEF Finish
  <2>4. \A d \in Clients : wire'[d] \in {wire[d], Append(wire[d], Now)}
    BY <1>8, <1>2 DEF Finish
  <2>5. ASSUME NEW d \in Clients, NEW i \in DOMAIN wire'[d]
        PROVE  (i \in DOMAIN wire[d] /\ wire'[d][i] = wire[d][i]) \/ wire'[d][i] = Now
    <3>1. wire[d] \in Seq(States) /\ wire'[d] \in {wire[d], Append(wire[d], Now)}
      BY <1>2, <2>4
    <3> HIDE DEF Now
    <3> QED
      BY <2>2, <2>5, <3>1
  <2>6. \A d \in Clients : \A i \in DOMAIN wire'[d] : wire'[d][i] \in Given \cup {Snapshot}
    BY <1>1, <2>1, <2>5
  <2> QED
    BY <1>1, <1>3, <1>8, <2>3, <2>6 DEF Finish
<1>9. ASSUME NEW c \in Clients, Fetch(c)
      PROVE  Given' \subseteq Given \cup {Snapshot}
  <2>1. \A a \in answers' : a \in answers \/ a.state = Snapshot
    BY <1>9, AnswerGives DEF Fetch, Snapshot
  <2> QED
    BY <1>1, <1>3, <1>9, <2>1 DEF Fetch
<1>10. ASSUME NEW c \in Clients, Handshake(c)
      PROVE  Given' \subseteq Given \cup {Snapshot}
  <2>1. Refresh /\ mem.live
    BY <1>10 DEF Handshake, Free
  <2>2. Snapshot \in States
    <3>1. mem'.rev \in Nat /\ mem.board \in Boards
      BY <1>1, <2>1, RefreshStep DEF RevisionInv, Shape
    <3> QED
      BY <3>1 DEF Snapshot, State, States
  <2> QED
    BY <1>1, <1>3, <1>4, <1>10, <2>2 DEF Handshake, Snapshot
<1> QED
  BY <1>5, <1>6, <1>7, <1>8, <1>9, <1>10 DEF Serve, Work

LEMMA GivenOfSockets ==
  ASSUME TabInv,
         \/ Load \/ InitSnapshot \/ Crash \/ Expire
         \/ \E c \in Clients : Connect(c) \/ Disconnect(c) \/ Evict(c)
  PROVE  Given' \subseteq Given
<1> USE DEF server, screens, sockets
<1>1. /\ RevisionInv /\ TabShape /\ NoState \in Given
      /\ \A d \in Clients : held[d] \in Given /\ pending[d].snap \in Given
      /\ \A d \in Clients : \A i \in DOMAIN wire[d] : wire[d][i] \in Given
      /\ \A a \in answers : a.state \in Given
      /\ \A q \in requests : q.seen \in Given
  BY GivenHas DEF TabInv
<1>2. wire \in [Clients -> Seq(States)]
  BY <1>1 DEF RevisionInv, Shape
<1>3. UNCHANGED <<held, pending, requests>> /\ answers' \subseteq answers
  BY DEF Load, InitSnapshot, Crash, Expire, Connect, Disconnect, Evict
<1>4. ASSUME NEW d \in Clients, NEW i \in DOMAIN wire'[d]
      PROVE  i \in DOMAIN wire[d] /\ wire'[d][i] = wire[d][i]
  <2>1. CASE wire' = wire
    BY <1>4, <2>1
  <2>2. CASE wire' = [c \in Clients |-> <<>>]
    BY <1>4, <2>2
  <2>3. CASE \E c \in Clients : wire' = [wire EXCEPT ![c] = <<>>]
    BY <1>2, <1>4, <2>3
  <2>4. ASSUME NEW c \in Clients, Evict(c)
        PROVE  i \in DOMAIN wire[d] /\ wire'[d][i] = wire[d][i]
    <3> DEFINE kept == SubSeq(wire[c], 1, Len(wire[c]) - 1)
    <3>1. wire' = [wire EXCEPT ![c] = kept] /\ wire[c] # <<>> /\ wire[c] \in Seq(States)
      BY <1>2, <2>4 DEF Evict
    <3>2. \A j \in DOMAIN kept : j \in DOMAIN wire[c] /\ kept[j] = wire[c][j]
      BY <3>1
    <3> HIDE DEF kept
    <3> QED
      BY <1>2, <1>4, <3>1, <3>2
  <2> QED
    BY <2>1, <2>2, <2>3, <2>4
       DEF Load, InitSnapshot, Crash, Expire, Connect, Disconnect
<1> QED
  <2>1. \A c \in Clients : {held'[c], pending'[c].snap} \subseteq Given \cup {NoState}
    BY <1>1, <1>3
  <2>2. \A c \in Clients : \A i \in DOMAIN wire'[c] : wire'[c][i] \in Given \cup {NoState}
    BY <1>1, <1>4
  <2>3. /\ \A a \in answers' : a.state \in Given \cup {NoState}
        /\ \A q \in requests' : q.seen \in Given \cup {NoState}
    BY <1>1, <1>3
  <2> QED
    BY <1>1, <2>1, <2>2, <2>3, GivenFollows

-----------------------------------------------------------------------------
\* Names.

LEMMA NamedKept ==
  ASSUME NEW G \in SUBSET States, NEW H \in SUBSET G, NEW r \in Nat, NEW r2 \in Nat,
         NEW f, NEW f2, Named(G, r, f), (r2 = r /\ f2 = f) \/ r2 > r
  PROVE  Named(H, r2, f2)
BY DEF Named, States

LEMMA NamedGives ==
  ASSUME NEW G \in SUBSET States, NEW r \in Nat, NEW f, NEW s \in States,
         Named(G, r, f), s.rev = r, s.board = f[1]
  PROVE  Named(G \cup {s}, r, f)
<1>1. \A t \in G : t.rev = s.rev => t = s
  BY DEF Named, States
<1> QED
  BY <1>1 DEF Named, States

\* Refresh gives the board in memory a revision that names it.
LEMMA RefreshNames ==
  ASSUME TabInv, mem.live, Refresh
  PROVE  /\ disk'.fp = Digest(mem.board, disk.log) /\ mem'.fp = disk'.fp /\ disk'.fp # Null
         /\ disk'.board = disk.board /\ disk'.log = disk.log /\ mem'.board = mem.board
         /\ (disk'.rev = disk.rev /\ disk'.fp = disk.fp) \/ disk'.rev > disk.rev
         /\ Snapshot \in States /\ Snapshot.rev = disk'.rev /\ Snapshot.board = disk'.fp[1]
         /\ Snapshot.board = mem.board
<1> DEFINE now == Digest(mem.board, disk.log)
           rev == IF mem.fp # now THEN mem.rev + 1 ELSE mem.rev
<1>1. /\ RevisionInv /\ mem.fp # Null /\ mem.fp = disk.fp /\ mem.rev = disk.rev
      /\ disk \in [board : Boards, log : Boards, rev : Nat, fp : Fingerprints]
      /\ mem \in [live : BOOLEAN, board : Boards, rev : Nat, fp : Fingerprints]
  BY DEF TabInv, NamesInv, RevisionInv, Shape
<1>2. /\ mem' = [mem EXCEPT !.rev = rev, !.fp = now]
      /\ disk' = IF mem.fp # now THEN [disk EXCEPT !.rev = rev, !.fp = now] ELSE disk
  BY <1>1 DEF Refresh
<1>3. now # Null /\ now[1] = mem.board
  BY DEF Digest, Null
<1> HIDE DEF now
<1>4. /\ disk'.fp = now /\ disk'.board = disk.board /\ disk'.log = disk.log
      /\ mem'.fp = now /\ mem'.rev = rev /\ mem'.board = mem.board
  BY <1>1, <1>2
<1>5. (disk'.rev = disk.rev /\ disk'.fp = disk.fp) \/ disk'.rev > disk.rev
  BY <1>1, <1>2
<1>6. mem'.rev = disk'.rev /\ mem'.rev \in Nat
  BY <1>1, RefreshStep
<1>7. Snapshot = [rev |-> mem'.rev, board |-> mem.board] /\ mem.board \in Boards
  BY <1>1 DEF Snapshot, State
<1>8. Snapshot \in States /\ Snapshot.rev = mem'.rev /\ Snapshot.board = mem.board
  BY <1>6, <1>7 DEF States
<1> QED
  BY <1>3, <1>4, <1>5, <1>6, <1>8 DEF now

LEMMA NamesKept ==
  ASSUME TabInv, disk'.fp # Null, mem'.live => mem'.fp = disk'.fp,
         disk'.rev \in Nat,
         (disk'.rev = disk.rev /\ disk'.fp = disk.fp) \/ disk'.rev > disk.rev,
         job'.stage \in {"presented", "saved"} => mem'.fp = Digest(mem'.board, disk'.log),
         \/ Given' \subseteq Given
         \/ /\ Given' \subseteq Given \cup {Snapshot} /\ Snapshot \in States
            /\ Snapshot.rev = disk'.rev /\ Snapshot.board = disk'.fp[1]
  PROVE  NamesInv'
<1>1. Given \in SUBSET States /\ disk.rev \in Nat /\ Named(Given, disk.rev, disk.fp)
  BY GivenHas DEF TabInv, NamesInv, RevisionInv, Shape
<1>2. Named(Given, disk'.rev, disk'.fp)
  BY <1>1, NamedKept
<1>3. Named(Given', disk'.rev, disk'.fp)
  <2>1. CASE Given' \subseteq Given
    BY <1>1, <1>2, <2>1, NamedKept
  <2>2. CASE /\ Given' \subseteq Given \cup {Snapshot} /\ Snapshot \in States
             /\ Snapshot.rev = disk'.rev /\ Snapshot.board = disk'.fp[1]
    <3> HIDE DEF Snapshot
    <3>1. Named(Given \cup {Snapshot}, disk'.rev, disk'.fp)
      BY <1>1, <1>2, <2>2, NamedGives
    <3>2. Given \cup {Snapshot} \in SUBSET States
      BY <1>1, <2>2
    <3> QED
      BY <2>2, <3>1, <3>2, NamedKept
  <2> QED
    BY <2>1, <2>2
<1> QED
  BY <1>3 DEF NamesInv

LEMMA GivenOfWork ==
  ASSUME TabInv,
         \/ \E q \in requests : NotFound(q) \/ Conflict(q) \/ AcceptTap(q) \/ AcceptReset(q)
         \/ ClearLog \/ Present \/ SaveBoard
  PROVE  Given' \subseteq Given
<1> USE DEF server, screens, sockets
<1>1. /\ NoState \in Given
      /\ \A d \in Clients : held[d] \in Given /\ pending[d].snap \in Given
      /\ \A d \in Clients : \A i \in DOMAIN wire[d] : wire[d][i] \in Given
      /\ \A a \in answers : a.state \in Given
      /\ \A q \in requests : q.seen \in Given
  BY GivenHas DEF TabInv
<1>2. /\ UNCHANGED <<held, pending, wire>> /\ requests' \subseteq requests
      /\ \A a \in answers' : a \in answers \/ a.state = NoState
  BY AnswerGives
     DEF NotFound, Conflict, AcceptTap, AcceptReset, ClearLog, Present, SaveBoard, Taken
<1>3. /\ \A d \in Clients : {held'[d], pending'[d].snap} \subseteq Given \cup {NoState}
      /\ \A d \in Clients : \A i \in DOMAIN wire'[d] : wire'[d][i] \in Given \cup {NoState}
  BY <1>1, <1>2
<1>4. /\ \A a \in answers' : a.state \in Given \cup {NoState}
      /\ \A q \in requests' : q.seen \in Given \cup {NoState}
  BY <1>1, <1>2
<1>5. Given' \subseteq Given \cup {NoState}
  BY <1>1, <1>3, <1>4, GivenFollows
<1> QED
  BY <1>1, <1>5

LEMMA NamesOfServer ==
  ASSUME TabInv, RevisionInv',
         \/ \E q \in requests : Serve(q)
         \/ Work \/ \E c \in Clients : Fetch(c) \/ Handshake(c)
  PROVE  NamesInv'
<1> USE DEF server, screens, sockets
<1>1. /\ RevisionInv /\ TabShape /\ NamesInv /\ disk'.rev \in Nat
      /\ Given' \subseteq Given \cup {Snapshot}
  BY GivenOfServer DEF TabInv, RevisionInv, Shape
<1>2. /\ disk \in [board : Boards, log : Boards, rev : Nat, fp : Fingerprints]
      /\ mem \in [live : BOOLEAN, board : Boards, rev : Nat, fp : Fingerprints]
  BY <1>1 DEF RevisionInv, Shape
<1>3. ASSUME \/ \E q \in requests : NotFound(q) \/ Conflict(q) \/ AcceptTap(q) \/ AcceptReset(q)
             \/ ClearLog \/ Present \/ SaveBoard
      PROVE  Given' \subseteq Given
  BY <1>3, GivenOfWork
<1>4. ASSUME NEW q \in requests, NotFound(q) \/ Conflict(q)
      PROVE  NamesInv'
  BY <1>1, <1>3, <1>4, NamesKept DEF NotFound, Conflict, NamesInv
<1>5. ASSUME NEW q \in requests, AcceptTap(q) \/ AcceptReset(q)
      PROVE  NamesInv'
  <2>1. Given' \subseteq Given
    BY <1>3, <1>5
  <2>2. disk'.fp = disk.fp /\ disk'.rev = disk.rev
    BY <1>2, <1>5 DEF AcceptTap, AcceptReset
  <2>3. mem'.fp = mem.fp /\ mem'.live = mem.live
    BY <1>2, <1>5 DEF AcceptTap, AcceptReset
  <2>4. job'.stage \notin {"presented", "saved"}
    BY <1>5 DEF AcceptTap, AcceptReset
  <2> QED
    BY <1>1, <2>1, <2>2, <2>3, <2>4, NamesKept DEF NamesInv
<1>6. job \in Job
  BY <1>1 DEF TabShape
<1>7. CASE ClearLog
  <2>1. disk'.fp = disk.fp /\ disk'.rev = disk.rev /\ mem' = mem
    BY <1>2, <1>7 DEF ClearLog
  <2>2. job'.stage = "logged"
    BY <1>6, <1>7 DEF ClearLog, Job, Idle
  <2> QED
    BY <1>1, <1>3, <1>7, <2>1, <2>2, NamesKept DEF NamesInv
<1>8. CASE Present
  <2>1. mem.live /\ Refresh
    BY <1>1, <1>8 DEF Present, RevisionInv
  <2> QED
    BY <1>1, <1>3, <1>8, <2>1, RefreshNames, NamesKept
<1>9. CASE SaveBoard
  <2>1. disk'.fp = disk.fp /\ disk'.rev = disk.rev /\ disk'.log = disk.log /\ mem' = mem
    BY <1>2, <1>9 DEF SaveBoard
  <2>2. job.stage = "presented"
    BY <1>9 DEF SaveBoard
  <2> QED
    BY <1>1, <1>3, <1>9, <2>1, <2>2, NamesKept DEF NamesInv
<1>10. CASE Finish
  <2>1. mem.live /\ job.stage = "saved" /\ mem' = mem /\ job' = Idle
    BY <1>1, <1>10 DEF Finish, RevisionInv
  <2>2. /\ mem.rev = disk.rev /\ mem.fp = disk.fp
        /\ disk.fp = Digest(mem.board, disk.log)
    BY <1>1, <2>1 DEF RevisionInv, NamesInv
  <2>3. disk'.rev = disk.rev /\ disk'.fp = disk.fp
    BY <1>2, <1>10, <2>2 DEF Finish
  <2>4. Snapshot \in States /\ Snapshot.rev = disk.rev /\ Snapshot.board = disk.fp[1]
    <3>1. Snapshot = Now /\ Now \in States /\ Now.rev = disk.rev
      BY <1>1, <2>1, NowIsOnFile DEF Snapshot, Now
    <3>2. Now.board = mem.board
      BY DEF Now, State
    <3> QED
      BY <2>2, <3>1, <3>2 DEF Digest
  <2>5. mem'.live => mem'.fp = disk'.fp
    BY <2>1, <2>2, <2>3
  <2>6. job'.stage \notin {"presented", "saved"}
    BY <2>1 DEF Idle
  <2> HIDE DEF Snapshot
  <2> QED
    BY <1>1, <2>3, <2>4, <2>5, <2>6, NamesKept DEF NamesInv
<1>11. ASSUME NEW c \in Clients, Fetch(c) \/ Handshake(c)
       PROVE  NamesInv'
  <2>1. mem.live /\ Refresh /\ job' = job /\ job.stage = "none"
    BY <1>11 DEF Fetch, Handshake, Free, Idle
  <2> HIDE DEF Snapshot
  <2> QED
    BY <1>1, <2>1, RefreshNames, NamesKept
<1> QED
  BY <1>4, <1>5, <1>7, <1>8, <1>9, <1>10, <1>11 DEF Serve, Work

LEMMA NamesOfSockets ==
  ASSUME TabInv, RevisionInv',
         \/ Load \/ InitSnapshot \/ Crash \/ Expire
         \/ \E c \in Clients : Connect(c) \/ Disconnect(c) \/ Evict(c)
  PROVE  NamesInv'
<1> USE DEF server, screens, sockets
<1>1. /\ RevisionInv /\ TabShape /\ NamesInv /\ disk'.rev \in Nat
      /\ Given' \subseteq Given
  BY GivenOfSockets DEF TabInv, RevisionInv, Shape
<1>2. mem \in [live : BOOLEAN, board : Boards, rev : Nat, fp : Fingerprints]
  BY <1>1 DEF RevisionInv, Shape
<1>3. CASE Load
  <2>1. disk' = disk /\ mem'.fp = disk.fp /\ job' = job /\ ~mem.live
    BY <1>3 DEF Load
  <2>2. job.stage = "none"
    <3>1. job \in Job /\ (job.stage # "none" => mem.live)
      BY <1>1 DEF TabShape, RevisionInv
    <3> QED
      BY <2>1, <3>1
  <2> QED
    BY <1>1, <2>1, <2>2, NamesKept DEF NamesInv
<1>4. CASE InitSnapshot
  <2>1. mem.live /\ Refresh /\ job' = job /\ job.stage = "none"
    BY <1>4 DEF InitSnapshot, Free, Idle
  <2> QED
    BY <1>1, <2>1, RefreshNames, NamesKept
<1>5. CASE Crash \/ Expire
  <2>1. disk' = disk /\ job' = Idle
    BY <1>5 DEF Crash, Expire, Free
  <2>2. ~mem'.live
    BY <1>2, <1>5 DEF Crash, Expire
  <2> QED
    BY <1>1, <2>1, <2>2, NamesKept DEF NamesInv, Idle
<1>6. CASE \E c \in Clients : Connect(c) \/ Disconnect(c) \/ Evict(c)
  BY <1>1, <1>6, NamesKept DEF Connect, Disconnect, Evict, NamesInv
<1> QED
  BY <1>3, <1>4, <1>5, <1>6

LEMMA StepNames ==
  ASSUME TabInv, [Next]_vars
  PROVE  NamesInv'
<1> USE DEF server, screens, sockets
<1>1. RevisionInv' /\ RevisionInv /\ disk.rev \in Nat /\ NamesInv
  BY StepRevision DEF TabInv, RevisionInv, Shape
<1>2. CASE UNCHANGED vars
  BY <1>1, <1>2 DEF vars, NamesInv, Given
<1>3. ASSUME NEW c \in Clients,
             \/ \E p \in Taps : PressPoint(c, p)
             \/ PressReset(c) \/ Receive(c) \/ Fail(c) \/ Deliver(c)
      PROVE  NamesInv'
  <2>1. UNCHANGED <<disk, mem, job>>
    BY <1>3 DEF PressPoint, PressReset, Receive, ReceiveState, ReceiveConflict,
                ReceiveMissing, Fail, Deliver
  <2>2. Given' \subseteq Given
    BY <1>3, GivenOfTab
  <2> QED
    BY <1>1, <2>1, <2>2, NamesKept DEF NamesInv
<1> QED
  BY <1>1, <1>2, <1>3, NamesOfServer, NamesOfSockets DEF Next

-----------------------------------------------------------------------------
\* What a tab shows, and which request it waits for.

LEMMA TabParts ==
  ASSUME TabInv
  PROVE  /\ RevisionInv /\ TabShape /\ SettledInv /\ AskedInv
         /\ held \in [Clients -> States] /\ view \in [Clients -> States]
         /\ pending \in [Clients -> Action] /\ answers \subseteq Reply
         /\ requests \subseteq Request /\ job \in Job /\ disk.rev \in Nat
         /\ used \in Counters
         /\ \A s \in Given : s.rev <= disk.rev
         /\ \A s, t \in Given : s.rev = t.rev => s = t
BY DEF TabInv, RevisionInv, Shape, TabShape, NamesInv, Named

\* A state that is shown is newer than what the tab holds, and then is all it holds.
LEMMA ConfirmSettles ==
  ASSUME TabInv, NEW c \in Clients, NEW s \in States, Confirm(c, s)
  PROVE  /\ \A d \in Clients \ {c} : view'[d] = view[d] /\ held'[d] = held[d]
         /\ \/ view'[c] = view[c] /\ held'[c] = held[c] /\ s.rev < view[c].rev
            \/ view'[c] = s /\ held'[c] = s /\ held[c].rev <= s.rev
<1>1. /\ held \in [Clients -> States] /\ view \in [Clients -> States] /\ Settled(c)
  BY TabParts DEF SettledInv
<1>2. view[c].rev = held[c].rev /\ view[c].rev \in Int /\ s.rev \in Int
  BY <1>1 DEF Settled, States
<1> QED
  BY <1>1, <1>2 DEF Confirm, Show, Stale

\* A prediction that is taken back leaves what the tab holds.
LEMMA RollBackSettles ==
  ASSUME TabInv, NEW c \in Clients, RollBack(c)
  PROVE  /\ held' = held /\ view'[c] = held[c]
         /\ \A d \in Clients \ {c} : view'[d] = view[d]
<1>1. /\ held \in [Clients -> States] /\ view \in [Clients -> States]
      /\ pending \in [Clients -> Action] /\ Settled(c)
      /\ (pending[c].kind # "none" => pending[c].snap.rev <= held[c].rev)
      /\ \A s, t \in Given : s.rev = t.rev => s = t
  BY TabParts DEF SettledInv
<1>2. held[c] \in Given /\ pending[c].snap \in Given
  BY GivenHas DEF TabInv
<1>3. /\ view[c].rev \in Int /\ held[c].rev \in Int /\ pending[c].snap.rev \in Int
      /\ held[c] \in States /\ view[c] \in States /\ pending[c].snap \in States
  BY <1>1 DEF States, Action
<1>4. CASE pending[c].kind = "tap"
  <2>1. view' = IF pending[c].snap.rev < view[c].rev THEN view
                ELSE [view EXCEPT ![c] = pending[c].snap]
    BY <1>4 DEF RollBack, Show, Stale
  <2>2. CASE pending[c].snap.rev < view[c].rev
    BY <1>1, <1>3, <2>1, <2>2 DEF Settled, RollBack
  <2>3. CASE ~(pending[c].snap.rev < view[c].rev)
    <3>1. pending[c].snap = held[c]
      BY <1>1, <1>2, <1>3, <1>4, <2>3 DEF Settled
    <3> QED
      BY <1>1, <2>1, <2>3, <3>1 DEF RollBack
  <2> QED
    BY <2>2, <2>3
<1>5. CASE pending[c].kind # "tap"
  BY <1>1, <1>5 DEF RollBack, Settled
<1> QED
  BY <1>4, <1>5

\* One tab changes, and it is settled.
LEMMA SettledAfter ==
  ASSUME TabInv, NEW c \in Clients,
         \A d \in Clients \ {c} :
            view'[d] = view[d] /\ held'[d] = held[d] /\ pending'[d] = pending[d],
         Settled(c)',
         pending'[c].kind # "none" => pending'[c].snap.rev <= held'[c].rev,
         pending'[c].kind = "none" => pending'[c] = NoAction
  PROVE  SettledInv'
BY TabParts DEF SettledInv, Settled

LEMMA StepSettled ==
  ASSUME TabInv, [Next]_vars
  PROVE  SettledInv'
<1> USE DEF server, screens, sockets
<1>1. CASE UNCHANGED <<view, held, pending>>
  BY <1>1, TabParts DEF SettledInv, Settled
<1>2. ASSUME NEW c \in Clients, NEW kind \in {"tap", "reset"}, NEW op, Send(c, kind, op)
      PROVE  /\ view[c] = held[c] /\ held[c].rev \in Int
             /\ \A d \in Clients \ {c} : pending'[d] = pending[d]
             /\ pending'[c].kind = kind /\ pending'[c].snap = held[c]
  <2>1. pending \in [Clients -> Action] /\ pending[c] = NoAction /\ Settled(c)
    BY <1>2, TabParts DEF Send, SettledInv
  <2>2. view[c] = held[c]
    BY <2>1, NoActionType DEF Settled
  <2>3. held[c].rev \in Int
    BY TabParts DEF States
  <2> QED
    BY <1>2, <2>1, <2>2, <2>3 DEF Send
<1>3. ASSUME NEW c \in Clients, NEW p \in Taps, PressPoint(c, p)
      PROVE  SettledInv'
  <2> DEFINE s == State(view[c].rev, Append(view[c].board, p))
  <2>1. /\ view[c] = held[c] /\ held[c].rev \in Int /\ view \in [Clients -> States]
        /\ \A d \in Clients \ {c} : pending'[d] = pending[d]
        /\ pending'[c].kind = "tap" /\ pending'[c].snap = held[c] /\ held' = held
    BY <1>2, <1>3, TabParts DEF PressPoint
  <2>2. Show(c, s) /\ s.rev = view[c].rev
    BY <1>3 DEF PressPoint, State
  <2> HIDE DEF s
  <2>3. view' = [view EXCEPT ![c] = s]
    BY <2>1, <2>2 DEF Show, Stale
  <2>4. Settled(c)'
    BY <2>1, <2>2, <2>3 DEF Settled
  <2> QED
    BY <2>1, <2>3, <2>4, SettledAfter
<1>4. ASSUME NEW c \in Clients, PressReset(c)
      PROVE  SettledInv'
  <2>1. /\ view[c] = held[c] /\ held[c].rev \in Int
        /\ \A d \in Clients \ {c} : pending'[d] = pending[d]
        /\ pending'[c].kind = "reset" /\ pending'[c].snap = held[c]
        /\ held' = held /\ view' = view
    BY <1>2, <1>4 DEF PressReset
  <2> QED
    BY <2>1, SettledAfter DEF Settled
<1>5. ASSUME NEW c \in Clients, ReceiveState(c)
      PROVE  SettledInv'
  <2>1. PICK a \in answers : a.client = c /\ a.status = "ok" /\ Confirm(c, a.state)
    BY <1>5 DEF ReceiveState
  <2>2. /\ a.state \in States /\ pending[c].kind # "none"
        /\ pending[c].snap.rev <= a.state.rev
        /\ pending \in [Clients -> Action] /\ view \in [Clients -> States] /\ Settled(c)
    BY <2>1, TabParts DEF Reply, AskedInv, SettledInv
  <2>3. pending' = [pending EXCEPT ![c] = NoAction]
    BY <1>5 DEF ReceiveState
  <2>4. view'[c] = held'[c]
    <3>1. CASE a.state.rev < view[c].rev
      <4>1. view[c].rev \in Int /\ a.state.rev \in Int /\ pending[c].snap.rev \in Int
        BY <2>2 DEF States, Action
      <4>2. view[c] = held[c]
        BY <2>2, <3>1, <4>1 DEF Settled
      <4> QED
        BY <2>1, <2>2, <4>2, ConfirmSettles
    <3> QED
      BY <2>1, <2>2, <3>1, ConfirmSettles
  <2>5. \A d \in Clients \ {c} :
           view'[d] = view[d] /\ held'[d] = held[d] /\ pending'[d] = pending[d]
    BY <2>1, <2>2, <2>3, ConfirmSettles
  <2>6. pending'[c] = NoAction
    BY <2>2, <2>3
  <2> QED
    BY <2>4, <2>5, <2>6, NoActionType, SettledAfter DEF Settled
<1>6. ASSUME NEW c \in Clients, ReceiveConflict(c)
      PROVE  SettledInv'
  <2>1. RollBack(c) /\ pending' = [pending EXCEPT ![c].kind = "fetch"]
    BY <1>6 DEF ReceiveConflict
  <2>2. pending[c].kind # "none" /\ pending \in [Clients -> Action]
    BY <1>6, TabParts DEF ReceiveConflict, Answered, AskedInv
  <2>3. /\ \A d \in Clients \ {c} : pending'[d] = pending[d]
        /\ pending'[c].kind = "fetch" /\ pending'[c].snap = pending[c].snap
    BY <2>1, <2>2 DEF Action
  <2>4. pending[c].snap.rev <= held[c].rev
    BY <2>2, TabParts DEF SettledInv
  <2> QED
    BY <2>1, <2>3, <2>4, RollBackSettles, SettledAfter DEF Settled
<1>7. ASSUME NEW c \in Clients, ReceiveMissing(c) \/ Fail(c)
      PROVE  SettledInv'
  <2>1. RollBack(c) /\ pending' = [pending EXCEPT ![c] = NoAction]
    BY <1>7 DEF ReceiveMissing, Fail
  <2>2. pending'[c] = NoAction /\ \A d \in Clients \ {c} : pending'[d] = pending[d]
    BY <2>1, TabParts
  <2> QED
    BY <2>1, <2>2, NoActionType, RollBackSettles, SettledAfter DEF Settled
<1>8. ASSUME NEW c \in Clients, Deliver(c)
      PROVE  SettledInv'
  <2> DEFINE s == Head(wire[c])
  <2>1. Confirm(c, s) /\ pending' = pending
    BY <1>8 DEF Deliver
  <2>2. s \in States
    <3>1. wire[c] \in Seq(States) /\ wire[c] # <<>>
      BY <1>8, TabParts DEF Deliver, RevisionInv, Shape
    <3> QED
      BY <3>1
  <2> HIDE DEF s
  <2>3. /\ Settled(c) /\ (pending[c].kind # "none" => pending[c].snap.rev <= held[c].rev)
        /\ (pending[c].kind = "none" => pending[c] = NoAction)
        /\ pending[c] \in Action /\ held[c] \in States
    BY TabParts DEF SettledInv
  <2>4. pending[c].snap.rev \in Int /\ held[c].rev \in Int /\ s.rev \in Int
    BY <2>2, <2>3 DEF Action, States
  <2>5. Settled(c)' /\ (pending'[c].kind # "none" => pending'[c].snap.rev <= held'[c].rev)
    BY <2>1, <2>2, <2>3, <2>4, ConfirmSettles DEF Settled
  <2>6. \A d \in Clients \ {c} :
           view'[d] = view[d] /\ held'[d] = held[d] /\ pending'[d] = pending[d]
    BY <2>1, <2>2, ConfirmSettles
  <2> QED
    BY <2>1, <2>3, <2>5, <2>6, SettledAfter
<1>9. ASSUME \/ \E q \in requests : Serve(q)
             \/ Work \/ Load \/ InitSnapshot \/ Crash \/ Expire
             \/ \E c \in Clients : \/ Fetch(c) \/ Handshake(c) \/ Connect(c)
                                   \/ Disconnect(c) \/ Evict(c)
      PROVE  SettledInv'
  <2>1. UNCHANGED <<view, held, pending>>
    BY <1>9 DEF Serve, NotFound, Conflict, AcceptTap, AcceptReset, Work, ClearLog, Present,
      SaveBoard, Finish, Load, InitSnapshot, Crash, Expire, Fetch, Handshake, Connect,
      Disconnect, Evict
  <2> QED
    BY <1>1, <2>1
<1>10. CASE UNCHANGED vars
  BY <1>1, <1>10 DEF vars
<1> QED
  BY <1>3, <1>4, <1>5, <1>6, <1>7, <1>8, <1>9, <1>10 DEF Next, Receive

LEMMA UnderwayShrinks ==
  ASSUME requests' \subseteq requests,
         job'.stage # "none" =>
            \/ job.stage # "none" /\ job'.req = job.req
            \/ job'.req \in requests
  PROVE  \A c, n : Underway(c, n)' => Underway(c, n)
BY DEF Underway

LEMMA AwaitedShrinks ==
  ASSUME NEW c, NEW n, pending'[c].n = n, \A d, k : Underway(d, k)' => Underway(d, k),
         Awaited(c)'
  PROVE  Underway(c, n)
<1>1. Underway(c, n)'
  BY DEF Awaited, Underway
<1> QED
  BY <1>1

\* Nothing new is asked, and an answer answers what was asked and is still awaited.
LEMMA AskedAfter ==
  ASSUME TabInv, UNCHANGED used, requests' \subseteq requests,
         job'.stage # "none" =>
            \/ job.stage # "none" /\ job'.req = job.req
            \/ job'.req \in requests \ requests',
         \A c \in Clients :
            pending'[c].kind = "fetch" => ~Awaited(c)',
         \A a \in answers' :
            /\ a.client \in Clients
            /\ pending'[a.client].kind # "none"
            /\ ~Awaited(a.client)'
            /\ a.status = "ok" => pending'[a.client].snap.rev <= a.state.rev,
         \A a, b \in answers' : a.client = b.client => a = b
  PROVE  AskedInv'
<1>1. AskedInv
  BY TabParts
<1>2. ASSUME NEW q \in requests'
      PROVE  /\ q.n \in 1..used'.sent[q.client]
             /\ job'.stage # "none" => ~(job'.req.client = q.client /\ job'.req.n = q.n)
  BY <1>1, <1>2 DEF AskedInv
<1>3. \A q, r \in requests' : q.client = r.client /\ q.n = r.n => q = r
  BY <1>1 DEF AskedInv
<1>4. job'.stage # "none" => job'.req.n \in 1..used'.sent[job'.req.client]
  BY <1>1 DEF AskedInv
<1> QED
  BY <1>2, <1>3, <1>4 DEF AskedInv

\* The answer is awaited: there is no other, and its request is done.
LEMMA AnswerAsked ==
  ASSUME TabInv, NEW c \in Clients, NEW n \in Nat, NEW status, NEW s \in States,
         Answer(c, n, status, s), n # 0 \/ pending[c].kind # "none", UNCHANGED <<pending, used>>, requests' \subseteq requests,
         job'.stage # "none" => job.stage # "none" /\ job'.req = job.req,
         \/ Underway(c, n)
         \/ \A a \in answers : a.client # c,
         ~Underway(c, n)',
         status = "ok" => s.rev = disk'.rev /\ disk'.rev \in Nat /\ disk'.rev >= disk.rev
  PROVE  AskedInv'
<1>1. /\ AskedInv /\ pending \in [Clients -> Action] /\ answers \subseteq Reply
      /\ disk.rev \in Nat /\ \A x \in Given : x.rev <= disk.rev
  BY TabParts
<1>2. \A d : Awaited(d)' => Awaited(d)
  <2>1. \A d, k : Underway(d, k)' => Underway(d, k)
    BY UnderwayShrinks
  <2> QED
    BY <2>1, AwaitedShrinks DEF Awaited
<1>3. \A d \in Clients : pending'[d].kind = "fetch" => ~Awaited(d)'
  BY <1>1, <1>2 DEF AskedInv
<1>4. ASSUME NEW a \in answers
      PROVE  /\ a.client \in Clients
             /\ pending'[a.client].kind # "none"
             /\ ~Awaited(a.client)'
             /\ a.status = "ok" => pending'[a.client].snap.rev <= a.state.rev
  BY <1>1, <1>2 DEF AskedInv, Reply
<1>5. CASE answers' = answers
  <2>1. \A a, b \in answers' : a.client = b.client => a = b
    BY <1>1, <1>5 DEF AskedInv
  <2> QED
    BY <1>3, <1>4, <1>5, <2>1, AskedAfter
<1>6. CASE /\ pending[c].n = n
           /\ answers' = answers \cup {[client |-> c, status |-> status, state |-> s]}
  <2> DEFINE new == [client |-> c, status |-> status, state |-> s]
  <2>1. new.client = c /\ new.status = status /\ new.state = s
    OBVIOUS
  <2>2. pending[c].kind # "none"
    BY <1>6, TabParts, NoActionType DEF SettledInv
  <2>3. status = "ok" => pending[c].snap.rev <= s.rev
    <3>1. pending[c].snap \in Given /\ pending[c].snap.rev \in Int
      BY <1>1, GivenHas DEF TabInv, Action, States
    <3> QED
      BY <1>1, <3>1
  <2>4. \A a \in answers : a.client # c
    <3>1. Awaited(c) \/ \A a \in answers : a.client # c
      BY <1>6 DEF Awaited
    <3> QED
      BY <1>1, <3>1 DEF AskedInv
  <2> HIDE DEF new
  <2>5. answers' = answers \cup {new}
    BY <1>6 DEF new
  <2>6. /\ new.client \in Clients /\ pending'[new.client].kind # "none"
        /\ ~Awaited(new.client)'
        /\ new.status = "ok" => pending'[new.client].snap.rev <= new.state.rev
    <3>1. pending'[c].n = n
      BY <1>6
    <3>2. ~Awaited(c)'
      BY <3>1 DEF Awaited, Underway
    <3> QED
      BY <2>1, <2>2, <2>3, <3>2
  <2>7. \A a \in answers' :
            /\ a.client \in Clients
            /\ pending'[a.client].kind # "none"
            /\ ~Awaited(a.client)'
            /\ a.status = "ok" => pending'[a.client].snap.rev <= a.state.rev
    BY <1>4, <2>5, <2>6
  <2>8. \A a, b \in answers' : a.client = b.client => a = b
    BY <1>1, <2>1, <2>4, <2>5 DEF AskedInv
  <2> QED
    BY <1>3, <2>7, <2>8, AskedAfter
<1> QED
  BY <1>5, <1>6 DEF Answer

LEMMA AskedOfSends ==
  ASSUME TabInv, NEW c \in Clients, NEW kind \in {"tap", "reset"}, NEW op,
         Send(c, kind, op), UNCHANGED <<answers, job>>, used' \in Counters,
         used'.sent = [used.sent EXCEPT ![c] = @ + 1]
  PROVE  AskedInv'
<1> DEFINE n == used.sent[c] + 1
           q == [client |-> c, n |-> n, op |-> op, seen |-> view[c]]
<1>1. /\ AskedInv /\ pending \in [Clients -> Action] /\ requests \subseteq Request
      /\ answers \subseteq Reply /\ job \in Job /\ used.sent \in [Clients -> Nat]
  BY TabParts DEF Counters
<1>2. n \in Nat /\ n >= 1 /\ used'.sent[c] = n /\ pending[c].kind = "none"
  BY <1>1, NoActionType DEF Send
<1>3. /\ requests' = requests \cup {q} /\ pending'[c].kind = kind
      /\ \A d \in Clients \ {c} : pending'[d] = pending[d]
  BY <1>1 DEF Send
<1>4. q.client = c /\ q.n = n
  OBVIOUS
<1> HIDE DEF q
<1>5. ASSUME NEW r \in requests
      PROVE  /\ r.n \in 1..used'.sent[r.client] /\ r.client \in Clients
             /\ r.client = c => r.n # n
  BY <1>1, <1>2 DEF AskedInv, Request
<1>6. job.stage # "none" => /\ job.req.n \in 1..used'.sent[job.req.client]
                            /\ job.req.client = c => job.req.n # n
  <2>1. job.stage # "none" => job.req.client \in Clients
    BY <1>1 DEF Job, Idle, Request
  <2> QED
    BY <1>1, <1>2, <2>1 DEF AskedInv
<1> HIDE DEF n
<1>7. \A d \in Clients \ {c} : \A k : Underway(d, k)' => Underway(d, k)
  BY <1>3, <1>4 DEF Underway
<1>12. \A d \in Clients \ {c} : Awaited(d)' => Awaited(d)
  <2> SUFFICES ASSUME NEW d \in Clients \ {c}, Awaited(d)' PROVE Awaited(d)
    OBVIOUS
  <2>1. pending'[d].n = pending[d].n
    BY <1>3
  <2>2. Underway(d, pending[d].n)'
    BY <2>1 DEF Awaited, Underway
  <2>3. \A r \in requests' : r.client = d => r \in requests
    BY <1>3, <1>4
  <2> QED
    BY <2>1, <2>3 DEF Awaited, Underway
<1>8. \A r \in requests' :
        /\ r.n \in 1..used'.sent[r.client]
        /\ job'.stage # "none" => ~(job'.req.client = r.client /\ job'.req.n = r.n)
  BY <1>1, <1>2, <1>3, <1>4, <1>5, <1>6 DEF AskedInv
<1>9. \A r, p \in requests' : r.client = p.client /\ r.n = p.n => r = p
  BY <1>1, <1>3, <1>4, <1>5 DEF AskedInv
<1>10. \A d \in Clients : pending'[d].kind = "fetch" => ~Awaited(d)'
  <2>1. pending'[c].kind # "fetch"
    BY <1>3
  <2> QED
    BY <1>1, <1>3, <1>12, <2>1 DEF AskedInv
<1>11. ASSUME NEW a \in answers
       PROVE  /\ a.client # c /\ a.client \in Clients
              /\ pending'[a.client].kind # "none"
              /\ ~Awaited(a.client)'
              /\ a.status = "ok" => pending'[a.client].snap.rev <= a.state.rev
  <2>1. a.client # c /\ a.client \in Clients
    BY <1>1, <1>2 DEF AskedInv, Reply
  <2> QED
    BY <1>1, <1>3, <1>12, <2>1 DEF AskedInv
<1> QED
  <2>1. job' = job /\ answers' = answers
    OBVIOUS
  <2>2. \A a, b \in answers : a.client = b.client => a = b
    BY <1>1 DEF AskedInv
  <2>3. job'.stage # "none" => job'.req.n \in 1..used'.sent[job'.req.client]
    BY <1>6, <2>1
  <2> QED
    BY <1>8, <1>9, <1>10, <1>11, <2>1, <2>2, <2>3 DEF AskedInv

LEMMA StepAsked ==
  ASSUME TabInv, [Next]_vars
  PROVE  AskedInv'
<1> USE DEF server, screens, sockets
<1>1. /\ AskedInv /\ pending \in [Clients -> Action] /\ answers \subseteq Reply
      /\ requests \subseteq Request /\ job \in Job /\ RevisionInv /\ RevisionInv'
      /\ disk.rev \in Nat /\ disk'.rev \in Nat
  <2>1. RevisionInv'
    BY StepRevision, TabParts
  <2> QED
    BY <2>1, TabParts DEF RevisionInv, Shape
\* Some answers are received or lost.
<1>2. ASSUME NEW c \in Clients, answers' \subseteq answers, UNCHANGED <<requests, job, used>>,
             \A d \in Clients \ {c} : pending'[d] = pending[d],
             \A a \in answers' : a.client # c \/ pending'[c] = pending[c],
             pending'[c].kind = "fetch" => ~Awaited(c) /\ pending'[c].n = pending[c].n
      PROVE  AskedInv'
  <2>1. \A d : pending'[d].n = pending[d].n /\ Awaited(d)' => Awaited(d)
    <3>1. \A d, k : Underway(d, k)' => Underway(d, k)
      BY <1>2, UnderwayShrinks
    <3> QED
      BY <3>1, AwaitedShrinks DEF Awaited
  <2>2. \A d \in Clients : pending'[d].kind = "fetch" => ~Awaited(d)'
    BY <1>1, <1>2, <2>1 DEF AskedInv
  <2>3. ASSUME NEW a \in answers'
        PROVE  /\ a.client \in Clients /\ pending'[a.client] = pending[a.client]
               /\ pending'[a.client].kind # "none"
               /\ ~Awaited(a.client)'
               /\ a.status = "ok" => pending'[a.client].snap.rev <= a.state.rev
    <3>1. a \in answers /\ a.client \in Clients
      BY <1>1, <1>2 DEF Reply
    <3>2. pending'[a.client] = pending[a.client]
      BY <1>2, <3>1
    <3> QED
      BY <1>1, <2>1, <3>1, <3>2 DEF AskedInv
  <2>4. \A a, b \in answers' : a.client = b.client => a = b
    BY <1>1, <1>2 DEF AskedInv
  <2> QED
    BY <1>2, <2>2, <2>3, <2>4, AskedAfter
<1>3. ASSUME NEW c \in Clients, NEW p \in Taps, PressPoint(c, p)
      PROVE  AskedInv'
  BY <1>3, TabParts, UsedSent, AskedOfSends DEF PressPoint
<1>4. ASSUME NEW c \in Clients, PressReset(c)
      PROVE  AskedInv'
  BY <1>4, TabParts, UsedSent, AskedOfSends DEF PressReset
<1>5. ASSUME NEW c \in Clients, NEW a \in answers, a.client = c, answers' = answers \ {a}
      PROVE  \A b \in answers' : b.client # c
  BY <1>1, <1>5 DEF AskedInv
<1>6. ASSUME NEW c \in Clients, Receive(c)
      PROVE  AskedInv'
  <2>1. PICK a \in answers : a.client = c /\ answers' = answers \ {a}
    BY <1>6 DEF Receive, ReceiveState, ReceiveConflict, ReceiveMissing, Answered
  <2>2. \A b \in answers' : b.client # c
    BY <1>5, <2>1
  <2>3. ~Awaited(c)
    BY <1>1, <2>1 DEF AskedInv
  <2>4. \/ pending' = [pending EXCEPT ![c] = NoAction]
        \/ pending' = [pending EXCEPT ![c].kind = "fetch"]
    BY <1>6 DEF Receive, ReceiveState, ReceiveConflict, ReceiveMissing
  <2>5. /\ \A d \in Clients \ {c} : pending'[d] = pending[d]
        /\ pending'[c].kind = "fetch" => pending'[c].n = pending[c].n
    <3>1. CASE pending' = [pending EXCEPT ![c] = NoAction]
      BY <1>1, <3>1, NoActionType
    <3>2. CASE pending' = [pending EXCEPT ![c].kind = "fetch"]
      BY <1>1, <3>2 DEF Action
    <3> QED
      BY <2>4, <3>1, <3>2
  <2>6. UNCHANGED <<requests, job, used>>
    BY <1>6 DEF Receive, ReceiveState, ReceiveConflict, ReceiveMissing
  <2> QED
    BY <1>2, <2>1, <2>2, <2>3, <2>5, <2>6
<1>7. ASSUME NEW c \in Clients, Fail(c)
      PROVE  AskedInv'
  <2>1. /\ answers' = {a \in answers : a.client # c} /\ UNCHANGED <<requests, job, used>>
        /\ pending' = [pending EXCEPT ![c] = NoAction]
    BY <1>7 DEF Fail
  <2>2. pending'[c].kind = "none" /\ \A d \in Clients \ {c} : pending'[d] = pending[d]
    BY <1>1, <2>1, NoActionType
  <2> QED
    BY <1>2, <2>1, <2>2
<1>8. ASSUME UNCHANGED <<requests, answers, pending>>, used'.sent = used.sent,
             \/ job' = Idle
             \/ job' = job
             \/ job.stage # "none" /\ job'.req = job.req
      PROVE  AskedInv'
  <2>1. job'.stage # "none" => job.stage # "none" /\ job'.req = job.req
    BY <1>8 DEF Idle
  <2>2. \A d : Awaited(d)' => Awaited(d)
    <3>1. \A d, k : Underway(d, k)' => Underway(d, k)
      BY <1>8, <2>1, UnderwayShrinks
    <3> QED
      BY <1>8, <3>1, AwaitedShrinks DEF Awaited
  <2> QED
    BY <1>1, <1>8, <2>1, <2>2 DEF AskedInv, Reply
<1>9. ASSUME NEW q \in requests, NotFound(q) \/ Conflict(q)
      PROVE  AskedInv'
  <2> DEFINE status == IF NotFound(q) THEN "missing" ELSE "conflict"
  <2>1. /\ Answer(q.client, q.n, "missing", NoState) \/ Answer(q.client, q.n, "conflict", NoState)
        /\ requests' = requests \ {q} /\ UNCHANGED <<job, pending, used>>
    BY <1>9 DEF NotFound, Conflict, Taken
  <2>2. q.client \in Clients /\ q.n \in Nat \ {0} /\ Underway(q.client, q.n)
    BY <1>1 DEF AskedInv, Request, Underway
  <2>3. ~Underway(q.client, q.n)'
    BY <1>1, <2>1 DEF AskedInv, Underway
  <2> QED
    BY <2>1, <2>2, <2>3, NoStateShape, AnswerAsked
<1>10. ASSUME NEW q \in requests, AcceptTap(q) \/ AcceptReset(q)
       PROVE  AskedInv'
  <2>1. /\ requests' = requests \ {q} /\ UNCHANGED <<answers, pending, used>>
        /\ job'.req = q /\ job'.stage # "none"
    BY <1>10 DEF AcceptTap, AcceptReset, Taken
  <2>2. \A d : Awaited(d)' => Awaited(d)
    <3>1. \A d, k : Underway(d, k)' => Underway(d, k)
      BY <2>1, UnderwayShrinks
    <3> QED
      BY <2>1, <3>1, AwaitedShrinks DEF Awaited
  <2> QED
    BY <1>1, <2>1, <2>2 DEF AskedInv, Reply
<1>11. CASE ClearLog \/ Present \/ SaveBoard
  <2>1. job.stage # "none" /\ UNCHANGED <<requests, answers, pending, used>>
    BY <1>11 DEF ClearLog, Present, SaveBoard
  <2>2. job'.req = job.req
    BY <1>1, <1>11, <2>1 DEF ClearLog, Present, SaveBoard, Job, Idle
  <2> QED
    BY <1>8, <2>1, <2>2
<1>12. CASE Finish
  <2>1. /\ Answer(job.req.client, job.req.n, "ok", Now) /\ job' = Idle
        /\ UNCHANGED <<requests, pending, used, mem>> /\ job.stage = "saved"
    BY <1>12 DEF Finish
  <2>2. /\ job.req.client \in Clients /\ job.req.n \in Nat \ {0}
        /\ Underway(job.req.client, job.req.n)
    <3>1. job.req \in Request
      BY <1>1, <2>1 DEF Job, Idle
    <3> QED
      BY <1>1, <2>1, <3>1 DEF AskedInv, Request, Underway
  <2>8. PICK c \in Clients, n \in Nat \ {0} : c = job.req.client /\ n = job.req.n
    BY <2>2
  <2>3. ~Underway(c, n)'
    <3>1. job.stage # "none" /\ requests' = requests /\ job'.stage = "none"
      BY <2>1 DEF Idle
    <3>2. \A q \in requests : ~(q.client = c /\ q.n = n)
      BY <1>1, <2>8, <3>1 DEF AskedInv
    <3> QED
      BY <3>1, <3>2 DEF Underway
  <2>4. Now \in States /\ Now.rev = disk.rev /\ mem.rev = disk.rev
    BY <1>1, <2>1, NowIsOnFile DEF RevisionInv
  <2>5. disk'.rev = disk.rev
    BY <1>1, <1>12, <2>4 DEF Finish, RevisionInv, Shape
  <2>6. job'.stage = "none"
    BY <2>1 DEF Idle
  <2>7. Answer(c, n, "ok", Now) /\ Underway(c, n)
    BY <2>1, <2>2, <2>8
  <2> HIDE DEF Now
  <2> QED
    BY <1>1, <2>1, <2>3, <2>4, <2>5, <2>6, <2>7, AnswerAsked
<1>13. ASSUME NEW c \in Clients, Fetch(c)
       PROVE  AskedInv'
  <2>1. /\ mem.live /\ Refresh /\ UNCHANGED <<job, requests, pending, used>>
        /\ pending[c].kind = "fetch" /\ \A a \in answers : a.client # c
        /\ Answer(c, pending[c].n, "ok", Snapshot)
    BY <1>13 DEF Fetch, Free, Snapshot
  <2>2. Snapshot \in States /\ Snapshot.rev = disk'.rev /\ disk'.rev >= disk.rev
    BY <1>1, <2>1, RefreshNames, RefreshStep
  <2>4. PICK n \in Nat : n = pending[c].n
    BY <1>1 DEF Action
  <2>3. ~Underway(c, n)
    BY <1>1, <2>1, <2>4 DEF AskedInv, Awaited
  <2>5. Answer(c, n, "ok", Snapshot)
    BY <2>1, <2>4
  <2> HIDE DEF Snapshot
  <2>6. ~Underway(c, n)'
    BY <2>1, <2>3, UnderwayShrinks
  <2> QED
    BY <1>1, <2>1, <2>2, <2>4, <2>5, <2>6, AnswerAsked
<1>14. CASE Load \/ InitSnapshot \/ Expire
  <2>1. UNCHANGED <<requests, answers, pending, job>>
    BY <1>14 DEF Load, InitSnapshot, Expire
  <2>2. used'.sent = used.sent
    BY <1>14, TabParts DEF Load, InitSnapshot, Expire, Counters
  <2> QED
    BY <1>8, <2>1, <2>2
<1>15. CASE Crash
  <2>1. UNCHANGED <<requests, pending>> /\ answers' = {} /\ job' = Idle
    BY <1>15 DEF Crash
  <2>2. used'.sent = used.sent
    BY <1>15, TabParts DEF Crash, Counters
  <2>3. \A d : Awaited(d)' => Awaited(d)
    <3>1. \A d, k : Underway(d, k)' => Underway(d, k)
      BY <2>1, UnderwayShrinks DEF Idle
    <3> QED
      BY <2>1, <3>1, AwaitedShrinks DEF Awaited
  <2> QED
    BY <1>1, <2>1, <2>2, <2>3 DEF AskedInv, Idle
<1>16. ASSUME NEW c \in Clients, \/ Deliver(c) \/ Handshake(c) \/ Connect(c)
                                 \/ Disconnect(c) \/ Evict(c)
       PROVE  AskedInv'
  <2>1. UNCHANGED <<requests, answers, pending, job>>
    BY <1>16 DEF Deliver, Handshake, Connect, Disconnect, Evict
  <2>2. used'.sent = used.sent
    BY <1>16, TabParts DEF Deliver, Handshake, Connect, Disconnect, Evict, Counters
  <2> QED
    BY <1>8, <2>1, <2>2
<1>17. CASE UNCHANGED vars
  BY <1>8, <1>17 DEF vars
<1> QED
  BY <1>3, <1>4, <1>6, <1>7, <1>9, <1>10, <1>11, <1>12, <1>13, <1>14, <1>15, <1>16, <1>17
     DEF Next, Serve, Work

LEMMA StepTab == TabInv /\ [Next]_vars => TabInv'
<1> SUFFICES ASSUME TabInv, [Next]_vars PROVE TabInv'
  OBVIOUS
<1>1. RevisionInv' /\ TabShape'
  BY StepRevision, StepTabShape DEF TabInv
<1> QED
  BY <1>1, StepNames, StepSettled, StepAsked DEF TabInv

\* Two screens that hold the same revision show the same points, and so does the
\* server once it has presented what it holds: however restarts fall between the
\* writes, on a board that a mutation has fingerprinted.
THEOREM RevisionsAreNames ==
  ASSUME Fingerprinted = TRUE
  PROVE  Spec => []RevisionNamesOneBoard
<1>1. TabInv => RevisionNamesOneBoard
  <2> SUFFICES ASSUME TabInv, NEW c \in Clients
               PROVE  /\ \A d \in Clients : held[c].rev = held[d].rev => held[c] = held[d]
                      /\ Free /\ mem.fp = Digest(mem.board, disk.log)
                           /\ held[c].rev = mem.rev => held[c].board = mem.board
    BY DEF RevisionNamesOneBoard
  <2>1. \A d \in Clients : held[d] \in Given
    BY GivenHas DEF TabInv
  <2>2. ASSUME Free, mem.fp = Digest(mem.board, disk.log), held[c].rev = mem.rev
        PROVE  held[c].board = mem.board
    <3>1. mem.rev = disk.rev /\ mem.fp = disk.fp
      BY <2>2 DEF TabInv, RevisionInv, NamesInv, Free
    <3>2. held[c].board = disk.fp[1]
      BY <2>1, <2>2, <3>1 DEF TabInv, NamesInv, Named
    <3> QED
      BY <2>2, <3>1, <3>2 DEF Digest
  <2> QED
    BY <2>1, <2>2 DEF TabInv, NamesInv, Named
<1> QED
  BY <1>1, InitTab, StepTab, PTL DEF Spec

\* No prediction outlives the request it was made for, whichever answers are lost,
\* late or refused and whatever is pushed meanwhile.
THEOREM NoPredictionLingers ==
  ASSUME Fingerprinted = TRUE
  PROVE  Spec => []PredictionsSettle
<1>1. TabInv => PredictionsSettle
  BY NoActionType DEF TabInv, SettledInv, Settled, PredictionsSettle
<1> QED
  BY <1>1, InitTab, StepTab, PTL DEF Spec

-----------------------------------------------------------------------------
\* Without resets, a mutation lands on the board its operator saw.

LEMMA InitLanded == Fingerprinted = TRUE /\ Init => LandedInv /\ OnceInv
<1> SUFFICES ASSUME Fingerprinted = TRUE, Init PROVE LandedInv /\ OnceInv
  OBVIOUS
<1>1. Given \subseteq {NoState}
  BY DEF Init, Given, NoAction
<1>2. NoState.rev = -1 /\ disk.rev = 0 /\ ~mem.live /\ job.stage = "none" /\ requests = {}
      /\ mem.board = <<>> /\ disk.board = <<>>
  BY NoStateShape DEF Init, Idle
<1> QED
  BY <1>1, <1>2 DEF LandedInv, OnceInv, Distinct

\* A session that has gone has left the files alone.
LEMMA Unloaded ==
  ASSUME RevisionInv, Crash \/ Expire
  PROVE  ~mem'.live /\ mem'.board = <<>> /\ disk' = disk /\ job' = Idle
<1>1. mem \in [live : BOOLEAN, board : Boards, rev : Nat, fp : Fingerprints]
  BY DEF RevisionInv, Shape
<1>2. mem' = [mem EXCEPT !.live = FALSE, !.board = <<>>, !.rev = 0, !.fp = Null]
  BY DEF Crash, Expire
<1>3. ~mem'.live /\ mem'.board = <<>>
  BY <1>1, <1>2
<1> QED
  BY <1>3 DEF Crash, Expire, Free

LEMMA StepLanded ==
  ASSUME MaxResets = 0, TabInv, LandedInv, [Next]_vars
  PROVE  LandedInv'
<1> USE DEF server, screens, sockets
<1>1. /\ RevisionInv /\ TabShape /\ NamesInv /\ job \in Job /\ requests \subseteq Request
      /\ disk.rev \in Nat /\ used \in Counters
      /\ Given \subseteq States /\ \A s \in Given : s.rev <= disk.rev
  BY TabParts, GivenHas DEF TabInv
<1>2. /\ disk \in [board : Boards, log : Boards, rev : Nat, fp : Fingerprints]
      /\ mem \in [live : BOOLEAN, board : Boards, rev : Nat, fp : Fingerprints]
  BY <1>1 DEF RevisionInv, Shape
<1>3. CASE UNCHANGED vars
  BY <1>3 DEF vars, LandedInv, Given
\* The tab.
<1>4. ASSUME NEW c \in Clients,
             \/ \E p \in Taps : PressPoint(c, p)
             \/ PressReset(c) \/ Receive(c) \/ Fail(c) \/ Deliver(c)
      PROVE  LandedInv'
  <2>1. UNCHANGED <<disk, mem, job>>
    BY <1>4 DEF PressPoint, PressReset, Receive, ReceiveState, ReceiveConflict,
                ReceiveMissing, Fail, Deliver
  <2>2. Given' \subseteq Given
    BY <1>4, GivenOfTab
  <2>3. ~PressReset(c)
    BY <1>1 DEF PressReset, Counters
  <2>4. \A q \in requests' : Fresh(q)
    <3>1. CASE \E p \in Taps : PressPoint(c, p)
      <4>1. PICK p \in Taps : PressPoint(c, p)
        BY <3>1
      <4> DEFINE new == [client |-> c, n |-> used.sent[c] + 1, op |-> p, seen |-> view[c]]
      <4>2. requests' = requests \cup {new}
        BY <4>1 DEF PressPoint, Send
      <4>3. Fresh(new)
        BY <4>1 DEF PressPoint, Fresh
      <4> HIDE DEF new
      <4> QED
        BY <4>2, <4>3 DEF LandedInv
    <3>2. CASE Receive(c) \/ Fail(c) \/ Deliver(c)
      BY <3>2 DEF Receive, ReceiveState, ReceiveConflict, ReceiveMissing, Fail, Deliver,
                  LandedInv
    <3> QED
      BY <1>4, <2>3, <3>1, <3>2
  <2> QED
    BY <2>1, <2>2, <2>4 DEF LandedInv
\* The server: what is given out is the board on file.
<1>5. ASSUME requests' \subseteq requests, job'.stage # "blanked", Given' \subseteq Given,
             mem'.live /\ job'.stage \in {"none", "saved"} => mem'.board = disk'.board,
             \A s \in Given : s.rev = disk'.rev => s.board = disk'.board
      PROVE  LandedInv'
  BY <1>5 DEF LandedInv
<1>6. ASSUME NEW q \in requests, NotFound(q) \/ Conflict(q)
      PROVE  LandedInv'
  <2>1. Given' \subseteq Given
    BY <1>6, GivenOfWork
  <2> QED
    BY <1>5, <1>6, <2>1 DEF NotFound, Conflict, Taken, LandedInv
<1>7. ASSUME NEW q \in requests, AcceptReset(q)
      PROVE  FALSE
  BY <1>7, RevisionAssumption DEF AcceptReset, LandedInv, Fresh
<1>8. ASSUME NEW q \in requests, AcceptTap(q)
      PROVE  LandedInv'
  <2>1. Given' \subseteq Given
    BY <1>8, GivenOfWork
  <2>2. disk'.board = disk.board /\ disk'.rev = disk.rev
    BY <1>2, <1>8 DEF AcceptTap
  <2>3. job'.stage = "logged" /\ requests' \subseteq requests
    BY <1>8 DEF AcceptTap, Taken
  <2> QED
    BY <1>5, <2>1, <2>2, <2>3 DEF LandedInv
<1>9. ~ClearLog
  BY DEF ClearLog, LandedInv
<1>10. CASE Present
  <2>1. Given' \subseteq Given
    BY <1>10, GivenOfWork
  <2>2. mem.live /\ Refresh /\ requests' = requests
    BY <1>1, <1>10 DEF Present, RevisionInv
  <2>3. disk'.board = disk.board /\ (disk'.rev = disk.rev \/ disk'.rev > disk.rev)
    BY <2>2, RefreshNames
  <2>4. job'.stage = "presented"
    BY <1>1, <1>10 DEF Present, Job, Idle
  <2>5. \A s \in Given : s.rev = disk'.rev => s.board = disk'.board
    <3>1. \A s \in Given : s.rev \in Int
      BY <1>1 DEF States
    <3> QED
      BY <1>1, <2>3, <3>1 DEF LandedInv
  <2> QED
    BY <1>5, <2>1, <2>2, <2>4, <2>5
<1>11. CASE SaveBoard
  <2>1. Given' \subseteq Given
    BY <1>11, GivenOfWork
  <2>2. disk'.board = mem.board /\ disk'.rev = disk.rev /\ mem' = mem /\ requests' = requests
    BY <1>2, <1>11 DEF SaveBoard
  <2>3. job'.stage = "saved"
    BY <1>1, <1>11 DEF SaveBoard, Job, Idle
  <2>4. disk.fp[1] = mem.board
    <3>1. job.stage = "presented" /\ mem.live
      BY <1>1, <1>11 DEF SaveBoard, RevisionInv
    <3> QED
      BY <1>1, <3>1 DEF NamesInv, Digest
  <2>5. \A s \in Given : s.rev = disk'.rev => s.board = disk'.board
    BY <1>1, <2>2, <2>4 DEF NamesInv, Named
  <2> QED
    BY <1>5, <2>1, <2>2, <2>3, <2>5
<1>12. ASSUME Given' \subseteq Given \cup {Snapshot}, Snapshot.board = disk'.board,
              requests' \subseteq requests, job'.stage = "none", mem'.board = disk'.board,
              \A s \in Given : s.rev = disk'.rev => s.board = disk'.board
       PROVE  LandedInv'
  <2> HIDE DEF Snapshot
  <2>1. \A s \in Given \cup {Snapshot} : s.rev = disk'.rev => s.board = disk'.board
    BY <1>12
  <2> QED
    BY <1>12, <2>1 DEF LandedInv
<1>13. CASE Finish
  <2>1. /\ Given' \subseteq Given \cup {Snapshot} /\ mem' = mem /\ job'.stage = "none"
        /\ requests' = requests /\ mem.live /\ job.stage = "saved"
    BY <1>1, <1>13, GivenOfServer DEF Finish, Work, Idle, RevisionInv
  <2>2. mem.board = disk.board /\ mem.rev = disk.rev
    BY <1>1, <2>1 DEF LandedInv, RevisionInv
  <2>3. disk'.board = disk.board /\ disk'.rev = disk.rev
    BY <1>2, <1>13, <2>2 DEF Finish
  <2>4. Snapshot.board = mem.board
    BY DEF Snapshot, State
  <2> HIDE DEF Snapshot
  <2> QED
    BY <1>12, <2>1, <2>2, <2>3, <2>4 DEF LandedInv
<1>14. ASSUME mem.live, Refresh, job.stage = "none"
       PROVE  /\ mem'.board = disk'.board /\ disk'.board = disk.board
              /\ Snapshot.board = disk'.board
              /\ \A s \in Given : s.rev = disk'.rev => s.board = disk'.board
  <2>1. /\ disk'.board = disk.board /\ mem'.board = mem.board /\ Snapshot.board = mem.board
        /\ disk'.rev = disk.rev \/ disk'.rev > disk.rev
    BY <1>14, RefreshNames
  <2>2. mem.board = disk.board
    BY <1>14 DEF LandedInv
  <2>3. \A s \in Given : s.rev \in Int
    BY <1>1 DEF States
  <2> HIDE DEF Snapshot
  <2> QED
    BY <1>1, <2>1, <2>2, <2>3 DEF LandedInv
<1>15. ASSUME NEW c \in Clients, Fetch(c) \/ Handshake(c)
       PROVE  LandedInv'
  <2>1. mem.live /\ Refresh /\ job.stage = "none" /\ job' = job /\ requests' = requests
    BY <1>15 DEF Fetch, Handshake, Free, Idle
  <2>2. Given' \subseteq Given \cup {Snapshot}
    BY <1>15, GivenOfServer
  <2> HIDE DEF Snapshot
  <2> QED
    BY <1>12, <1>14, <2>1, <2>2
<1>16. CASE InitSnapshot
  <2>1. mem.live /\ Refresh /\ job.stage = "none" /\ job' = job /\ requests' = requests
    BY <1>16 DEF InitSnapshot, Free, Idle
  <2>2. Given' \subseteq Given
    BY <1>16, GivenOfSockets
  <2> HIDE DEF Snapshot
  <2> QED
    BY <1>12, <1>14, <2>1, <2>2
<1>17. CASE Load \/ Crash \/ Expire
  <2>1. Given' \subseteq Given
    BY <1>17, GivenOfSockets
  <2>2. disk' = disk /\ requests' = requests /\ job'.stage # "blanked"
    BY <1>17 DEF Load, Crash, Expire, Idle, LandedInv
  <2>3. ~mem'.live \/ mem'.board = disk.board
    BY <1>1, <1>17, Unloaded DEF Load
  <2> QED
    BY <1>5, <2>1, <2>2, <2>3 DEF LandedInv
<1>18. ASSUME NEW c \in Clients, Connect(c) \/ Disconnect(c) \/ Evict(c)
       PROVE  LandedInv'
  <2>1. Given' \subseteq Given
    BY <1>18, GivenOfSockets
  <2>2. UNCHANGED <<disk, mem, job, requests>>
    BY <1>18 DEF Connect, Disconnect, Evict
  <2> QED
    BY <1>5, <2>1, <2>2 DEF LandedInv
<1> QED
  BY <1>3, <1>4, <1>6, <1>7, <1>8, <1>9, <1>10, <1>11, <1>13, <1>15, <1>16, <1>17, <1>18
     DEF Next, Serve, Work

\* The board a mutation is accepted on is the one it was aimed at.
LEMMA AimedAt ==
  ASSUME TabInv, LandedInv, NEW q \in requests, Free, Current(q)
  PROVE  q.seen.board = mem.board /\ mem.board = disk.board
<1>1. q.seen \in Given
  BY GivenHas DEF TabInv
<1>2. mem.live /\ job.stage = "none" /\ mem.rev = disk.rev
  BY DEF Free, Idle, TabInv, RevisionInv
<1> QED
  BY <1>1, <1>2 DEF LandedInv, Current

LEMMA DistinctAppend ==
  ASSUME NEW b \in Boards, NEW p \in Taps, Distinct(b), \A i \in DOMAIN b : b[i] # p
  PROVE  Distinct(Append(b, p))
BY DEF Distinct, Boards

LEMMA StepOnce ==
  ASSUME MaxResets = 0, TabInv, LandedInv, OnceInv, [Next]_vars
  PROVE  OnceInv'
<1> USE DEF server, screens, sockets
<1>1. /\ disk \in [board : Boards, log : Boards, rev : Nat, fp : Fingerprints]
      /\ mem \in [live : BOOLEAN, board : Boards, rev : Nat, fp : Fingerprints]
  BY TabParts DEF RevisionInv, Shape
<1>2. ASSUME mem'.board \in {mem.board, disk.board, <<>>},
             disk'.board \in {mem.board, disk.board}
      PROVE  OnceInv'
  BY <1>2 DEF OnceInv, Distinct
<1>3. ASSUME NEW q \in requests, AcceptTap(q)
      PROVE  OnceInv'
  <2>1. mem'.board = Append(mem.board, q.op) /\ disk'.board = disk.board
    BY <1>1, <1>3 DEF AcceptTap
  <2>2. q.seen.board = mem.board
    BY <1>3, AimedAt DEF AcceptTap
  <2>3. q.op \in Taps /\ \A i \in DOMAIN mem.board : mem.board[i] # q.op
    BY <2>2 DEF LandedInv, Fresh
  <2>4. Distinct(mem'.board)
    BY <1>1, <2>1, <2>3, DistinctAppend DEF OnceInv
  <2> QED
    BY <2>1, <2>4 DEF OnceInv
<1>4. ASSUME NEW q \in requests, AcceptReset(q)
      PROVE  FALSE
  BY <1>4, RevisionAssumption DEF AcceptReset, LandedInv, Fresh
<1>5. CASE \/ \E c \in Clients : (\E p \in Taps : PressPoint(c, p)) \/ PressReset(c)
           \/ \E c \in Clients : Receive(c) \/ Fail(c) \/ Deliver(c)
           \/ \E c \in Clients : Connect(c) \/ Disconnect(c) \/ Evict(c)
           \/ \E q \in requests : NotFound(q) \/ Conflict(q)
           \/ UNCHANGED vars
  <2>1. UNCHANGED <<mem, disk>>
    BY <1>5 DEF PressPoint, PressReset, Receive, ReceiveState, ReceiveConflict,
      ReceiveMissing, Fail, Deliver, Connect, Disconnect, Evict, NotFound, Conflict, vars
  <2> QED
    BY <1>2, <2>1
<1>6. CASE \/ Present \/ InitSnapshot \/ \E c \in Clients : Fetch(c) \/ Handshake(c)
  <2>1. mem.live /\ Refresh
    BY <1>6, TabParts DEF Present, InitSnapshot, Fetch, Handshake, Free, RevisionInv
  <2> QED
    BY <1>2, <2>1, RefreshNames
<1>7. CASE ClearLog \/ SaveBoard \/ Finish
  BY <1>1, <1>2, <1>7 DEF ClearLog, SaveBoard, Finish
<1>8. CASE Load
  BY <1>1, <1>2, <1>8 DEF Load
<1>9. CASE Crash \/ Expire
  BY <1>2, <1>9, TabParts, Unloaded
<1> QED
  BY <1>3, <1>4, <1>5, <1>6, <1>7, <1>8, <1>9 DEF Next, Serve, Work

\* A mutation is applied to the board its operator was looking at, whatever other
\* tabs sent, and wherever the process stopped, as long as nobody resets.
THEOREM MutationsLand ==
  ASSUME Fingerprinted = TRUE, MaxResets = 0
  PROVE  Spec => MutationsLandWhereAimed
<1> DEFINE Aimed == job = Idle /\ job' # Idle => mem.board = job'.req.seen.board
<1>1. TabInv /\ LandedInv /\ [Next]_vars => Aimed
  <2> SUFFICES ASSUME TabInv, LandedInv, [Next]_vars, job = Idle, job' # Idle
               PROVE  mem.board = job'.req.seen.board
    OBVIOUS
  <2>1. PICK q \in requests : AcceptTap(q) \/ AcceptReset(q)
    BY DEF Next, Serve, Work, PressPoint, PressReset, Receive, ReceiveState,
      ReceiveConflict, ReceiveMissing, Fail, Deliver, Fetch, Connect, Handshake, Disconnect,
      Evict, NotFound, Conflict, ClearLog, Present, SaveBoard, Finish, Load, InitSnapshot,
      Crash, Expire, server, vars, Idle
  <2>2. q.seen.board = mem.board
    BY <2>1, AimedAt DEF AcceptTap, AcceptReset
  <2>3. job'.req = q
    BY <2>1 DEF AcceptTap, AcceptReset
  <2> QED
    BY <2>2, <2>3
<1>2. TabInv /\ LandedInv /\ [Next]_vars => LandedInv'
  BY StepLanded
<1> QED
  BY <1>1, <1>2, InitTab, InitLanded, StepTab, PTL DEF Spec, MutationsLandWhereAimed

LEMMA DistinctOnce ==
  ASSUME NEW b \in Boards, NEW p, Distinct(b)
  PROVE  Times(p, b) <= 1
<1> DEFINE S == {i \in DOMAIN b : b[i] = p}
<1>1. \A i, j \in S : i = j
  BY DEF Distinct
<1>2. S = {} \/ \E i \in S : S = {i}
  BY <1>1
<1>3. CASE S = {}
  BY <1>3, FS_EmptySet DEF Times
<1>4. CASE \E i \in S : S = {i}
  BY <1>4, FS_Singleton DEF Times
<1> QED
  BY <1>2, <1>3, <1>4

\* A gesture counts once, however often its response was lost and the operator
\* tried again, and whenever the process restarted in between.
THEOREM GesturesCountOnce ==
  ASSUME Fingerprinted = TRUE, MaxResets = 0
  PROVE  Spec => []AtMostOnce
<1>1. TabInv /\ OnceInv => AtMostOnce
  <2> SUFFICES ASSUME TabInv, OnceInv, NEW p \in Taps
               PROVE  Times(p, mem.board) <= 1 /\ Times(p, disk.board) <= 1
    BY DEF AtMostOnce
  <2>1. mem.board \in Boards /\ disk.board \in Boards
    BY TabParts DEF RevisionInv, Shape
  <2> QED
    BY <2>1, DistinctOnce DEF OnceInv
<1>2. TabInv /\ LandedInv /\ [Next]_vars => LandedInv'
  BY StepLanded
<1>3. TabInv /\ LandedInv /\ OnceInv /\ [Next]_vars => OnceInv'
  BY StepOnce
<1> QED
  BY <1>1, <1>2, <1>3, InitTab, InitLanded, StepTab, PTL DEF Spec

-----------------------------------------------------------------------------
\* Points and their records.

LEMMA TimesAppend ==
  ASSUME NEW b \in Boards, NEW p \in Taps, NEW q \in Taps
  PROVE  Times(p, b) \in Nat /\ Times(p, <<>>) = 0
         /\ Times(p, Append(b, q)) = Times(p, b) + (IF p = q THEN 1 ELSE 0)
<1> DEFINE S == {i \in 1..Len(b) : b[i] = p}
           T == {i \in 1..Len(Append(b, q)) : Append(b, q)[i] = p}
<1>1. /\ Len(b) \in Nat /\ DOMAIN b = 1..Len(b) /\ Append(b, q) \in Boards
      /\ Len(Append(b, q)) = Len(b) + 1 /\ DOMAIN Append(b, q) = 1..Len(Append(b, q))
      /\ \A i \in 1..Len(b) : Append(b, q)[i] = b[i]
      /\ Append(b, q)[Len(b) + 1] = q
  BY DEF Boards
<1>2. Times(p, b) = Cardinality(S) /\ Times(p, Append(b, q)) = Cardinality(T)
  BY <1>1 DEF Times
<1>3. IsFiniteSet(S) /\ Cardinality(S) \in Nat /\ Len(b) + 1 \notin S
  <2>1. IsFiniteSet(1..Len(b))
    BY <1>1, FS_Interval
  <2>2. S \in SUBSET (1..Len(b)) /\ Len(b) + 1 \notin S
    BY <1>1
  <2> QED
    BY <2>1, <2>2, FS_Subset, FS_CardinalityType
<1>4. T = IF p = q THEN S \cup {Len(b) + 1} ELSE S
  BY <1>1
<1>5. Cardinality(S \cup {Len(b) + 1}) = Cardinality(S) + 1
  BY <1>3, FS_AddElement
<1>6. Times(p, <<>>) = 0
  <2>1. {i \in DOMAIN <<>> : <<>>[i] = p} = {}
    OBVIOUS
  <2> QED
    BY <2>1, FS_EmptySet DEF Times
<1> HIDE DEF S, T
<1> QED
  BY <1>2, <1>3, <1>4, <1>5, <1>6

LEMMA StepLogged ==
  ASSUME RevisionInv, TabShape, LoggedInv, [Next]_vars
  PROVE  LoggedInv'
<1> USE DEF server, screens, sockets
<1>1. /\ disk \in [board : Boards, log : Boards, rev : Nat, fp : Fingerprints]
      /\ mem \in [live : BOOLEAN, board : Boards, rev : Nat, fp : Fingerprints]
      /\ disk.log \in Boards /\ mem.board \in Boards /\ disk.board \in Boards
  BY DEF RevisionInv, Shape
<1>2. \A p \in Taps : /\ Times(p, disk.log) \in Nat /\ Times(p, <<>>) = 0
                      /\ Times(p, mem.board) \in Nat /\ Times(p, disk.board) \in Nat
  BY <1>1, TimesAppend
<1>3. ASSUME disk'.log = disk.log, mem'.board \in {mem.board, disk.board, <<>>},
             disk'.board \in {mem.board, disk.board, <<>>}, job'.stage # "blanked"
      PROVE  LoggedInv'
  BY <1>2, <1>3 DEF LoggedInv
<1>4. CASE \/ \E c \in Clients : (\E p \in Taps : PressPoint(c, p)) \/ PressReset(c)
           \/ \E c \in Clients : Receive(c) \/ Fail(c) \/ Deliver(c)
           \/ \E c \in Clients : Connect(c) \/ Disconnect(c) \/ Evict(c)
           \/ \E q \in requests : NotFound(q) \/ Conflict(q)
           \/ UNCHANGED vars
  <2>1. UNCHANGED <<mem, disk, job>>
    BY <1>4 DEF PressPoint, PressReset, Receive, ReceiveState, ReceiveConflict,
      ReceiveMissing, Fail, Deliver, Connect, Disconnect, Evict, NotFound, Conflict, vars
  <2> QED
    BY <2>1 DEF LoggedInv
<1>5. ASSUME NEW q \in requests, AcceptTap(q)
      PROVE  LoggedInv'
  <2>1. /\ mem'.board = Append(mem.board, q.op) /\ disk'.log = Append(disk.log, q.op)
        /\ disk'.board = disk.board /\ job'.stage = "logged" /\ q.op \in Taps
    BY <1>1, <1>5 DEF AcceptTap
  <2>2. ASSUME NEW p \in Taps
        PROVE  /\ Times(p, disk.board) <= Times(p, disk'.log)
               /\ Times(p, mem'.board) <= Times(p, disk'.log)
    <3> DEFINE more == IF p = q.op THEN 1 ELSE 0
    <3>1. /\ Times(p, disk'.log) = Times(p, disk.log) + more
          /\ Times(p, mem'.board) = Times(p, mem.board) + more
      BY SMTT(30), <1>1, <2>1, TimesAppend
    <3>2. more \in Nat
      OBVIOUS
    <3> HIDE DEF more
    <3> QED
      BY <1>2, <3>1, <3>2 DEF LoggedInv
  <2> QED
    BY <2>1, <2>2 DEF LoggedInv
<1>6. ASSUME NEW q \in requests, AcceptReset(q)
      PROVE  LoggedInv'
  <2>1. mem'.board = <<>> /\ disk'.board = <<>> /\ disk'.log = disk.log
    BY <1>1, <1>6 DEF AcceptReset
  <2> QED
    BY <1>2, <2>1 DEF LoggedInv
<1>7. CASE ClearLog
  <2>1. mem.board = <<>> /\ disk.board = <<>>
    BY <1>7 DEF ClearLog, LoggedInv
  <2>2. mem' = mem /\ disk'.board = <<>> /\ disk'.log = <<>>
    BY <1>1, <1>7, <2>1 DEF ClearLog
  <2> QED
    BY <1>2, <2>1, <2>2 DEF LoggedInv
<1>8. CASE Present \/ SaveBoard
  <2>1. disk'.log = disk.log /\ mem'.board = mem.board
        /\ disk'.board \in {mem.board, disk.board}
    BY <1>1, <1>8 DEF Present, SaveBoard, Refresh
  <2>2. job.stage \in {"logged", "presented"}
    BY <1>8 DEF Present, SaveBoard
  <2>3. job' \in {[job EXCEPT !.stage = "presented"], [job EXCEPT !.stage = "saved"]}
    BY <1>8 DEF Present, SaveBoard
  <2>4. job'.stage # "blanked"
    BY <2>2, <2>3 DEF TabShape, Job, Idle
  <2> QED
    BY <1>3, <2>1, <2>4
<1>9. CASE Finish
  BY <1>1, <1>3, <1>9 DEF Finish, Idle
<1>10. CASE InitSnapshot \/ \E c \in Clients : Fetch(c) \/ Handshake(c)
  <2>1. Refresh /\ job' = Idle
    BY <1>10 DEF InitSnapshot, Fetch, Handshake, Free
  <2>2. disk'.log = disk.log /\ mem'.board = mem.board /\ disk'.board = disk.board
    BY <1>1, <2>1 DEF Refresh
  <2> QED
    BY <1>3, <2>1, <2>2 DEF Idle
<1>11. CASE Load
  <2>1. job.stage # "blanked"
    BY <1>11 DEF Load, RevisionInv
  <2> QED
    BY <1>1, <1>3, <1>11, <2>1 DEF Load
<1>12. CASE Crash \/ Expire
  BY <1>3, <1>12, Unloaded DEF Idle
<1> QED
  BY <1>4, <1>5, <1>6, <1>7, <1>8, <1>9, <1>10, <1>11, <1>12 DEF Next, Serve, Work

\* A point on the saved board has its record in the log, resets and restarts between
\* any two writes included: undo finds it in the next process.
THEOREM SavedPointsHaveRecords == Spec => []SavedPointsAreLogged
<1>1. Init => LoggedInv
  <2> SUFFICES ASSUME Init, NEW p \in Taps PROVE Times(p, <<>>) <= Times(p, <<>>)
    BY DEF Init, LoggedInv, Idle
  <2>1. Times(p, <<>>) = 0
    BY BlankBoard, TimesAppend
  <2> QED
    BY <2>1
<1>2. LoggedInv => SavedPointsAreLogged
  BY DEF LoggedInv, SavedPointsAreLogged
<1>3. RevisionInv /\ TabShape /\ LoggedInv /\ [Next]_vars => TabShape' /\ LoggedInv'
  BY StepTabShape, StepLogged
<1> QED
  BY <1>1, <1>2, <1>3, InitTabShape, InitRevision, StepRevision, PTL DEF Spec

-----------------------------------------------------------------------------
(* Presses: what came of each, and what the hook of its button remembers *)

\* What a handler makes of a tap.
Neutral == {"void", "asked", "replaced", "sent", "closed"}
Fates == Neutral \cup {"down", "waiting", "half", "undo", "long", "cancelled", "overlaid", "unmounted"}
Ways == {"plain", "beside", "loose"}
PressRecords == [button : Buttons \cup {None}, way : Ways, fate : Fates, strayed : BOOLEAN]
Hooks == [press : Nat \cup {None}, long : BOOLEAN, since : 0..DoubleTap, pending : BOOLEAN,
          single : Nat \cup {None}]
TapTimers == [button : Buttons, press : Nat, left : 0..DoubleTap, mounted : BOOLEAN]

TapShape ==
  /\ hooks \in [Buttons -> Hooks]
  /\ grips = [b \in Buttons |-> grips[b]]
  /\ timers \subseteq TapTimers
  /\ presses \in Seq(PressRecords)
  /\ picker \in Pickers \cup {None}

\* The presses of a button, and the last of them.
Own(b) == {i \in DOMAIN presses : presses[i].button = b}
Latest(b, i) == i \in Own(b) /\ \A j \in Own(b) : j <= i

\* The press before the second of two taps, and the press after a first.
Paired(i) == \E j \in DOMAIN presses :
  Follow(j, i) /\ (presses[j].fate \in {"half", "cancelled", "overlaid"} \/ j \in overtaken)
TakesUp(j) ==
  presses[j].fate \in {"undo", "long", "cancelled", "overlaid", "unmounted"} \/ presses[j].strayed
GaveWay(b, i) == \E j \in DOMAIN presses :
  Follow(i, j) /\ (TakesUp(j) \/ (presses[j].fate = "down" /\ hooks[b].pending))

\* Only the last press of a button can still be answered.
DownOf(b) == \A i \in Own(b) : presses[i].fate = "down" => Latest(b, i)

\* A press that has not become a tap.
Yielding(i) == presses[i].fate \in {"down", "cancelled", "overlaid"}

\* What the hook refers to: the last press, and a tap with a timer, since when there was no other tap.
HookOf(b) ==
  LET h == hooks[b] IN
  /\ h.press # None \/ h.pending => Down(b) # {}
  /\ h.pending => h.single = None /\ \E i \in Own(b) : Latest(b, i) /\ Paired(i)
  /\ h.single # None =>
       /\ Doubles(b)
       /\ \E t \in timers : t.button = b /\ t.press = h.single /\ t.mounted
       /\ \A j \in Own(b) : j > h.single => Yielding(j)

\* Each timer is of one tap that waits, and does not run out while a second one would be quick.
TimersOf(b) == \A t \in timers : t.button = b =>
  /\ t.press \in Own(b) /\ presses[t.press].fate = "waiting"
  /\ \A u \in timers : u.button = b /\ u.press = t.press => u = t
  /\ Latest(b, t.press) => hooks[b].since + t.left >= DoubleTap

WaitOf(b) == \A i \in Own(b) : presses[i].fate = "waiting" =>
  \E t \in timers : t.button = b /\ t.press = i

\* A press that is quick has one before it that the hook can take back, or has forgotten.
QuickOf(b) == Quick(b) => \E i \in Own(b) :
  /\ Latest(b, i)
  /\ Yielding(i) \/ (presses[i].fate = "waiting" /\ (hooks[b].single = i \/ i \in overtaken))

\* Of the two that make an undo.
PairsOf(b) == \A i \in Own(b) :
  /\ presses[i].fate = "undo" => Paired(i)
  /\ presses[i].fate = "half" => GaveWay(b, i)

\* Until a second hand comes, a button that is held has a press to answer, or a long one
\* behind it.
Shared(b) == "mouse" \in settings.hands \/ \E j \in Own(b) : presses[j].way = "beside"
LooseOf(b) ==
  /\ \A i \in Own(b) : presses[i].way = "loose" =>
       "mouse" \in settings.hands \/ \E j \in Own(b) : j < i /\ presses[j].way = "beside"
  /\ ~Shared(b) =>
       /\ \A x, y \in grips[b] : x = y
       /\ grips[b] # {} => hooks[b].long \/ Down(b) # {}

ButtonInv(b) ==
  DownOf(b) /\ HookOf(b) /\ TimersOf(b) /\ WaitOf(b) /\ QuickOf(b) /\ PairsOf(b) /\ LooseOf(b)

\* The shortcuts' presses are of no button.
PickerInv ==
  /\ \A i \in DOMAIN presses : presses[i].fate = "asked" <=> picker # None /\ picker.press = i
  /\ picker # None => picker.press \in DOMAIN presses
  /\ \A i \in DOMAIN presses :
       presses[i].button = None => presses[i].fate \in Neutral /\ presses[i].way = "plain"

TapInv == TapShape /\ PickerInv /\ \A b \in Buttons : ButtonInv(b)

LEMMA LeastNatural ==
  ASSUME NEW S, S \subseteq Nat, S # {}
  PROVE  \E m \in S : \A k \in S : m <= k
<1> DEFINE R == OpToRel(<, Nat)
<1>1. \A i, j \in Nat : i < j => <<i, j>> \in R
  BY DEF OpToRel
<1>2. IsWellFoundedOn(R, Nat)
  BY NatLessThanWellFounded
<1> HIDE DEF R
<1>3. PICK m \in S : \A k \in S : <<k, m>> \notin R
  BY <1>2, WFMin
<1>4. \A k \in S : ~(k < m)
  BY <1>1, <1>3
<1> QED
  BY <1>4

\* Presses are only added, each to the button it is of.
Grows ==
  /\ Len(presses) <= Len(presses')
  /\ \A i \in DOMAIN presses :
       presses'[i].button = presses[i].button /\ presses'[i].way = presses[i].way

LEMMA PressIndex == TapShape => DOMAIN presses = 1..Len(presses) /\ Len(presses) \in Nat
BY DEF TapShape

LEMMA PressAt ==
  ASSUME TapShape, NEW i \in DOMAIN presses
  PROVE  /\ presses[i] \in PressRecords
         /\ presses[i].button \in Buttons \cup {None}
         /\ presses[i].fate \in Fates /\ presses[i].strayed \in BOOLEAN
<1>1. presses[i] \in PressRecords
  BY DEF TapShape
<1> QED
  BY <1>1 DEF PressRecords

LEMMA GrowsDomain ==
  ASSUME TapShape, TapShape', Grows
  PROVE  DOMAIN presses \subseteq DOMAIN presses' /\ \A b : Own(b) \subseteq Own(b)'
<1>1. DOMAIN presses = 1..Len(presses) /\ Len(presses) \in Nat
  BY PressIndex
<1>2. DOMAIN presses' = 1..Len(presses') /\ Len(presses') \in Nat
  BY DEF TapShape
<1>3. DOMAIN presses \subseteq DOMAIN presses'
  BY <1>1, <1>2 DEF Grows
<1> QED
  BY <1>3 DEF Grows, Own

LEMMA OneLatest ==
  ASSUME TapShape, NEW b, NEW i, NEW j, Latest(b, i), Latest(b, j)
  PROVE  i = j
<1>1. i \in Nat /\ j \in Nat
  BY PressIndex DEF Latest, Own
<1>2. i <= j /\ j <= i
  BY DEF Latest
<1> QED
  BY <1>1, <1>2

\* The press that can be answered.
LEMMA DownIs ==
  ASSUME TapShape, NEW b, DownOf(b)
  PROVE  /\ Down(b) \subseteq Own(b)
         /\ \A i : i \in Down(b) <=> i \in Own(b) /\ presses[i].fate = "down"
         /\ \A i \in Down(b) : Latest(b, i)
         /\ \A i, j \in Down(b) : i = j
<1>1. \A i : i \in Down(b) <=> i \in Own(b) /\ presses[i].fate = "down"
  BY DEF Down, Own
<1>2. \A i \in Down(b) : Latest(b, i)
  BY <1>1 DEF DownOf
<1> QED
  BY <1>1, <1>2, OneLatest

LEMMA FollowKept ==
  ASSUME TapShape, TapShape', Grows, NEW i \in DOMAIN presses, NEW j \in DOMAIN presses, Follow(i, j)
  PROVE  Follow(i, j)'
<1>1. \A k \in (i + 1)..(j - 1) : k \in DOMAIN presses
  BY PressIndex
<1> QED
  BY <1>1 DEF Follow, Grows

\* The press of the button that comes next.
LEMMA NextPress ==
  ASSUME TapShape, NEW b, NEW i \in Own(b), NEW n \in Own(b), i < n
  PROVE  \E j \in Own(b) : Follow(i, j)
<1> DEFINE S == {j \in Own(b) : i < j}
<1>1. S \subseteq Nat /\ S # {} /\ i \in Nat
  BY PressIndex DEF Own
<1>2. PICK j \in S : \A k \in S : j <= k
  BY <1>1, LeastNatural
<1>3. \A k \in (i + 1)..(j - 1) : k \in DOMAIN presses /\ k \notin S /\ i < k
  BY <1>1, <1>2, PressIndex DEF Own
<1>4. \A k \in (i + 1)..(j - 1) : presses[k].button # b
  BY <1>3 DEF Own
<1>5. presses[i].button = b /\ presses[j].button = b /\ i < j
  BY <1>2 DEF Own
<1>6. Follow(i, j)
  BY <1>4, <1>5 DEF Follow
<1> QED
  BY <1>2, <1>6

LEMMA FollowOwn ==
  ASSUME TapShape, NEW b, NEW i \in DOMAIN presses, NEW j \in DOMAIN presses, Follow(i, j)
  PROVE  /\ i \in Own(b) <=> j \in Own(b)
         /\ ~Latest(b, i)
<1>1. i < j /\ presses[i].button = presses[j].button
  BY DEF Follow
<1>2. ~(j <= i)
  BY <1>1, PressIndex
<1> QED
  BY <1>1, <1>2 DEF Own, Latest

\* Older presses keep what they owe to one another.
Steady(b) ==
  /\ overtaken \subseteq overtaken'
  /\ \A i \in Own(b) :
       /\ presses[i].fate \in {"half", "undo", "long", "cancelled", "overlaid", "unmounted"} =>
            presses'[i].fate = presses[i].fate
       /\ presses[i].strayed => presses'[i].strayed

LEMMA PairedKept ==
  ASSUME TapShape, TapShape', Grows, NEW b, Steady(b), NEW i \in Own(b), Paired(i)
  PROVE  Paired(i)'
<1>1. PICK j \in DOMAIN presses :
        Follow(j, i) /\ (presses[j].fate \in {"half", "cancelled", "overlaid"} \/ j \in overtaken)
  BY DEF Paired
<1>2. i \in DOMAIN presses
  BY DEF Own
<1>3. j \in Own(b) /\ ~Latest(b, j)
  BY <1>1, <1>2, FollowOwn
<1>4. Follow(j, i)'
  BY <1>1, <1>2, FollowKept
<1>5. presses'[j].fate \in {"half", "cancelled", "overlaid"} \/ j \in overtaken'
  BY <1>1, <1>3 DEF Steady
<1>6. j \in DOMAIN presses'
  BY GrowsDomain
<1> QED
  BY <1>4, <1>5, <1>6 DEF Paired

\* A hand that lets go leaves what is owed to the others; a second one excuses them all.
LEMMA LooseKept ==
  ASSUME TapShape, TapShape', Grows, NEW b, LooseOf(b), settings' = settings,
         \A k \in Own(b)' \ Own(b) : presses'[k].way # "loose" \/ Shared(b),
         \A k \in Own(b)' \ Own(b) : \A j \in Own(b) : j < k,
         Shared(b)' \/ grips'[b] \subseteq grips[b] \/ \A x, y \in grips'[b] : x = y,
         Shared(b)' \/ grips'[b] = {} \/ hooks'[b].long \/ Down(b)' # {}
  PROVE  LooseOf(b)'
<1>1. Own(b) \subseteq Own(b)'
  BY GrowsDomain
<1>2. \A k \in Own(b) : presses'[k].way = presses[k].way
  BY DEF Grows, Own
<1>3. ASSUME NEW k \in Own(b)', presses'[k].way = "loose"
      PROVE  "mouse" \in settings.hands \/ \E j \in Own(b)' : j < k /\ presses'[j].way = "beside"
  <2>1. CASE k \in Own(b)
    BY <1>1, <1>2, <1>3, <2>1 DEF LooseOf
  <2>2. CASE k \notin Own(b)
    BY <1>1, <1>2, <1>3, <2>2 DEF Shared
  <2> QED
    BY <2>1, <2>2
<1>4. Shared(b) => Shared(b)'
  BY <1>1, <1>2 DEF Shared
<1>5. ~Shared(b)' => \A x, y \in grips'[b] : x = y
  BY <1>4 DEF LooseOf
<1> QED
  BY <1>3, <1>5 DEF LooseOf

LEMMA TakesUpKept ==
  ASSUME NEW b, Steady(b), NEW j \in Own(b), TakesUp(j)
  PROVE  TakesUp(j)'
BY DEF TakesUp, Steady

-----------------------------------------------------------------------------
\* What a step on one button leaves of another.
Alike(b) ==
  /\ Own(b)' = Own(b)
  /\ overtaken \subseteq overtaken'
  /\ \A i \in Own(b) :
       /\ presses'[i].strayed = presses[i].strayed
       /\ \/ presses'[i].fate = presses[i].fate
          \/ presses'[i].fate \in Neutral /\ presses[i].fate \in Neutral

LeftAlone(b) ==
  /\ hooks'[b] = hooks[b]
  /\ grips'[b] = grips[b]
  /\ settings' = settings
  /\ {t \in timers' : t.button = b} = {t \in timers : t.button = b}
  /\ Alike(b)

LEMMA OthersKeep ==
  ASSUME TapShape, TapShape', Grows, NEW b, LeftAlone(b), ButtonInv(b)
  PROVE  ButtonInv(b)'
<1>1. \A i : Latest(b, i)' <=> Latest(b, i)
  BY DEF Latest, LeftAlone, Alike
<1>2. \A t : t.button = b => (t \in timers' <=> t \in timers)
  BY DEF LeftAlone
<1>3. \A i \in Own(b) : \A f \in Fates \ Neutral : presses'[i].fate = f <=> presses[i].fate = f
  BY DEF LeftAlone, Alike, Fates
<1>4. Steady(b)
  BY <1>3 DEF Steady, LeftAlone, Alike, Fates, Neutral
<1>5. \A i \in Own(b) : Paired(i) => Paired(i)'
  BY <1>4, PairedKept
<1>6. Own(b)' = Own(b) /\ hooks'[b] = hooks[b] /\ grips'[b] = grips[b]
      /\ overtaken \subseteq overtaken'
  BY DEF LeftAlone, Alike
<1>7. \A i \in Own(b) : Yielding(i)' <=> Yielding(i)
  BY <1>3 DEF Yielding, Fates, Neutral
<1>8. \A i \in Own(b) : \A f \in {"down", "long", "waiting", "undo", "half"} :
        presses'[i].fate = f <=> presses[i].fate = f
  BY <1>3 DEF Fates, Neutral
<1>9. \A i : Latest(b, i) => i \in Own(b)
  BY DEF Latest
<1>10. DownOf(b)' /\ (Down(b)' = Down(b))
  <2>1. DownOf(b)'
    BY <1>1, <1>6, <1>8 DEF ButtonInv, DownOf
  <2>2. \A c, i : i \in Down(c) <=> i \in Own(c) /\ presses[i].fate = "down"
    BY DEF Down, Own
  <2>3. \A i : i \in Down(b)' <=> i \in Own(b)' /\ presses'[i].fate = "down"
    BY DEF Down, Own
  <2> QED
    BY <1>6, <1>8, <2>1, <2>2, <2>3
<1>11. HookOf(b)'
  <2>1. HookOf(b)
    BY DEF ButtonInv
  <2>2. hooks'[b].press # None \/ hooks'[b].pending => Down(b)' # {}
    BY <2>1, <1>6, <1>10 DEF HookOf
  <2>3. hooks'[b].pending => hooks'[b].single = None /\ \E i \in Own(b)' : Latest(b, i)' /\ Paired(i)'
    BY <2>1, <1>1, <1>5, <1>6 DEF HookOf
  <2>4. hooks'[b].single # None =>
          /\ Doubles(b)
          /\ \E t \in timers' : t.button = b /\ t.press = hooks'[b].single /\ t.mounted
          /\ \A j \in Own(b)' : j > hooks'[b].single => Yielding(j)'
    BY <2>1, <1>2, <1>6, <1>7 DEF HookOf
  <2> QED
    BY <2>2, <2>3, <2>4 DEF HookOf
<1>12. TimersOf(b)'
  BY <1>1, <1>2, <1>6, <1>8 DEF ButtonInv, TimersOf
<1>13. WaitOf(b)'
  BY <1>2, <1>6, <1>8 DEF ButtonInv, WaitOf
<1>14. QuickOf(b)'
  BY <1>1, <1>6, <1>7, <1>8 DEF ButtonInv, QuickOf, Quick
<1>15. PairsOf(b)'
  <2>1. ASSUME NEW i \in Own(b), GaveWay(b, i) PROVE GaveWay(b, i)'
    <3>1. PICK j \in DOMAIN presses :
            Follow(i, j) /\ (TakesUp(j) \/ (presses[j].fate = "down" /\ hooks[b].pending))
      BY <2>1 DEF GaveWay
    <3>2. i \in DOMAIN presses
      BY DEF Own
    <3>3. j \in Own(b) /\ Follow(i, j)' /\ j \in DOMAIN presses'
      BY <3>1, <3>2, FollowOwn, FollowKept, GrowsDomain
    <3>4. TakesUp(j) => TakesUp(j)'
      BY <3>3, <1>4, TakesUpKept
    <3> QED
      BY <3>1, <3>3, <3>4, <1>6, <1>8 DEF GaveWay
  <2> QED
    BY <2>1, <1>5, <1>6, <1>8 DEF ButtonInv, PairsOf
<1>16. LooseOf(b)'
  <2>1. LooseOf(b)
    BY DEF ButtonInv
  <2>2. grips[b] # {} => Shared(b) \/ hooks[b].long \/ Down(b) # {}
    BY <2>1 DEF LooseOf
  <2>3. Shared(b) => Shared(b)'
    BY <1>6 DEF Shared, LeftAlone, Own, Grows
  <2> QED
    BY <1>6, <1>10, <2>1, <2>2, <2>3, LooseKept DEF LeftAlone
<1> QED
  BY <1>10, <1>11, <1>12, <1>13, <1>14, <1>15, <1>16 DEF ButtonInv

-----------------------------------------------------------------------------
\* What is written of a press.

\* Two histories of the same presses, but for what came of the one and of the others.
SamePresses(ps, qs) ==
  /\ Len(qs) = Len(ps)
  /\ \A k \in DOMAIN ps :
       qs[k].button = ps[k].button /\ qs[k].way = ps[k].way /\ qs[k].strayed = ps[k].strayed

LEMMA MarkIs ==
  ASSUME NEW ps \in Seq(PressRecords), NEW i, NEW f \in Fates
  PROVE  /\ Mark(ps, i, f) \in Seq(PressRecords)
         /\ SamePresses(ps, Mark(ps, i, f))
         /\ \A k \in DOMAIN ps : Mark(ps, i, f)[k].fate = IF k = i THEN f ELSE ps[k].fate
<1>1. DOMAIN ps = 1..Len(ps) /\ Len(ps) \in Nat /\ \A k \in 1..Len(ps) : ps[k] \in PressRecords
  OBVIOUS
<1>2. CASE i \notin DOMAIN ps
  <2>1. Mark(ps, i, f) = ps
    BY <1>2 DEF Mark
  <2> QED
    BY <2>1, <1>2 DEF SamePresses
<1>3. CASE i \in DOMAIN ps
  <2> DEFINE r == [ps[i] EXCEPT !.fate = f]
  <2>1. r \in PressRecords /\ r.button = ps[i].button /\ r.way = ps[i].way
        /\ r.strayed = ps[i].strayed /\ r.fate = f
    BY <1>1, <1>3 DEF PressRecords
  <2>2. Mark(ps, i, f) = [ps EXCEPT ![i] = r]
    BY <1>3 DEF Mark
  <2> HIDE DEF r
  <2>3. [ps EXCEPT ![i] = r] \in Seq(PressRecords) /\ Len([ps EXCEPT ![i] = r]) = Len(ps)
    BY <1>1, <1>3, <2>1
  <2>4. \A k \in DOMAIN ps : [ps EXCEPT ![i] = r][k] = IF k = i THEN r ELSE ps[k]
    BY <1>1, <1>3
  <2> QED
    BY <2>1, <2>2, <2>3, <2>4 DEF SamePresses
<1> QED
  BY <1>2, <1>3

LEMMA ResolveIs ==
  ASSUME TapShape, NEW b, NEW f \in Fates
  PROVE  /\ Resolve(b, f) \in Seq(PressRecords)
         /\ SamePresses(presses, Resolve(b, f))
         /\ \A k \in DOMAIN presses :
              Resolve(b, f)[k].fate = IF k \in Down(b) THEN f ELSE presses[k].fate
<1>1. DOMAIN presses = 1..Len(presses) /\ Len(presses) \in Nat
  BY PressIndex
<1> PICK qs : qs = Resolve(b, f)
  OBVIOUS
<1>2. qs = [i \in DOMAIN presses |-> IF i \in Down(b) THEN [presses[i] EXCEPT !.fate = f] ELSE presses[i]]
  BY DEF Resolve
<1>3. ASSUME NEW k \in DOMAIN presses
      PROVE  /\ qs[k] \in PressRecords /\ qs[k].button = presses[k].button
             /\ qs[k].way = presses[k].way /\ qs[k].strayed = presses[k].strayed
             /\ qs[k].fate = IF k \in Down(b) THEN f ELSE presses[k].fate
  <2>1. presses[k] \in PressRecords
    BY PressAt
  <2>2. qs[k] = IF k \in Down(b) THEN [presses[k] EXCEPT !.fate = f] ELSE presses[k]
    BY <1>2
  <2> QED
    BY <2>1, <2>2 DEF PressRecords
<1>4. DOMAIN qs = 1..Len(presses) /\ qs \in [1..Len(presses) -> PressRecords]
  BY <1>1, <1>2, <1>3
<1>5. qs \in Seq(PressRecords) /\ Len(qs) = Len(presses)
  BY <1>1, <1>4
<1> QED
  BY <1>3, <1>5 DEF SamePresses

\* One history is another and one press more, of a hand that is down.
Came(ps, qs, b, w) ==
  LET n == Len(ps) + 1
  IN /\ qs \in Seq(PressRecords) /\ Len(qs) = n /\ DOMAIN qs = 1..n
     /\ n \in Nat /\ n \in DOMAIN qs /\ n \notin DOMAIN ps
     /\ \A k \in DOMAIN ps : k \in DOMAIN qs /\ k < n /\ qs[k] = ps[k]
     /\ \A k \in DOMAIN qs : k \in DOMAIN ps \/ k = n
     /\ qs[n].button = b /\ qs[n].way = w /\ qs[n].fate = "down" /\ qs[n].strayed = FALSE

LEMMA ComesIs ==
  ASSUME NEW ps \in Seq(PressRecords), NEW b \in Buttons \cup {None}, NEW w \in Ways
  PROVE  Came(ps, Comes(ps, b, w), b, w)
<1> DEFINE r == [button |-> b, way |-> w, fate |-> "down", strayed |-> FALSE]
<1> DEFINE n == Len(ps) + 1
<1>1. r \in PressRecords /\ r.button = b /\ r.way = w /\ r.fate = "down" /\ r.strayed = FALSE
  BY DEF PressRecords, Fates
<1>2. Comes(ps, b, w) = Append(ps, r)
  BY DEF Comes
<1>3. DOMAIN ps = 1..Len(ps) /\ Len(ps) \in Nat
  OBVIOUS
<1> HIDE DEF r
<1>4. Append(ps, r) \in Seq(PressRecords) /\ Len(Append(ps, r)) = n /\ DOMAIN Append(ps, r) = 1..n
  BY <1>1, <1>3
<1>5. \A k \in DOMAIN ps : k \in 1..n /\ k < n /\ Append(ps, r)[k] = ps[k]
  BY <1>3
<1>6. Append(ps, r)[n] = r
  BY <1>3
<1>7. n \in Nat /\ n \in 1..n /\ n \notin DOMAIN ps /\ \A k \in 1..n : k \in DOMAIN ps \/ k = n
  BY <1>3
<1> QED
  BY <1>1, <1>2, <1>4, <1>5, <1>6, <1>7 DEF Came

\* The presses that the point-type picker asks about.
PicksOf(ps, p) ==
  /\ \A k \in DOMAIN ps : ps[k].fate = "asked" <=> p # None /\ p.press = k
  /\ p # None => p.press \in DOMAIN ps

\* Of one press a handler made something; the one asked about was given up for it.
Handled(ps, qs, i) ==
  /\ qs \in Seq(PressRecords)
  /\ SamePresses(ps, qs)
  /\ qs[i].fate \in Neutral
  /\ \A k \in DOMAIN ps : k # i =>
       qs[k].fate = ps[k].fate \/ (qs[k].fate \in Neutral /\ ps[k].fate \in Neutral)

LEMMA TappedIs ==
  ASSUME TapShape, NEW b \in Buttons, NEW ps \in Seq(PressRecords), NEW i \in DOMAIN ps,
         ps[i].fate # "asked", PicksOf(ps, picker), Tapped(b, i, ps)
  PROVE  /\ Handled(ps, presses', i)
         /\ PicksOf(presses', picker')
         /\ picker' \in Pickers \cup {None}
<1>1. DOMAIN ps = 1..Len(ps) /\ Len(ps) \in Nat /\ i \in Nat
  OBVIOUS
<1>2. "void" \in Fates /\ "asked" \in Fates /\ "replaced" \in Fates /\ "sent" \in Fates
  BY DEF Fates, Neutral
<1>3. ASSUME NEW f \in {"void", "sent"}, presses' = Mark(ps, i, f), picker' = picker
      PROVE  /\ Handled(ps, presses', i)
             /\ PicksOf(presses', picker')
             /\ picker' \in Pickers \cup {None}
  <2>1. /\ presses' \in Seq(PressRecords)
        /\ SamePresses(ps, presses')
        /\ \A k \in DOMAIN ps : presses'[k].fate = IF k = i THEN f ELSE ps[k].fate
    BY <1>2, <1>3, MarkIs
  <2>2. DOMAIN presses' = DOMAIN ps
    BY <1>1, <2>1 DEF SamePresses
  <2>3. Handled(ps, presses', i)
    BY <2>1 DEF Handled, Neutral
  <2>4. PicksOf(presses', picker')
    BY <2>1, <2>2, <1>3 DEF PicksOf
  <2> QED
    BY <2>3, <2>4, <1>3 DEF TapShape
<1>4. CASE picker = None /\ presses' = Mark(ps, i, "asked") /\ picker' = [team |-> b[1], press |-> i, step |-> "main"]
  <2>1. /\ presses' \in Seq(PressRecords)
        /\ SamePresses(ps, presses')
        /\ \A k \in DOMAIN ps : presses'[k].fate = IF k = i THEN "asked" ELSE ps[k].fate
    BY <1>2, <1>4, MarkIs
  <2>2. DOMAIN presses' = DOMAIN ps
    BY <1>1, <2>1 DEF SamePresses
  <2>3. Handled(ps, presses', i)
    BY <2>1 DEF Handled, Neutral
  <2>4. picker' \in Pickers /\ picker'.press = i
    BY <1>1, <1>4 DEF Pickers
  <2>5. picker' # None
    BY <2>4, ControlsAssumption
  <2>6. PicksOf(presses', picker')
    BY <2>1, <2>2, <2>4, <2>5, <1>4 DEF PicksOf
  <2> QED
    BY <2>3, <2>4, <2>6
<1>5. CASE /\ picker # None /\ presses' = Mark(Mark(ps, picker.press, "replaced"), i, "asked")
           /\ picker' = [team |-> b[1], press |-> i, step |-> picker.step]
  <2> DEFINE qs == Mark(ps, picker.press, "replaced")
  <2>1. /\ qs \in Seq(PressRecords)
        /\ SamePresses(ps, qs)
        /\ \A k \in DOMAIN ps : qs[k].fate = IF k = picker.press THEN "replaced" ELSE ps[k].fate
    BY <1>2, MarkIs
  <2> HIDE DEF qs
  <2>2. DOMAIN qs = DOMAIN ps
    BY <1>1, <2>1 DEF SamePresses
  <2>3. presses' = Mark(qs, i, "asked")
    BY <1>5 DEF qs
  <2>4. /\ presses' \in Seq(PressRecords)
        /\ SamePresses(qs, presses')
        /\ \A k \in DOMAIN qs : presses'[k].fate = IF k = i THEN "asked" ELSE qs[k].fate
    BY <1>2, <2>1, <2>3, MarkIs
  <2>5. DOMAIN presses' = DOMAIN ps /\ SamePresses(ps, presses')
    BY <1>1, <2>1, <2>2, <2>4 DEF SamePresses
  <2>6. ps[picker.press].fate = "asked" /\ picker.press \in DOMAIN ps
    BY <1>5 DEF PicksOf
  <2>7. Handled(ps, presses', i)
    BY <2>1, <2>2, <2>4, <2>5, <2>6 DEF Handled, Neutral
  <2>8. picker \in Pickers
    BY <1>5 DEF TapShape
  <2>9. picker' \in Pickers /\ picker'.press = i
    BY <1>1, <1>5, <2>8 DEF Pickers
  <2>10. picker' # None
    BY <2>9, ControlsAssumption
  <2>11. PicksOf(presses', picker')
    BY <2>1, <2>2, <2>4, <2>5, <2>6, <2>9, <2>10, <1>5 DEF PicksOf
  <2> QED
    BY <2>7, <2>9, <2>11
<1> QED
  BY <1>3, <1>4, <1>5 DEF Tapped

-----------------------------------------------------------------------------
\* A step on one button.

LEMMA GaveKept ==
  ASSUME TapShape, TapShape', Grows, NEW b, Steady(b), NEW i \in Own(b), GaveWay(b, i),
         \A j \in Own(b) : presses[j].fate = "down" /\ hooks[b].pending =>
           TakesUp(j)' \/ (presses'[j].fate = "down" /\ hooks'[b].pending)
  PROVE  GaveWay(b, i)'
<1>1. PICK j \in DOMAIN presses :
        Follow(i, j) /\ (TakesUp(j) \/ (presses[j].fate = "down" /\ hooks[b].pending))
  BY DEF GaveWay
<1>2. i \in DOMAIN presses
  BY DEF Own
<1>3. j \in Own(b) /\ Follow(i, j)' /\ j \in DOMAIN presses'
  BY <1>1, <1>2, FollowOwn, FollowKept, GrowsDomain
<1>4. TakesUp(j) => TakesUp(j)'
  BY <1>3, TakesUpKept
<1> QED
  BY <1>1, <1>3, <1>4 DEF GaveWay

\* What it does to the presses of others.
Spares(b) ==
  /\ overtaken \subseteq overtaken'
  /\ \A k \in DOMAIN presses' \ DOMAIN presses : presses'[k].button \in {b, None}
  /\ \A k \in DOMAIN presses \ Own(b) :
       /\ presses'[k].strayed = presses[k].strayed
       /\ \/ presses'[k].fate = presses[k].fate
          \/ presses'[k].fate \in Neutral /\ presses[k].fate \in Neutral

\* And to their hooks.
Leaves(b) == \A c \in Buttons \ {b} :
  /\ hooks'[c] = hooks[c]
  /\ grips'[c] = grips[c]
  /\ settings' = settings
  /\ \A t : t.button = c => (t \in timers' <=> t \in timers)

LEMMA OthersOf ==
  ASSUME TapInv, TapShape', Grows, NEW b \in Buttons \cup {None}, Spares(b), Leaves(b)
  PROVE  \A c \in Buttons \ {b} : ButtonInv(c)'
<1> SUFFICES ASSUME NEW c \in Buttons, c # b PROVE ButtonInv(c)'
  OBVIOUS
<1>1. TapShape /\ ButtonInv(c)
  BY DEF TapInv
<1>2. c # None
  BY ControlsAssumption
<1>3. Own(c)' = Own(c)
  <2>1. Own(c) \subseteq Own(c)'
    BY <1>1, GrowsDomain
  <2>2. ASSUME NEW k \in Own(c)' PROVE k \in Own(c)
    <3>1. k \in DOMAIN presses' /\ presses'[k].button = c
      BY <2>2 DEF Own
    <3>2. k \in DOMAIN presses
      BY <3>1, <1>2 DEF Spares
    <3> QED
      BY <3>1, <3>2 DEF Own, Grows
  <2> QED
    BY <2>1, <2>2
<1>4. \A k \in Own(c) : k \in DOMAIN presses \ Own(b)
  BY DEF Own
<1>5. Alike(c)
  BY <1>3, <1>4 DEF Alike, Spares
<1>6. {t \in timers' : t.button = c} = {t \in timers : t.button = c}
  BY DEF Leaves
<1>7. LeftAlone(c)
  BY <1>5, <1>6 DEF LeftAlone, Leaves
<1> QED
  BY <1>1, <1>7, OthersKeep

\* beginPress, of which the presses are told.
LEMMA BeginIs ==
  ASSUME TapInv, NEW b \in Buttons, NEW q \in Haste(b), Begin(b, q)
  PROVE  LET n == Len(presses) + 1
             cleared == {t \in timers : q /\ t.mounted /\ t.button = b /\ t.press = hooks[b].single}
         IN /\ presses' \in Seq(PressRecords) /\ Len(presses') = n
            /\ DOMAIN presses' = DOMAIN presses \cup {n} /\ n \notin DOMAIN presses /\ n \in Nat
            /\ presses'[n].button = b /\ presses'[n].fate = "down" /\ ~presses'[n].strayed
            /\ presses'[n].way = IF grips[b] = {} THEN "plain" ELSE "beside"
            /\ \A k \in DOMAIN presses :
                 /\ k \in DOMAIN presses' /\ k < n
                 /\ presses'[k].button = presses[k].button /\ presses'[k].way = presses[k].way
                 /\ presses'[k].strayed = presses[k].strayed
                 /\ presses'[k].fate = IF k \in Down(b) THEN "overlaid"
                                       ELSE IF cleared # {} /\ k = hooks[b].single THEN "half"
                                       ELSE presses[k].fate
<1> DEFINE n == Len(presses) + 1
<1> DEFINE s == hooks[b].single
<1> DEFINE cleared == {t \in timers : q /\ t.mounted /\ t.button = b /\ t.press = s}
<1> DEFINE w == IF grips[b] = {} THEN "plain" ELSE "beside"
<1> PICK ps : ps = Resolve(b, "overlaid")
  OBVIOUS
<1>1. TapShape
  BY DEF TapInv
<1>2. Len(presses) \in Nat /\ DOMAIN presses = 1..Len(presses)
  BY <1>1, PressIndex
<1>3. "overlaid" \in Fates /\ "half" \in Fates
  BY DEF Fates
<1>4. /\ ps \in Seq(PressRecords) /\ SamePresses(presses, ps)
      /\ \A k \in DOMAIN presses :
           ps[k].fate = IF k \in Down(b) THEN "overlaid" ELSE presses[k].fate
  BY <1>1, <1>3, ResolveIs
<1>5. Len(ps) = Len(presses) /\ DOMAIN ps = DOMAIN presses
  BY <1>2, <1>4 DEF SamePresses
<1>6. w \in Ways
  BY DEF Ways
<1>7. Begun(b) = Comes(ps, b, w)
  BY DEF Begun
<1>8. /\ Begun(b) \in Seq(PressRecords) /\ Len(Begun(b)) = n /\ DOMAIN Begun(b) = 1..n
      /\ n \in Nat /\ n \in DOMAIN Begun(b) /\ n \notin DOMAIN presses
      /\ \A k \in DOMAIN presses : k \in DOMAIN Begun(b) /\ k < n /\ Begun(b)[k] = ps[k]
      /\ \A k \in DOMAIN Begun(b) : k \in DOMAIN presses \/ k = n
      /\ Begun(b)[n].button = b /\ Begun(b)[n].way = w
      /\ Begun(b)[n].fate = "down" /\ Begun(b)[n].strayed = FALSE
  <2>1. b \in Buttons \cup {None}
    OBVIOUS
  <2>2. Came(ps, Begun(b), b, w)
    <3> HIDE DEF w
    <3> QED
      BY <1>4, <1>6, <1>7, <2>1, ComesIs
  <2> HIDE DEF w
  <2> QED
    BY <1>5, <2>2 DEF Came
<1>9. cleared = {} => presses' = Begun(b)
  BY DEF Begin
<1>10. cleared # {} => presses' = Mark(Begun(b), s, "half")
  BY DEF Begin
<1>11. cleared # {} => s \in DOMAIN presses /\ s \notin Down(b)
  <2>1. cleared # {} => s \in Own(b) /\ presses[s].fate = "waiting"
    BY DEF TapInv, ButtonInv, TimersOf
  <2> QED
    BY <2>1 DEF Down, Own
<1> HIDE DEF n, s, cleared, w
<1>12. \A k \in DOMAIN presses :
         /\ Begun(b)[k].button = presses[k].button /\ Begun(b)[k].way = presses[k].way
         /\ Begun(b)[k].strayed = presses[k].strayed
         /\ Begun(b)[k].fate = IF k \in Down(b) THEN "overlaid" ELSE presses[k].fate
  BY <1>4, <1>8 DEF SamePresses
<1>13. DOMAIN Begun(b) = DOMAIN presses \cup {n}
  BY <1>8
<1>14. CASE cleared = {}
  BY <1>8, <1>9, <1>12, <1>13, <1>14 DEF n, s, cleared, w
<1>15. CASE cleared # {}
  <2>1. /\ presses' \in Seq(PressRecords)
        /\ SamePresses(Begun(b), presses')
        /\ \A k \in DOMAIN Begun(b) : presses'[k].fate = IF k = s THEN "half" ELSE Begun(b)[k].fate
    BY <1>3, <1>8, <1>10, <1>15, MarkIs
  <2>2. Len(presses') = n /\ DOMAIN presses' = 1..n
    BY <2>1, <1>8 DEF SamePresses
  <2>3. n # s
    BY <1>8, <1>11, <1>15
  <2>4. /\ presses'[n].button = b /\ presses'[n].fate = "down" /\ ~presses'[n].strayed
        /\ presses'[n].way = w
    BY <1>8, <2>1, <2>3 DEF SamePresses
  <2>5. \A k \in DOMAIN presses :
          /\ k \in DOMAIN presses'
          /\ presses'[k].button = presses[k].button /\ presses'[k].way = presses[k].way
          /\ presses'[k].strayed = presses[k].strayed
          /\ presses'[k].fate = IF k \in Down(b) THEN "overlaid" ELSE IF k = s THEN "half" ELSE presses[k].fate
    BY <1>8, <1>11, <1>12, <1>15, <2>1, <2>2 DEF SamePresses
  <2> QED
    BY <1>8, <1>13, <1>15, <2>1, <2>2, <2>4, <2>5 DEF n, s, cleared, w
<1> QED
  BY <1>14, <1>15

LEMMA BeginKeeps ==
  ASSUME TapInv, NEW b \in Buttons, NEW q \in Haste(b), Begin(b, q), NEW hand,
         Takes(b, hand), UNCHANGED <<settings, picker, overtaken>>
  PROVE  TapInv'
<1> PICK n : n = Len(presses) + 1
  OBVIOUS
<1> PICK s : s = hooks[b].single
  OBVIOUS
<1> DEFINE cleared == {t \in timers : q /\ t.mounted /\ t.button = b /\ t.press = s}
<1> DEFINE halved(k) == cleared # {} /\ k = s
<1>1. TapShape /\ PickerInv /\ ButtonInv(b)
  BY DEF TapInv
<1>2. /\ presses' \in Seq(PressRecords) /\ Len(presses') = n
      /\ n \in DOMAIN presses' /\ presses'[n].button = b
      /\ presses'[n].fate = "down" /\ ~presses'[n].strayed
      /\ presses'[n].way = IF grips[b] = {} THEN "plain" ELSE "beside"
  BY BeginIs
<1>3. \A k \in DOMAIN presses :
        /\ k \in DOMAIN presses' /\ k < n
        /\ presses'[k].button = presses[k].button /\ presses'[k].way = presses[k].way
        /\ presses'[k].strayed = presses[k].strayed
        /\ presses'[k].fate = IF k \in Down(b) THEN "overlaid" ELSE IF halved(k) THEN "half" ELSE presses[k].fate
  BY BeginIs
<1>4. DOMAIN presses' = DOMAIN presses \cup {n} /\ n \notin DOMAIN presses /\ n \in Nat
  BY BeginIs
<1>5. /\ hooks' = [hooks EXCEPT ![b] = [press   |-> IF Longs(b) THEN LongPress ELSE None,
                                        long    |-> FALSE,
                                        since   |-> 0,
                                        pending |-> q,
                                        single  |-> IF q THEN None ELSE s]]
      /\ timers' = timers \ cleared
  BY DEF Begin
<1>6. /\ hooks[b] \in Hooks /\ hooks \in [Buttons -> Hooks]
      /\ q \in BOOLEAN /\ (q => Quick(b))
  BY <1>1 DEF TapShape, Haste
<1>7. /\ hooks' \in [Buttons -> Hooks]
      /\ hooks'[b].long = FALSE /\ hooks'[b].since = 0 /\ hooks'[b].pending = q
      /\ hooks'[b].single = IF q THEN None ELSE s
      /\ \A c \in Buttons \ {b} : hooks'[c] = hooks[c]
  <2>1. [press   |-> IF Longs(b) THEN LongPress ELSE None,
         long    |-> FALSE,
         since   |-> 0,
         pending |-> q,
         single  |-> IF q THEN None ELSE s] \in Hooks
    BY <1>6, ControlsAssumption DEF Hooks
  <2> QED
    BY <1>5, <1>6, <2>1
<1>8. /\ grips' = [c \in Buttons |-> grips'[c]]
      /\ grips'[b] = grips[b] \cup {hand} /\ \A c \in Buttons \ {b} : grips'[c] = grips[c]
  BY <1>1 DEF Takes, TapShape
<1>9. TapShape'
  BY <1>1, <1>2, <1>5, <1>7, <1>8 DEF TapShape
<1>10. Grows
  BY <1>1, <1>2, <1>3, <1>4, PressIndex DEF Grows
<1>11. cleared # {} =>
         /\ s \in Own(b) /\ presses[s].fate = "waiting" /\ q /\ s # None
         /\ \A t \in timers : t.button = b /\ t.press = s => t \in cleared
  <2> SUFFICES ASSUME NEW u \in cleared
               PROVE  /\ s \in Own(b) /\ presses[s].fate = "waiting" /\ q /\ s # None
                      /\ \A t \in timers : t.button = b /\ t.press = s => t \in cleared
    OBVIOUS
  <2>1. u \in timers /\ u.button = b /\ u.press = s /\ q
    OBVIOUS
  <2>2. s \in Own(b) /\ presses[s].fate = "waiting" /\ \A t \in timers : t.button = b /\ t.press = s => t = u
    BY <1>1, <2>1 DEF ButtonInv, TimersOf
  <2>3. s \in Nat
    BY <1>1, <2>2, PressIndex DEF Own
  <2> QED
    BY <2>1, <2>2, <2>3, ControlsAssumption
<1> HIDE DEF cleared
<1>12. Own(b)' = Own(b) \cup {n}
  BY <1>2, <1>3, <1>4 DEF Own
<1>13. \A k \in Own(b) : k # n /\ k < n /\ k \in DOMAIN presses /\ k <= n
  BY <1>1, <1>3, <1>4, PressIndex DEF Own
<1>14. Latest(b, n)'
  BY <1>4, <1>12, <1>13 DEF Latest
<1>15. /\ \A k \in Own(b) : k \in Down(b) <=> presses[k].fate = "down"
       /\ \A k \in Down(b) : k \in Own(b) /\ k \in DOMAIN presses
  BY DEF Own, Down
<1>16. \A k \in Own(b) :
         /\ k \in Down(b) => presses'[k].fate = "overlaid"
         /\ k \notin Down(b) /\ ~halved(k) => presses'[k].fate = presses[k].fate
         /\ halved(k) => presses'[k].fate = "half" /\ presses[k].fate = "waiting"
         /\ presses'[k].fate # "down"
         /\ presses'[k].strayed = presses[k].strayed /\ presses'[k].way = presses[k].way
  BY <1>3, <1>11, <1>13, <1>15
<1>17. \A k \in DOMAIN presses \ Own(b) : presses'[k].fate = presses[k].fate
  BY <1>3, <1>11, <1>15
<1> HIDE DEF halved
<1>18. Steady(b)
  BY <1>15, <1>16 DEF Steady
<1>19. PickerInv'
  <2>1. \A k \in DOMAIN presses : presses'[k].fate = "asked" <=> presses[k].fate = "asked"
    BY <1>15, <1>16, <1>17
  <2>2. \A k \in DOMAIN presses' : presses'[k].fate = "asked" <=> picker' # None /\ picker'.press = k
    BY <1>1, <1>2, <1>4, <2>1 DEF PickerInv
  <2>3. \A k \in DOMAIN presses' : presses'[k].button = None =>
          presses'[k].fate \in Neutral /\ presses'[k].way = "plain"
    BY <1>1, <1>2, <1>3, <1>4, <1>17, ControlsAssumption DEF PickerInv, Own
  <2> QED
    BY <1>1, <1>4, <2>2, <2>3 DEF PickerInv
<1>20. \A c \in Buttons \ {b} : ButtonInv(c)'
  <2>1. Spares(b)
    BY <1>2, <1>3, <1>4, <1>17 DEF Spares
  <2>2. \A t \in cleared : t.button = b
    BY DEF cleared
  <2>3. Leaves(b)
    BY <1>5, <1>7, <1>8, <2>2 DEF Leaves
  <2> QED
    BY <1>9, <1>10, <2>1, <2>3, OthersOf
<1>21. DownOf(b)' /\ n \in Down(b)'
  <2>1. DownOf(b)'
    BY <1>12, <1>14, <1>16 DEF DownOf
  <2> QED
    BY <1>2, <2>1 DEF Down
<1>22. q => Paired(n)'
  <2> SUFFICES ASSUME q PROVE Paired(n)'
    OBVIOUS
  <2>1. PICK i \in Own(b) :
          /\ Latest(b, i)
          /\ Yielding(i) \/ (presses[i].fate = "waiting" /\ (s = i \/ i \in overtaken))
    BY <1>1, <1>6 DEF ButtonInv, QuickOf
  <2>2. Follow(i, n)'
    <3>1. \A k \in (i + 1)..(n - 1) : k \in DOMAIN presses /\ ~(k <= i)
      BY <1>1, <1>2, <1>4, <1>13, PressIndex
    <3>2. \A k \in (i + 1)..(n - 1) : presses[k].button # b
      BY <2>1, <3>1 DEF Latest, Own
    <3>3. presses[i].button = b
      BY DEF Own
    <3> QED
      BY <1>2, <1>3, <1>13, <3>1, <3>2, <3>3 DEF Follow
  <2>3. presses'[i].fate \in {"half", "cancelled", "overlaid"} \/ i \in overtaken'
    <3>1. CASE Yielding(i)
      BY <1>15, <1>16, <3>1 DEF Yielding
    <3>2. CASE presses[i].fate = "waiting" /\ s = i
      <4>1. s # None
        BY <1>1, <3>2, PressIndex, ControlsAssumption DEF Own
      <4>2. \E t \in timers : t.button = b /\ t.press = s /\ t.mounted
        BY <1>1, <4>1 DEF ButtonInv, HookOf
      <4>3. halved(i)
        BY <3>2, <4>2 DEF cleared, halved
      <4> QED
        BY <1>16, <4>3
    <3> QED
      BY <2>1, <3>1, <3>2
  <2> QED
    BY <1>3, <1>13, <2>2, <2>3 DEF Paired
<1>23. HookOf(b)'
  <2>1. Yielding(n)'
    BY <1>2 DEF Yielding
  <2>2. hooks'[b].pending => hooks'[b].single = None /\ \E i \in Own(b)' : Latest(b, i)' /\ Paired(i)'
    BY <1>7, <1>12, <1>14, <1>22
  <2>3. ASSUME hooks'[b].single # None
        PROVE  /\ Doubles(b)
               /\ \E t \in timers' : t.button = b /\ t.press = hooks'[b].single /\ t.mounted
               /\ \A j \in Own(b)' : j > hooks'[b].single => Yielding(j)'
    <3>1. hooks'[b].single = s /\ s # None /\ ~q
      BY <1>7, <2>3
    <3>2. cleared = {}
      BY <1>11, <3>1
    <3>3. timers' = timers
      BY <1>5, <3>2
    <3>4. /\ Doubles(b)
          /\ \E t \in timers : t.button = b /\ t.press = s /\ t.mounted
          /\ \A j \in Own(b) : j > s => Yielding(j)
      BY <1>1, <3>1 DEF ButtonInv, HookOf
    <3>5. \A j \in Own(b) : Yielding(j) => Yielding(j)'
      BY <1>15, <1>16, <3>2 DEF Yielding, halved
    <3> QED
      BY <1>12, <2>1, <3>1, <3>3, <3>4, <3>5
  <2> QED
    BY <1>12, <1>14, <1>21, <2>2, <2>3 DEF HookOf
<1>24. TimersOf(b)'
  <2> SUFFICES ASSUME NEW t \in timers', t.button = b
               PROVE  /\ t.press \in Own(b)' /\ presses'[t.press].fate = "waiting"
                      /\ \A u \in timers' : u.button = b /\ u.press = t.press => u = t
                      /\ Latest(b, t.press)' => hooks'[b].since + t.left >= DoubleTap
    BY DEF TimersOf
  <2>1. t \in timers /\ t \notin cleared /\ timers' \subseteq timers
    BY <1>5
  <2>2. /\ t.press \in Own(b) /\ presses[t.press].fate = "waiting"
        /\ \A u \in timers : u.button = b /\ u.press = t.press => u = t
    BY <1>1, <2>1 DEF ButtonInv, TimersOf
  <2>3. presses'[t.press].fate = "waiting"
    BY <1>11, <1>15, <1>16, <2>1, <2>2 DEF halved
  <2>4. ~Latest(b, t.press)'
    <3>1. n \in Own(b)' /\ ~(n <= t.press)
      BY <1>1, <1>4, <1>12, <1>13, <2>2, PressIndex DEF Own
    <3> QED
      BY <3>1 DEF Latest
  <2> QED
    BY <1>12, <2>1, <2>2, <2>3, <2>4
<1>25. WaitOf(b)'
  <2> SUFFICES ASSUME NEW i \in Own(b)', presses'[i].fate = "waiting"
               PROVE  \E t \in timers' : t.button = b /\ t.press = i
    BY DEF WaitOf
  <2>1. i \in Own(b) /\ presses[i].fate = "waiting" /\ ~halved(i)
    BY <1>2, <1>12, <1>16
  <2>2. PICK t \in timers : t.button = b /\ t.press = i
    BY <1>1, <2>1 DEF ButtonInv, WaitOf
  <2>3. t \notin cleared
    BY <2>1, <2>2 DEF cleared, halved
  <2> QED
    BY <1>5, <2>2, <2>3
<1>26. QuickOf(b)'
  BY <1>2, <1>12, <1>14 DEF QuickOf, Yielding
<1>27. PairsOf(b)'
  <2>1. ASSUME NEW i \in Own(b)', presses'[i].fate = "undo" PROVE Paired(i)'
    <3>1. i \in Own(b) /\ presses[i].fate = "undo"
      BY <1>2, <1>12, <1>16, <2>1
    <3>2. Paired(i)
      BY <1>1, <3>1 DEF ButtonInv, PairsOf
    <3> QED
      BY <1>1, <1>9, <1>10, <1>18, <3>1, <3>2, PairedKept
  <2>2. ASSUME NEW i \in Own(b)', presses'[i].fate = "half" PROVE GaveWay(b, i)'
    <3>1. i \in Own(b) /\ (presses[i].fate = "half" \/ halved(i))
      BY <1>2, <1>12, <1>15, <1>16, <2>2
    <3>2. CASE presses[i].fate = "half"
      <4>1. GaveWay(b, i)
        BY <1>1, <3>1, <3>2 DEF ButtonInv, PairsOf
      <4>2. \A j \in Own(b) : presses[j].fate = "down" => TakesUp(j)'
        BY <1>15, <1>16 DEF TakesUp
      <4> QED
        BY <1>1, <1>9, <1>10, <1>18, <3>1, <4>1, <4>2, GaveKept
    <3>3. CASE halved(i) /\ ~Latest(b, i)
      <4>1. PICK m \in Own(b) : i < m
        BY <1>1, <3>1, <3>3, PressIndex DEF Latest, Own
      <4>2. PICK j \in Own(b) : Follow(i, j)
        BY <1>1, <3>1, <4>1, NextPress
      <4>3. j > s /\ s # None
        BY <1>1, <1>11, <3>1, <3>3, <4>2, PressIndex DEF Follow, halved, Own
      <4>4. Yielding(j)
        BY <1>1, <4>3 DEF ButtonInv, HookOf
      <4>5. TakesUp(j)'
        BY <1>15, <1>16, <4>4 DEF TakesUp, Yielding
      <4>6. Follow(i, j)' /\ j \in DOMAIN presses'
        BY <1>1, <1>3, <1>9, <1>10, <1>13, <3>1, <4>2, FollowKept
      <4> QED
        BY <4>5, <4>6 DEF GaveWay
    <3>4. CASE halved(i) /\ Latest(b, i)
      <4>1. \A k \in (i + 1)..(n - 1) : k \in DOMAIN presses /\ ~(k <= i)
        BY <1>1, <1>2, <1>4, <1>13, <3>1, PressIndex
      <4>2. \A k \in (i + 1)..(n - 1) : presses[k].button # b
        BY <3>4, <4>1 DEF Latest, Own
      <4>3. presses[i].button = b
        BY <3>1 DEF Own
      <4>4. Follow(i, n)'
        BY <1>2, <1>3, <1>13, <3>1, <4>1, <4>2, <4>3 DEF Follow
      <4>5. hooks'[b].pending
        BY <1>7, <1>11, <3>4 DEF halved
      <4> QED
        BY <1>2, <4>4, <4>5 DEF GaveWay
    <3> QED
      BY <3>1, <3>2, <3>3, <3>4
  <2> QED
    BY <2>1, <2>2 DEF PairsOf
<1>28. LooseOf(b)'
  <2>1. presses'[n].way # "loose" /\ (grips[b] # {} => presses'[n].way = "beside")
    BY <1>2
  <2>2. grips[b] # {} => Shared(b)'
    BY <1>12, <2>1 DEF Shared
  <2>3. grips[b] = {} => \A x, y \in grips'[b] : x = y
    BY <1>8
  <2>4. \A k \in Own(b)' \ Own(b) : k = n
    BY <1>12
  <2>5. LooseOf(b) /\ settings' = settings
    BY <1>1 DEF ButtonInv
  <2>6. Down(b)' # {}
    BY <1>21
  <2> QED
    BY <1>1, <1>9, <1>10, <1>13, <2>1, <2>2, <2>3, <2>4, <2>5, <2>6, LooseKept
<1>29. DownOf(b)'
  BY <1>21
<1> QED
  BY <1>9, <1>19, <1>20, <1>23, <1>24, <1>25, <1>26, <1>27, <1>28, <1>29 DEF TapInv, ButtonInv

\* No press is added, and each is of the button that it was of.
LEMMA SameIs ==
  ASSUME TapShape, TapShape', Len(presses') = Len(presses),
         \A k \in DOMAIN presses :
           presses'[k].button = presses[k].button /\ presses'[k].way = presses[k].way
  PROVE  /\ Grows
         /\ DOMAIN presses' = DOMAIN presses
         /\ \A b : Own(b)' = Own(b)
         /\ \A b, i : Latest(b, i)' <=> Latest(b, i)
<1>1. DOMAIN presses = 1..Len(presses) /\ Len(presses) \in Nat
  BY PressIndex
<1>2. DOMAIN presses' = 1..Len(presses')
  BY DEF TapShape
<1>3. DOMAIN presses' = DOMAIN presses
  BY <1>1, <1>2
<1>4. \A b : Own(b)' = Own(b)
  BY <1>3 DEF Own
<1> QED
  BY <1>1, <1>3, <1>4 DEF Grows, Latest

\* A hand lets go of a button, or slides, without its being tapped.
LEMMA LetGoKeeps ==
  ASSUME TapInv, NEW b \in Buttons,
         hooks' \in [Buttons -> Hooks],
         \A c \in Buttons \ {b} : hooks'[c] = hooks[c],
         hooks'[b].long = hooks[b].long,
         hooks'[b].since = hooks[b].since,
         hooks'[b].single = hooks[b].single,
         hooks'[b].press \in {hooks[b].press, None},
         hooks'[b].pending => hooks[b].pending,
         NEW g, grips' = [grips EXCEPT ![b] = g], g \subseteq grips[b],
         UNCHANGED <<settings, timers, picker, overtaken>>,
         presses' \in Seq(PressRecords),
         Len(presses') = Len(presses),
         \A k \in DOMAIN presses :
           /\ presses'[k].button = presses[k].button /\ presses'[k].way = presses[k].way
           /\ presses[k].strayed => presses'[k].strayed
           /\ k \notin Down(b) => presses'[k].fate = presses[k].fate /\ presses'[k].strayed = presses[k].strayed,
         \A k \in Down(b) :
           /\ \/ presses'[k].fate = "down"
              \/ /\ presses'[k].fate = "cancelled" /\ g = {}
                 /\ hooks'[b].press = None /\ ~hooks'[b].pending
           /\ hooks[b].pending => TakesUp(k)' \/ (presses'[k].fate = "down" /\ hooks'[b].pending)
  PROVE  TapInv'
<1>1. TapShape /\ PickerInv
  BY DEF TapInv
<1>2. ButtonInv(b)
  BY DEF TapInv
<1>3. /\ grips' = [c \in Buttons |-> grips'[c]]
      /\ grips'[b] = g /\ \A c \in Buttons \ {b} : grips'[c] = grips[c]
  BY <1>1 DEF TapShape
<1>4. TapShape'
  BY <1>1, <1>3 DEF TapShape
<1>5. /\ Grows
      /\ DOMAIN presses' = DOMAIN presses
      /\ \A c : Own(c)' = Own(c)
      /\ \A c, k : Latest(c, k)' <=> Latest(c, k)
  BY <1>1, <1>4, SameIs
<1>6. /\ Down(b) \subseteq Own(b)
      /\ \A i : i \in Down(b) <=> i \in Own(b) /\ presses[i].fate = "down"
      /\ \A i \in Down(b) : Latest(b, i)
      /\ \A k \in Own(b) : k \in DOMAIN presses
  BY <1>1, <1>2, DownIs DEF ButtonInv, Own
<1>7. \A k \in Own(b) :
        \/ presses'[k].fate = presses[k].fate
        \/ presses[k].fate = "down" /\ presses'[k].fate = "cancelled"
  BY <1>6
<1>8. \A k \in Own(b) : Yielding(k) => Yielding(k)'
  BY <1>7 DEF Yielding
<1>9. Steady(b)
  BY <1>6, <1>7 DEF Steady
<1>10. PickerInv'
  <2>1. \A k \in DOMAIN presses : presses'[k].fate = "asked" <=> presses[k].fate = "asked"
    BY <1>6
  <2>2. \A k \in DOMAIN presses : presses[k].button = None => k \notin Down(b)
    BY <1>6, ControlsAssumption DEF Own
  <2> QED
    BY <1>1, <1>5, <2>1, <2>2 DEF PickerInv
<1>11. \A c \in Buttons \ {b} : ButtonInv(c)'
  <2>1. Spares(b)
    BY <1>5, <1>6 DEF Spares
  <2>2. Leaves(b)
    BY <1>3 DEF Leaves
  <2> QED
    BY <1>1, <1>4, <1>5, <2>1, <2>2, OthersOf
<1>12. DownOf(b)'
  BY <1>2, <1>5, <1>7 DEF ButtonInv, DownOf
<1>13. /\ (Down(b) # {} /\ (hooks'[b].press # None \/ hooks'[b].pending \/ g # {})) => Down(b)' # {}
  <2>1. \A i : i \in Down(b)' <=> i \in Own(b)' /\ presses'[i].fate = "down"
    BY DEF Down, Own
  <2> QED
    BY <1>5, <1>6, <2>1
<1>14. HookOf(b)'
  <2>1. HookOf(b)
    BY <1>2 DEF ButtonInv
  <2>2. hooks'[b].press # None \/ hooks'[b].pending => Down(b)' # {}
    BY <2>1, <1>13 DEF HookOf
  <2>3. \A k \in Own(b) : Paired(k) => Paired(k)'
    BY <1>1, <1>4, <1>5, <1>9, PairedKept
  <2>4. hooks'[b].pending => hooks'[b].single = None /\ \E k \in Own(b)' : Latest(b, k)' /\ Paired(k)'
    BY <2>1, <2>3, <1>5 DEF HookOf
  <2>5. hooks'[b].single # None =>
          /\ Doubles(b)
          /\ \E t \in timers' : t.button = b /\ t.press = hooks'[b].single /\ t.mounted
          /\ \A j \in Own(b)' : j > hooks'[b].single => Yielding(j)'
    BY <2>1, <1>5, <1>8 DEF HookOf
  <2> QED
    BY <2>2, <2>4, <2>5 DEF HookOf
<1>15. \A k \in Own(b) : presses'[k].fate = "waiting" <=> presses[k].fate = "waiting"
  BY <1>7
<1>16. TimersOf(b)'
  BY <1>2, <1>5, <1>15 DEF ButtonInv, TimersOf
<1>17. WaitOf(b)'
  BY <1>2, <1>5, <1>15 DEF ButtonInv, WaitOf
<1>18. QuickOf(b)'
  BY <1>2, <1>5, <1>8, <1>15 DEF ButtonInv, QuickOf, Quick
<1>19. PairsOf(b)'
  <2>1. ASSUME NEW k \in Own(b), presses'[k].fate = "undo" PROVE Paired(k)'
    <3>1. Paired(k)
      BY <1>2, <1>7, <2>1 DEF ButtonInv, PairsOf
    <3> QED
      BY <1>1, <1>4, <1>5, <1>9, <3>1, PairedKept
  <2>2. ASSUME NEW k \in Own(b), presses'[k].fate = "half" PROVE GaveWay(b, k)'
    <3>1. GaveWay(b, k)
      BY <1>2, <1>7, <2>2 DEF ButtonInv, PairsOf
    <3>2. \A j \in Own(b) : presses[j].fate = "down" /\ hooks[b].pending =>
            TakesUp(j)' \/ (presses'[j].fate = "down" /\ hooks'[b].pending)
      BY <1>6
    <3> QED
      BY <1>1, <1>4, <1>5, <1>9, <3>1, <3>2, GaveKept
  <2> QED
    BY <1>5, <2>1, <2>2 DEF PairsOf
<1>20. LooseOf(b)'
  <2>1. LooseOf(b) /\ (Shared(b) => Shared(b)')
    BY <1>2, <1>5, <1>6 DEF ButtonInv, Shared
  <2>2. Shared(b)' \/ g = {} \/ hooks'[b].long \/ Down(b)' # {}
    BY <1>13, <2>1 DEF LooseOf
  <2> QED
    BY <1>1, <1>3, <1>4, <1>5, <2>1, <2>2, LooseKept
<1> QED
  BY <1>4, <1>10, <1>11, <1>12, <1>14, <1>16, <1>17, <1>18, <1>19, <1>20 DEF TapInv, ButtonInv

LEMMA CancelledIs ==
  ASSUME TapShape, NEW b \in Buttons, Cancelled(b)
  PROVE  /\ hooks' \in [Buttons -> Hooks]
         /\ \A c \in Buttons \ {b} : hooks'[c] = hooks[c]
         /\ hooks'[b].long = hooks[b].long
         /\ hooks'[b].since = hooks[b].since
         /\ hooks'[b].single = hooks[b].single
         /\ hooks'[b].press = None
         /\ hooks'[b].pending = FALSE
<1> DEFINE r == [hooks[b] EXCEPT !.press = None, !.pending = FALSE]
<1>1. hooks \in [Buttons -> Hooks] /\ hooks[b] \in Hooks
  BY DEF TapShape
<1>2. /\ r \in Hooks /\ r.long = hooks[b].long /\ r.since = hooks[b].since
      /\ r.single = hooks[b].single /\ r.press = None /\ r.pending = FALSE
  BY <1>1 DEF Hooks
<1>3. hooks' = [hooks EXCEPT ![b] = r]
  BY <1>1 DEF Cancelled, Hooks
<1> HIDE DEF r
<1> QED
  BY <1>1, <1>2, <1>3

LEMMA SlidIs ==
  ASSUME TapShape, NEW b
  PROVE  /\ Slid(b) \in Seq(PressRecords) /\ Len(Slid(b)) = Len(presses)
         /\ \A k \in DOMAIN presses :
              /\ Slid(b)[k].button = presses[k].button /\ Slid(b)[k].way = presses[k].way
              /\ Slid(b)[k].fate = presses[k].fate
              /\ Slid(b)[k].strayed <=> presses[k].strayed \/ k \in Down(b)
              /\ k \notin Down(b) => Slid(b)[k].strayed = presses[k].strayed
<1>1. DOMAIN presses = 1..Len(presses) /\ Len(presses) \in Nat
  BY PressIndex
<1> PICK qs : qs = Slid(b)
  OBVIOUS
<1>2. qs = [i \in DOMAIN presses |-> [presses[i] EXCEPT !.strayed = @ \/ i \in Down(b)]]
  BY DEF Slid
<1>3. ASSUME NEW k \in DOMAIN presses
      PROVE  /\ qs[k] \in PressRecords /\ qs[k].button = presses[k].button
             /\ qs[k].way = presses[k].way /\ qs[k].fate = presses[k].fate
             /\ qs[k].strayed <=> presses[k].strayed \/ k \in Down(b)
             /\ k \notin Down(b) => qs[k].strayed = presses[k].strayed
  <2> PICK v \in BOOLEAN : v <=> presses[k].strayed \/ k \in Down(b)
    OBVIOUS
  <2>1. presses[k] \in PressRecords /\ presses[k].strayed \in BOOLEAN
    BY PressAt
  <2>2. qs[k] = [presses[k] EXCEPT !.strayed = presses[k].strayed \/ k \in Down(b)]
    BY <1>2, <2>1 DEF PressRecords
  <2>3. (presses[k].strayed \/ k \in Down(b)) = v
    BY <2>1
  <2>4. qs[k] = [presses[k] EXCEPT !.strayed = v]
    BY <2>2, <2>3
  <2>5. /\ qs[k] \in PressRecords /\ qs[k].button = presses[k].button
        /\ qs[k].way = presses[k].way /\ qs[k].fate = presses[k].fate /\ qs[k].strayed = v
    BY <2>1, <2>4 DEF PressRecords
  <2> QED
    BY <2>1, <2>5
<1>4. DOMAIN qs = 1..Len(presses) /\ qs \in [1..Len(presses) -> PressRecords]
  BY <1>1, <1>2, <1>3
<1>5. qs \in Seq(PressRecords) /\ Len(qs) = Len(presses)
  BY <1>1, <1>4
<1> QED
  BY <1>3, <1>5

LEMMA StrayKeeps ==
  ASSUME TapInv, NEW b \in Buttons, NEW hand, Stray(b, hand)
  PROVE  TapInv'
<1>1. TapShape /\ Cancelled(b) /\ presses' = Slid(b)
      /\ UNCHANGED <<grips, settings, timers, picker, overtaken>>
  BY DEF Stray, TapInv, shown, opened
<1>2. /\ hooks' \in [Buttons -> Hooks]
      /\ \A c \in Buttons \ {b} : hooks'[c] = hooks[c]
      /\ hooks'[b].long = hooks[b].long
      /\ hooks'[b].since = hooks[b].since
      /\ hooks'[b].single = hooks[b].single
      /\ hooks'[b].press = None
      /\ hooks'[b].pending = FALSE
  BY <1>1, CancelledIs
<1>3. /\ presses' \in Seq(PressRecords) /\ Len(presses') = Len(presses)
      /\ \A k \in DOMAIN presses :
           /\ presses'[k].button = presses[k].button /\ presses'[k].way = presses[k].way
           /\ presses'[k].fate = presses[k].fate
           /\ presses'[k].strayed <=> presses[k].strayed \/ k \in Down(b)
           /\ k \notin Down(b) => presses'[k].strayed = presses[k].strayed
  BY <1>1, SlidIs
<1>4. \A k \in Down(b) : presses'[k].fate = "down" /\ TakesUp(k)'
  BY <1>3 DEF TakesUp, Down
<1>5. grips' = [grips EXCEPT ![b] = grips[b]]
  BY <1>1 DEF TapShape
<1> QED
  BY <1>1, <1>2, <1>3, <1>4, <1>5, LetGoKeeps

LEMMA GoneKeeps ==
  ASSUME TapInv, NEW b \in Buttons, NEW hand, Gone(b, hand)
  PROVE  TapInv'
<1> PICK g : g = grips[b] \ {hand}
  OBVIOUS
<1>1. /\ TapShape /\ Cancelled(b)
      /\ presses' = IF g = {} THEN Resolve(b, "cancelled") ELSE Slid(b)
      /\ grips' = [grips EXCEPT ![b] = g] /\ g \subseteq grips[b]
      /\ UNCHANGED <<settings, timers, picker, overtaken>>
  BY DEF Gone, LetsGo, TapInv, TapShape, shown, opened
<1>2. /\ hooks' \in [Buttons -> Hooks]
      /\ \A c \in Buttons \ {b} : hooks'[c] = hooks[c]
      /\ hooks'[b].long = hooks[b].long
      /\ hooks'[b].since = hooks[b].since
      /\ hooks'[b].single = hooks[b].single
      /\ hooks'[b].press = None
      /\ hooks'[b].pending = FALSE
  BY <1>1, CancelledIs
<1>3. \A k \in Down(b) : k \in DOMAIN presses /\ presses[k].fate = "down"
  BY DEF Down
<1>4. /\ presses' \in Seq(PressRecords) /\ Len(presses') = Len(presses)
      /\ \A k \in DOMAIN presses :
           /\ presses'[k].button = presses[k].button /\ presses'[k].way = presses[k].way
           /\ presses[k].strayed => presses'[k].strayed
           /\ k \notin Down(b) => presses'[k].fate = presses[k].fate /\ presses'[k].strayed = presses[k].strayed
      /\ \A k \in Down(b) :
           /\ presses'[k].fate = "down" \/ (presses'[k].fate = "cancelled" /\ g = {})
           /\ presses'[k].strayed \/ presses'[k].fate = "cancelled"
  <2>1. CASE g = {}
    <3>1. "cancelled" \in Fates /\ presses' = Resolve(b, "cancelled")
      BY <1>1, <2>1 DEF Fates
    <3>2. /\ presses' \in Seq(PressRecords) /\ SamePresses(presses, presses')
          /\ \A k \in DOMAIN presses :
               presses'[k].fate = IF k \in Down(b) THEN "cancelled" ELSE presses[k].fate
      BY <1>1, <3>1, ResolveIs
    <3> QED
      BY <1>3, <2>1, <3>2 DEF SamePresses
  <2>2. CASE g # {}
    <3>1. presses' = Slid(b)
      BY <1>1, <2>2
    <3> QED
      BY <1>1, <1>3, <3>1, SlidIs
  <2> QED
    BY <2>1, <2>2
<1>5. \A k \in Down(b) : TakesUp(k)'
  BY <1>4 DEF TakesUp
<1> QED
  BY <1>1, <1>2, <1>4, <1>5, LetGoKeeps

LEMMA UnheardKeeps ==
  ASSUME TapInv, NEW b \in Buttons, Unheard(b)
  PROVE  TapInv'
<1> PICK g : g = grips[b] \ {"mouse"}
  OBVIOUS
<1>1. /\ TapShape /\ hooks \in [Buttons -> Hooks] /\ presses \in Seq(PressRecords)
      /\ grips' = [grips EXCEPT ![b] = g] /\ g \subseteq grips[b]
      /\ UNCHANGED <<hooks, presses, settings, timers, picker, overtaken>>
  BY DEF Unheard, LetsGo, TapInv, TapShape, shown, opened
<1>2. \A k \in Down(b) : presses'[k].fate = "down"
  BY <1>1 DEF Down
<1> QED
  BY <1>1, <1>2, LetGoKeeps

\* What a step that adds no press leaves as it was.
LEMMA MovedIs ==
  ASSUME TapInv, TapShape', NEW b \in Buttons \cup {None}, SamePresses(presses, presses'),
         overtaken \subseteq overtaken', Leaves(b),
         \A k \in DOMAIN presses \ Own(b) :
           \/ presses'[k].fate = presses[k].fate
           \/ presses'[k].fate \in Neutral /\ presses[k].fate \in Neutral
  PROVE  /\ Grows
         /\ DOMAIN presses' = DOMAIN presses
         /\ \A c : Own(c)' = Own(c)
         /\ \A c, k : Latest(c, k)' <=> Latest(c, k)
         /\ \A c \in Buttons \ {b} : ButtonInv(c)'
<1>1. TapShape
  BY DEF TapInv
<1>2. /\ Len(presses') = Len(presses)
      /\ \A k \in DOMAIN presses :
           /\ presses'[k].button = presses[k].button /\ presses'[k].way = presses[k].way
           /\ presses'[k].strayed = presses[k].strayed
  BY DEF SamePresses
<1>3. /\ Grows
      /\ DOMAIN presses' = DOMAIN presses
      /\ \A c : Own(c)' = Own(c)
      /\ \A c, k : Latest(c, k)' <=> Latest(c, k)
  BY <1>1, <1>2, SameIs
<1>4. Spares(b)
  BY <1>2, <1>3 DEF Spares
<1> QED
  BY <1>3, <1>4, OthersOf

\* What a release is of: the press that has not been answered, or a press of its own.
Hears(b, ps, i) ==
  /\ ps \in Seq(PressRecords) /\ i \in Nat
  /\ Len(presses) <= Len(ps) /\ DOMAIN ps = DOMAIN presses \cup {i}
  /\ \A k \in DOMAIN presses : ps[k] = presses[k]
  /\ ps[i].button = b /\ ps[i].fate = "down"
  /\ \A j \in Own(b) : j <= i /\ (presses[j].fate = "down" => j = i)
  /\ i \notin Own(b) =>
       Down(b) = {} /\ ps[i].way = "loose" /\ i \notin DOMAIN presses /\ \A j \in Own(b) : j < i

LEMMA HeardIs ==
  ASSUME TapInv, NEW b \in Buttons
  PROVE  Hears(b, Heard(b), HeardAt(b))
<1>1. TapShape /\ DownOf(b) /\ DOMAIN presses = 1..Len(presses) /\ Len(presses) \in Nat
  BY PressIndex DEF TapInv, ButtonInv
<1>2. /\ \A i : i \in Down(b) <=> i \in Own(b) /\ presses[i].fate = "down"
      /\ \A i \in Down(b) : Latest(b, i)
      /\ \A i, j \in Down(b) : i = j
  BY <1>1, DownIs
<1>3. CASE Down(b) = {}
  <2>1. Heard(b) = Comes(presses, b, "loose") /\ HeardAt(b) = Len(presses) + 1
    BY <1>3 DEF Heard, HeardAt
  <2>2. presses \in Seq(PressRecords) /\ b \in Buttons \cup {None} /\ "loose" \in Ways
    BY <1>1 DEF TapShape, Ways
  <2>3. Came(presses, Heard(b), b, "loose")
    BY <2>1, <2>2, ComesIs
  <2>4. \A j \in Own(b) : j \in DOMAIN presses
    BY DEF Own
  <2>5. DOMAIN Heard(b) = DOMAIN presses \cup {HeardAt(b)}
    BY <2>1, <2>3 DEF Came
  <2>6. HeardAt(b) \notin DOMAIN presses /\ \A j \in DOMAIN presses : j < HeardAt(b) /\ j <= HeardAt(b)
    BY <1>1, <2>1
  <2> QED
    BY <1>1, <1>2, <1>3, <2>1, <2>3, <2>4, <2>5, <2>6 DEF Came, Hears
<1>4. CASE Down(b) # {}
  <2>1. Heard(b) = presses /\ HeardAt(b) \in Down(b)
    BY <1>4 DEF Heard, HeardAt
  <2> PICK i : i = HeardAt(b)
    OBVIOUS
  <2>2. i \in Own(b) /\ Latest(b, i) /\ presses[i].fate = "down" /\ i \in DOMAIN presses /\ presses[i].button = b
    BY <1>2, <2>1 DEF Own
  <2>3. \A j \in Own(b) : presses[j].fate = "down" => j = i
    BY <1>2, <2>1
  <2>4. i \in Nat /\ Len(presses) <= Len(presses)
    BY <1>1, <2>2
  <2> QED
    BY <1>1, <2>1, <2>2, <2>3, <2>4 DEF Hears, Latest, TapShape
<1> QED
  BY <1>3, <1>4

\* Of a button that is let go of, one tap is made something of.
Answers(b, ps, i, hand) ==
  /\ hand \in grips[b] \/ "mouse" \in settings.hands
  /\ grips' = [grips EXCEPT ![b] = @ \ {hand}]
  /\ overtaken' = overtaken /\ settings' = settings
  /\ hooks'[b].press = None /\ hooks'[b].pending = FALSE /\ ~hooks[b].long
  /\ SamePresses(ps, presses')
  /\ presses'[i].fate \in Neutral \cup {"undo", "waiting"}
  /\ \A k \in DOMAIN presses : k # i =>
       \/ presses'[k].fate = presses[k].fate
       \/ presses'[k].fate \in Neutral /\ presses[k].fate \in Neutral
  /\ presses'[i].fate = "undo" => i \in Own(b) /\ Paired(i)
  /\ hooks[b].pending => presses'[i].fate = "undo"

LEMMA ReleasedParts ==
  ASSUME TapInv, TapShape', NEW b \in Buttons, NEW ps, NEW i, Hears(b, ps, i), Leaves(b),
         NEW hand, Answers(b, ps, i, hand)
  PROVE  /\ \A c \in Buttons \ {b} : ButtonInv(c)'
         /\ DownOf(b)' /\ PairsOf(b)' /\ LooseOf(b)' /\ Grows
         /\ DOMAIN presses' = DOMAIN presses \cup {i}
         /\ Own(b)' = Own(b) \cup {i}
         /\ Latest(b, i)' /\ \A k \in Own(b) : k # i => ~Latest(b, k)'
         /\ \A k \in Own(b) : k # i => (presses'[k].fate = "waiting" <=> presses[k].fate = "waiting")
<1>1. TapShape /\ ButtonInv(b)
  BY DEF TapInv
<1>17. /\ hand \in grips[b] \/ "mouse" \in settings.hands
       /\ grips' = [grips EXCEPT ![b] = @ \ {hand}]
       /\ overtaken' = overtaken /\ settings' = settings
       /\ hooks'[b].press = None /\ hooks'[b].pending = FALSE /\ ~hooks[b].long
       /\ SamePresses(ps, presses')
  BY DEF Answers
<1>18. /\ presses'[i].fate \in Neutral \cup {"undo", "waiting"}
       /\ \A k \in DOMAIN presses : k # i =>
            \/ presses'[k].fate = presses[k].fate
            \/ presses'[k].fate \in Neutral /\ presses[k].fate \in Neutral
       /\ presses'[i].fate = "undo" => i \in Own(b) /\ Paired(i)
       /\ hooks[b].pending => presses'[i].fate = "undo"
  BY DEF Answers
<1>2. /\ ps \in Seq(PressRecords) /\ i \in Nat
      /\ Len(presses) <= Len(ps) /\ DOMAIN ps = DOMAIN presses \cup {i}
      /\ \A k \in DOMAIN presses : ps[k] = presses[k]
      /\ ps[i].button = b /\ ps[i].fate = "down"
      /\ \A j \in Own(b) : j <= i /\ (presses[j].fate = "down" => j = i)
      /\ i \notin Own(b) =>
           Down(b) = {} /\ ps[i].way = "loose" /\ i \notin DOMAIN presses /\ \A j \in Own(b) : j < i
  BY DEF Hears
<1>3. /\ Len(presses') = Len(ps) /\ presses' \in Seq(PressRecords)
      /\ \A k \in DOMAIN ps : presses'[k].button = ps[k].button /\ presses'[k].way = ps[k].way
                              /\ presses'[k].strayed = ps[k].strayed
  BY <1>17 DEF SamePresses, TapShape
<1>4. DOMAIN presses' = DOMAIN presses \cup {i}
  BY <1>2, <1>3
<1>5. Grows
  BY <1>2, <1>3 DEF Grows
<1>6. Own(b)' = Own(b) \cup {i} /\ i \in Own(b)'
  BY <1>2, <1>3, <1>4 DEF Own
<1>7. Latest(b, i)'
  <2>1. i <= i
    BY <1>2
  <2> QED
    BY <1>2, <1>6, <2>1 DEF Latest
<1>8. \A k \in Own(b) : k # i => ~Latest(b, k)'
  <2>1. \A k \in Own(b) : k # i => ~(i <= k)
    BY <1>1, <1>2, PressIndex DEF Own
  <2> QED
    BY <1>6, <2>1 DEF Latest
<1>9. \A k \in Own(b) : /\ k \in DOMAIN presses /\ k \in DOMAIN ps
                        /\ presses'[k].strayed = presses[k].strayed /\ presses'[k].way = presses[k].way
  BY <1>2, <1>3 DEF Own
<1>10. \A k \in Own(b) : k # i =>
         \A f \in {"down", "waiting", "half", "undo", "long", "cancelled", "overlaid", "unmounted"} :
           presses'[k].fate = f <=> presses[k].fate = f
  BY <1>9, <1>18 DEF Neutral
<1>11. i \in Own(b) => presses[i].fate = "down"
  BY <1>2, <1>9
<1>12. Steady(b)
  BY <1>9, <1>10, <1>11, <1>17 DEF Steady
<1>13. \A c \in Buttons \ {b} : ButtonInv(c)'
  <2>1. Spares(b)
    BY <1>2, <1>3, <1>4, <1>9, <1>17, <1>18 DEF Spares, Own
  <2> QED
    BY <1>1, <1>5, <2>1, OthersOf
<1>14. DownOf(b)'
  <2>1. \A k \in Own(b)' : presses'[k].fate # "down"
    BY <1>2, <1>6, <1>10, <1>18 DEF Neutral
  <2> QED
    BY <2>1 DEF DownOf
<1>15. PairsOf(b)'
  <2>1. ASSUME NEW k \in Own(b)', presses'[k].fate = "undo" PROVE Paired(k)'
    <3>1. k \in Own(b) /\ Paired(k)
      BY <1>1, <1>6, <1>10, <1>18, <2>1 DEF ButtonInv, PairsOf
    <3> QED
      BY <1>1, <1>5, <1>12, <3>1, PairedKept
  <2>2. ASSUME NEW k \in Own(b)', presses'[k].fate = "half" PROVE GaveWay(b, k)'
    <3>1. k \in Own(b) /\ GaveWay(b, k)
      BY <1>1, <1>6, <1>10, <1>18, <2>2 DEF ButtonInv, PairsOf, Neutral
    <3>2. \A j \in Own(b) : presses[j].fate = "down" /\ hooks[b].pending =>
            TakesUp(j)' \/ (presses'[j].fate = "down" /\ hooks'[b].pending)
      BY <1>2, <1>18 DEF TakesUp
    <3> QED
      BY <1>1, <1>5, <1>12, <3>1, <3>2, GaveKept
  <2> QED
    BY <2>1, <2>2 DEF PairsOf
<1>16. LooseOf(b)'
  <2>1. LooseOf(b) /\ grips'[b] = grips[b] \ {hand}
    BY <1>1, <1>17 DEF ButtonInv, TapShape
  <2>2. Shared(b) => Shared(b)'
    BY <1>6, <1>9, <1>17 DEF Shared
  <2>3. i \notin Own(b) => Shared(b)
    BY <1>2, <1>17, <2>1 DEF LooseOf, Shared
  <2>4. ~Shared(b) => grips'[b] = {}
    BY <1>17, <2>1 DEF LooseOf, Shared
  <2>5. \A k \in Own(b)' \ Own(b) : k = i /\ Shared(b) /\ \A j \in Own(b) : j < k
    BY <1>2, <1>6, <2>3
  <2>6. Shared(b)' \/ grips'[b] = {}
    BY <2>2, <2>4
  <2> QED
    BY <1>1, <1>5, <1>17, <2>1, <2>5, <2>6, LooseKept
<1> QED
  BY <1>4, <1>5, <1>6, <1>7, <1>8, <1>10, <1>13, <1>14, <1>15, <1>16

\* The picker goes on asking about the press that it asked about.
LEMMA PickerKept ==
  ASSUME TapInv, TapShape', Grows, picker' = picker,
         \A k \in DOMAIN presses : presses'[k].fate = "asked" <=> presses[k].fate = "asked",
         \A k \in DOMAIN presses : presses[k].button = None => presses'[k].fate \in Neutral,
         \A k \in DOMAIN presses' \ DOMAIN presses :
           presses'[k].button \in Buttons /\ presses'[k].fate # "asked"
  PROVE  PickerInv'
<1>1. TapShape /\ PickerInv
  BY DEF TapInv
<1>2. DOMAIN presses \subseteq DOMAIN presses'
  BY <1>1, GrowsDomain
<1>3. ASSUME NEW k \in DOMAIN presses'
      PROVE  presses'[k].fate = "asked" <=> picker' # None /\ picker'.press = k
  BY <1>1 DEF PickerInv
<1>4. ASSUME NEW k \in DOMAIN presses', presses'[k].button = None
      PROVE  presses'[k].fate \in Neutral /\ presses'[k].way = "plain"
  BY <1>1, <1>4, ControlsAssumption DEF PickerInv, Grows
<1> QED
  BY <1>1, <1>2, <1>3, <1>4 DEF PickerInv

LEMMA ReleaseKeeps ==
  ASSUME TapInv, NEW b \in Buttons, NEW hand, Release(b, hand)
  PROVE  TapInv'
<1> PICK h : h = hooks[b]
  OBVIOUS
<1> PICK ps : ps = Heard(b)
  OBVIOUS
<1> PICK i : i = HeardAt(b)
  OBVIOUS
<1>1. /\ TapShape /\ PickerInv /\ ButtonInv(b) /\ Hears(b, ps, i)
      /\ hand \in grips[b] \/ "mouse" \in settings.hands
      /\ grips' = [grips EXCEPT ![b] = @ \ {hand}]
      /\ overtaken' = overtaken /\ settings' = settings
  BY HeardIs DEF Release, LetsGo, TapInv, shown
<1>2. /\ grips' = [c \in Buttons |-> grips'[c]] /\ grips'[b] = grips[b] \ {hand}
      /\ \A c \in Buttons \ {b} : grips'[c] = grips[c]
  BY <1>1 DEF TapShape
<1>3. h \in Hooks /\ hooks \in [Buttons -> Hooks] /\ presses \in Seq(PressRecords) /\ timers \subseteq TapTimers
  BY <1>1 DEF TapShape
<1>4. /\ ps \in Seq(PressRecords) /\ i \in Nat /\ i \in DOMAIN ps
      /\ DOMAIN ps = DOMAIN presses \cup {i}
      /\ \A k \in DOMAIN presses : ps[k] = presses[k]
      /\ ps[i].button = b /\ ps[i].fate = "down"
      /\ \A j \in Own(b) : j <= i /\ (presses[j].fate = "down" => j = i)
  BY <1>1 DEF Hears
<1>5. i \notin Own(b) => Down(b) = {} /\ i \notin DOMAIN presses
  BY <1>1 DEF Hears
<1>6. i \in Own(b) => presses[i].fate = "down" /\ i \in DOMAIN presses
  BY <1>4 DEF Own
<1> PICK still : still = [h EXCEPT !.press = None]
  OBVIOUS
<1>7. /\ still \in Hooks /\ still.press = None /\ still.long = h.long /\ still.since = h.since
      /\ still.pending = h.pending /\ still.single = h.single
  BY <1>3 DEF Hooks
<1>8. ASSUME NEW r \in Hooks, hooks' = [hooks EXCEPT ![b] = r]
      PROVE  hooks' \in [Buttons -> Hooks] /\ hooks'[b] = r /\ \A c \in Buttons \ {b} : hooks'[c] = hooks[c]
  BY <1>3, <1>8
<1>9. \A k \in DOMAIN presses :
        /\ k = i => k \in Own(b)
        /\ presses[k].button = None => k # i /\ presses[k].fate \in Neutral
  BY <1>1, <1>4, ControlsAssumption DEF PickerInv, Own
<1>10. \A t \in timers : t.button = b =>
         /\ t.press \in Own(b) /\ presses[t.press].fate = "waiting" /\ t.press # i
         /\ \A u \in timers : u.button = b /\ u.press = t.press => u = t
  BY <1>1, <1>6 DEF ButtonInv, TimersOf
<1>11. CASE h.long /\ hooks' = [hooks EXCEPT ![b] = still] /\ UNCHANGED <<timers, presses, picker>>
  <2>1. hooks' \in [Buttons -> Hooks] /\ hooks'[b] = still /\ \A c \in Buttons \ {b} : hooks'[c] = hooks[c]
    BY <1>7, <1>8, <1>11
  <2>2. hooks'[b].press \in {hooks[b].press, None} /\ hooks'[b].pending = hooks[b].pending
    BY <1>7, <2>1
  <2>3. presses' \in Seq(PressRecords) /\ \A k \in Down(b) : presses'[k].fate = "down"
    BY <1>3, <1>11 DEF Down
  <2> PICK g : g = grips[b] \ {hand}
    OBVIOUS
  <2>4. grips' = [grips EXCEPT ![b] = g] /\ g \subseteq grips[b]
    BY <1>1
  <2> QED
    BY <1>1, <1>7, <1>11, <2>1, <2>2, <2>3, <2>4, LetGoKeeps
<1>12. CASE /\ ~h.long /\ h.pending /\ hooks' = [hooks EXCEPT ![b] = Released(h)]
            /\ presses' = Mark(ps, i, "undo") /\ UNCHANGED <<timers, picker>>
  <2>1. /\ Released(h) \in Hooks /\ Released(h).press = None /\ Released(h).pending = FALSE
        /\ Released(h).single = h.single
    <3>1. DoubleTap \in 0..DoubleTap
      BY ControlsAssumption
    <3>2. Released(h) = [h EXCEPT !.press = None, !.pending = FALSE, !.since = DoubleTap]
      BY DEF Released
    <3>3. [h EXCEPT !.press = None, !.pending = FALSE, !.since = DoubleTap] \in Hooks
      BY <1>3, <3>1 DEF Hooks
    <3>4. /\ [h EXCEPT !.press = None, !.pending = FALSE, !.since = DoubleTap].press = None
          /\ [h EXCEPT !.press = None, !.pending = FALSE, !.since = DoubleTap].pending = FALSE
          /\ [h EXCEPT !.press = None, !.pending = FALSE, !.since = DoubleTap].single = h.single
      BY <1>3 DEF Hooks
    <3> QED
      BY <3>2, <3>3, <3>4
  <2>2. hooks' \in [Buttons -> Hooks] /\ hooks'[b] = Released(h) /\ \A c \in Buttons \ {b} : hooks'[c] = hooks[c]
    BY <1>8, <1>12, <2>1
  <2>3. Released(h).since = DoubleTap
    BY <1>3 DEF Released, Hooks
  <2>4. "undo" \in Fates
    BY DEF Fates
  <2>5. /\ presses' \in Seq(PressRecords) /\ SamePresses(ps, presses')
        /\ \A k \in DOMAIN ps : presses'[k].fate = IF k = i THEN "undo" ELSE ps[k].fate
    BY <1>4, <1>12, <2>4, MarkIs
  <2>6. TapShape'
    BY <1>1, <1>2, <1>12, <2>2, <2>5 DEF TapShape
  <2>7. Leaves(b)
    BY <1>1, <1>2, <1>12, <2>2 DEF Leaves
  <2>8. i \in Own(b) /\ Paired(i) /\ h.single = None
    <3>1. Down(b) # {} /\ h.single = None
      BY <1>1, <1>12 DEF ButtonInv, HookOf
    <3>2. PICK j \in Own(b) : Latest(b, j) /\ Paired(j)
      BY <1>1, <1>12 DEF ButtonInv, HookOf
    <3>3. Latest(b, i)
      BY <1>4, <1>5, <3>1 DEF Latest
    <3> QED
      BY <1>1, <3>1, <3>2, <3>3, OneLatest DEF Latest
  <2>9. presses'[i].fate = "undo" /\ \A k \in DOMAIN presses : k # i => presses'[k].fate = presses[k].fate
    BY <1>4, <2>5
  <2>10. hooks'[b].press = None /\ hooks'[b].pending = FALSE /\ ~hooks[b].long
    BY <1>12, <2>1, <2>2
  <2>21. Answers(b, ps, i, hand)
    BY <1>1, <2>5, <2>8, <2>9, <2>10 DEF Answers
  <2>11. /\ \A c \in Buttons \ {b} : ButtonInv(c)'
         /\ DownOf(b)' /\ PairsOf(b)' /\ LooseOf(b)' /\ Grows
         /\ DOMAIN presses' = DOMAIN presses \cup {i}
         /\ Own(b)' = Own(b) \cup {i}
         /\ Latest(b, i)' /\ \A k \in Own(b) : k # i => ~Latest(b, k)'
         /\ \A k \in Own(b) : k # i => (presses'[k].fate = "waiting" <=> presses[k].fate = "waiting")
    BY <1>1, <2>6, <2>7, <2>21, ReleasedParts
  <2>12. HookOf(b)'
    BY <2>1, <2>2, <2>8, <2>10 DEF HookOf
  <2>13. TimersOf(b)'
    BY <1>10, <1>12, <2>11 DEF TimersOf
  <2>14. WaitOf(b)'
    <3>1. \A k \in Own(b)' : presses'[k].fate = "waiting" => k \in Own(b) /\ presses[k].fate = "waiting"
      BY <2>9, <2>11
    <3> QED
      BY <1>1, <1>12, <3>1 DEF ButtonInv, WaitOf
  <2>15. QuickOf(b)'
    BY <2>2, <2>3, ControlsAssumption DEF QuickOf, Quick
  <2>16. PickerInv'
    BY <1>6, <1>9, <1>12, <2>6, <2>8, <2>9, <2>11, PickerKept
  <2> QED
    BY <2>6, <2>11, <2>12, <2>13, <2>14, <2>15, <2>16 DEF TapInv, ButtonInv
<1>13. CASE /\ ~h.long /\ ~h.pending /\ Doubles(b)
            /\ hooks' = [hooks EXCEPT ![b] = [still EXCEPT !.single = i]]
            /\ timers' = timers \cup {[button |-> b, press |-> i, left |-> DoubleTap, mounted |-> TRUE]}
            /\ presses' = Mark(ps, i, "waiting") /\ UNCHANGED picker
  <2> PICK r : r = [still EXCEPT !.single = i]
    OBVIOUS
  <2> PICK t0 : t0 = [button |-> b, press |-> i, left |-> DoubleTap, mounted |-> TRUE]
    OBVIOUS
  <2>1. /\ r \in Hooks /\ r.press = None /\ r.pending = FALSE
        /\ r.since = h.since /\ r.single = i
    BY <1>3, <1>4, <1>7, <1>13 DEF Hooks
  <2>2. hooks' \in [Buttons -> Hooks] /\ hooks'[b] = r /\ \A c \in Buttons \ {b} : hooks'[c] = hooks[c]
    BY <1>8, <1>13, <2>1
  <2>3. "waiting" \in Fates
    BY DEF Fates
  <2>4. /\ presses' \in Seq(PressRecords) /\ SamePresses(ps, presses')
        /\ \A k \in DOMAIN ps : presses'[k].fate = IF k = i THEN "waiting" ELSE ps[k].fate
    BY <1>4, <1>13, <2>3, MarkIs
  <2>5. t0 \in TapTimers /\ t0.button = b /\ t0.press = i /\ t0.left = DoubleTap /\ t0.mounted
    BY <1>4, ControlsAssumption DEF TapTimers
  <2>6. timers' = timers \cup {t0}
    BY <1>13
  <2>7. TapShape'
    BY <1>1, <1>2, <1>3, <1>13, <2>2, <2>4, <2>5, <2>6 DEF TapShape
  <2>8. Leaves(b)
    BY <1>1, <1>2, <2>2, <2>5, <2>6 DEF Leaves
  <2>9. presses'[i].fate = "waiting" /\ \A k \in DOMAIN presses : k # i => presses'[k].fate = presses[k].fate
    BY <1>4, <2>4
  <2>10. ~hooks[b].pending /\ hooks'[b].press = None /\ hooks'[b].pending = FALSE /\ ~hooks[b].long
    BY <1>13, <2>1, <2>2
  <2>21. Answers(b, ps, i, hand)
    BY <1>1, <2>4, <2>9, <2>10 DEF Answers
  <2>11. /\ \A c \in Buttons \ {b} : ButtonInv(c)'
         /\ DownOf(b)' /\ PairsOf(b)' /\ LooseOf(b)' /\ Grows
         /\ DOMAIN presses' = DOMAIN presses \cup {i}
         /\ Own(b)' = Own(b) \cup {i}
         /\ Latest(b, i)' /\ \A k \in Own(b) : k # i => ~Latest(b, k)'
         /\ \A k \in Own(b) : k # i => (presses'[k].fate = "waiting" <=> presses[k].fate = "waiting")
    BY <1>1, <2>7, <2>8, <2>21, ReleasedParts
  <2>12. HookOf(b)'
    <3>1. i # None
      BY <1>4, ControlsAssumption
    <3>2. \A j \in Own(b)' : ~(j > i)
      BY <1>1, <1>4, <2>11, PressIndex DEF Own
    <3>3. \E t \in timers' : t.button = b /\ t.press = i /\ t.mounted
      BY <2>5, <2>6
    <3> QED
      BY <1>13, <2>1, <2>2, <2>10, <3>1, <3>2, <3>3 DEF HookOf
  <2>13. TimersOf(b)'
    <3> SUFFICES ASSUME NEW t \in timers', t.button = b
                 PROVE  /\ t.press \in Own(b)' /\ presses'[t.press].fate = "waiting"
                        /\ \A u \in timers' : u.button = b /\ u.press = t.press => u = t
                        /\ Latest(b, t.press)' => hooks'[b].since + t.left >= DoubleTap
      BY DEF TimersOf
    <3>1. CASE t \in timers
      BY <1>10, <2>5, <2>6, <2>11, <3>1
    <3>2. CASE t = t0
      <4>1. h.since \in Nat
        BY <1>3 DEF Hooks
      <4>2. \A d, n \in Nat : n + d >= d
        OBVIOUS
      <4>3. hooks'[b].since + t.left >= DoubleTap
        BY <2>1, <2>2, <2>5, <3>2, <4>1, <4>2, ControlsAssumption
      <4> QED
        BY <1>10, <2>5, <2>6, <2>9, <2>11, <3>2, <4>3
    <3> QED
      BY <2>6, <3>1, <3>2
  <2>14. WaitOf(b)'
    <3> SUFFICES ASSUME NEW k \in Own(b)', presses'[k].fate = "waiting"
                 PROVE  \E t \in timers' : t.button = b /\ t.press = k
      BY DEF WaitOf
    <3>1. CASE k = i
      BY <2>5, <2>6, <3>1
    <3>2. CASE k # i
      BY <1>1, <2>6, <2>11, <3>2 DEF ButtonInv, WaitOf
    <3> QED
      BY <3>1, <3>2
  <2>15. QuickOf(b)'
    BY <2>1, <2>2, <2>9, <2>11 DEF QuickOf
  <2>16. PickerInv'
    <3>1. \A k \in DOMAIN presses : presses'[k].fate = "asked" <=> presses[k].fate = "asked"
      BY <1>6, <1>9, <2>9
    <3>2. \A k \in DOMAIN presses : presses[k].button = None => presses'[k].fate \in Neutral
      BY <1>9, <2>9
    <3>3. \A k \in DOMAIN presses' \ DOMAIN presses : presses'[k].button \in Buttons /\ presses'[k].fate # "asked"
      BY <1>4, <2>4, <2>9, <2>11 DEF SamePresses
    <3> QED
      BY <1>13, <2>7, <2>11, <3>1, <3>2, <3>3, PickerKept
  <2> QED
    BY <2>7, <2>11, <2>12, <2>13, <2>14, <2>15, <2>16 DEF TapInv, ButtonInv
<1>14. CASE /\ ~h.long /\ ~h.pending /\ ~Doubles(b)
            /\ hooks' = [hooks EXCEPT ![b] = still]
            /\ Tapped(b, i, ps) /\ UNCHANGED timers
  <2>1. hooks' \in [Buttons -> Hooks] /\ hooks'[b] = still /\ \A c \in Buttons \ {b} : hooks'[c] = hooks[c]
    BY <1>7, <1>8, <1>14
  <2>2. PicksOf(ps, picker)
    BY <1>1, <1>4, <1>6, <1>9 DEF PickerInv, PicksOf
  <2>3. /\ Handled(ps, presses', i)
        /\ PicksOf(presses', picker')
        /\ picker' \in Pickers \cup {None}
    BY <1>1, <1>4, <1>14, <2>2, TappedIs
  <2>4. /\ presses' \in Seq(PressRecords) /\ SamePresses(ps, presses') /\ presses'[i].fate \in Neutral
        /\ \A k \in DOMAIN presses : k # i =>
             \/ presses'[k].fate = presses[k].fate
             \/ presses'[k].fate \in Neutral /\ presses[k].fate \in Neutral
    BY <1>4, <2>3 DEF Handled
  <2>5. TapShape'
    BY <1>1, <1>2, <1>3, <1>14, <2>1, <2>3, <2>4 DEF TapShape
  <2>6. Leaves(b)
    BY <1>1, <1>2, <1>14, <2>1 DEF Leaves
  <2>7. hooks'[b].press = None /\ hooks'[b].pending = FALSE /\ ~hooks[b].long
    BY <1>3, <1>7, <1>14, <2>1 DEF Hooks
  <2>8. presses'[i].fate # "undo" /\ presses'[i].fate # "waiting" /\ ~hooks[b].pending
    BY <1>14, <2>4 DEF Neutral
  <2>21. Answers(b, ps, i, hand)
    BY <1>1, <2>4, <2>7, <2>8 DEF Answers
  <2>9. /\ \A c \in Buttons \ {b} : ButtonInv(c)'
        /\ DownOf(b)' /\ PairsOf(b)' /\ LooseOf(b)' /\ Grows
        /\ DOMAIN presses' = DOMAIN presses \cup {i}
        /\ Own(b)' = Own(b) \cup {i}
        /\ Latest(b, i)' /\ \A k \in Own(b) : k # i => ~Latest(b, k)'
        /\ \A k \in Own(b) : k # i => (presses'[k].fate = "waiting" <=> presses[k].fate = "waiting")
    BY <1>1, <2>5, <2>6, <2>21, ReleasedParts
  <2>10. HookOf(b)'
    <3>1. h.single = None
      BY <1>1, <1>14 DEF ButtonInv, HookOf
    <3> QED
      BY <1>7, <2>1, <2>7, <3>1 DEF HookOf
  <2>11. TimersOf(b)'
    BY <1>10, <1>14, <2>9 DEF TimersOf
  <2>12. WaitOf(b)'
    <3>1. \A k \in Own(b)' : presses'[k].fate = "waiting" => k \in Own(b) /\ presses[k].fate = "waiting"
      BY <2>8, <2>9
    <3> QED
      BY <1>1, <1>14, <3>1 DEF ButtonInv, WaitOf
  <2>13. QuickOf(b)'
    BY <1>14 DEF QuickOf, Quick
  <2>14. PickerInv'
    <3>1. \A k \in DOMAIN presses' : presses'[k].button = None =>
            k \in DOMAIN presses /\ k # i /\ presses[k].button = None /\ presses'[k].way = presses[k].way
      BY <1>4, <2>4, <2>9, ControlsAssumption DEF SamePresses
    <3>2. \A k \in DOMAIN presses' : presses'[k].button = None =>
            presses'[k].fate \in Neutral /\ presses'[k].way = "plain"
      BY <1>1, <1>9, <2>4, <3>1 DEF PickerInv
    <3> QED
      BY <2>3, <3>2 DEF PickerInv, PicksOf
  <2> QED
    BY <2>5, <2>9, <2>10, <2>11, <2>12, <2>13, <2>14 DEF TapInv, ButtonInv
<1> QED
  BY <1>11, <1>12, <1>13, <1>14 DEF Release, FinishPress

\* singleTapTimer runs out.
LEMMA TapFiresKeeps ==
  ASSUME TapInv, NEW t0 \in timers, TapFires(t0)
  PROVE  TapInv'
<1> PICK b : b = t0.button
  OBVIOUS
<1> PICK i : i = t0.press
  OBVIOUS
<1> PICK s : s = hooks[b].single
  OBVIOUS
<1>1. TapShape /\ t0 \in TapTimers /\ b \in Buttons /\ ButtonInv(b)
  BY DEF TapInv, TapShape, TapTimers
<1>2. /\ i \in Own(b) /\ i \in DOMAIN presses /\ presses[i].fate = "waiting" /\ presses[i].button = b
      /\ \A u \in timers : u.button = b /\ u.press = i => u = t0
      /\ Latest(b, i) => hooks[b].since + t0.left >= DoubleTap
  BY <1>1 DEF ButtonInv, TimersOf, Own
<1>3. /\ t0.left = 0 /\ timers' = timers \ {t0}
      /\ hooks' = IF t0.mounted THEN [hooks EXCEPT ![b].single = None] ELSE hooks
      /\ overtaken' = IF t0.mounted THEN overtaken \cup ({s} \ {None, i}) ELSE overtaken
      /\ Tapped(b, i, presses)
      /\ grips' = grips /\ settings' = settings
  BY DEF TapFires, shown
<1>4. PicksOf(presses, picker)
  BY DEF TapInv, PickerInv, PicksOf
<1>5. /\ Handled(presses, presses', i)
      /\ PicksOf(presses', picker')
      /\ picker' \in Pickers \cup {None}
  <2>1. presses \in Seq(PressRecords)
    BY <1>1 DEF TapShape
  <2> QED
    BY <1>1, <1>2, <1>3, <1>4, <2>1, TappedIs
<1>6. /\ presses' \in Seq(PressRecords) /\ SamePresses(presses, presses') /\ presses'[i].fate \in Neutral
      /\ \A k \in DOMAIN presses : k # i =>
           \/ presses'[k].fate = presses[k].fate
           \/ presses'[k].fate \in Neutral /\ presses[k].fate \in Neutral
  BY <1>5 DEF Handled
<1>7. hooks \in [Buttons -> Hooks] /\ hooks[b] \in Hooks
  BY <1>1 DEF TapShape
<1>8. /\ hooks' \in [Buttons -> Hooks]
      /\ \A c \in Buttons \ {b} : hooks'[c] = hooks[c]
      /\ hooks'[b].long = hooks[b].long
      /\ hooks'[b].since = hooks[b].since
      /\ hooks'[b].press = hooks[b].press
      /\ hooks'[b].pending = hooks[b].pending
      /\ hooks'[b].single = IF t0.mounted THEN None ELSE s
  <2>1. CASE t0.mounted
    <3> PICK r : r = [hooks[b] EXCEPT !.single = None]
      OBVIOUS
    <3>1. /\ r \in Hooks /\ r.long = hooks[b].long /\ r.since = hooks[b].since
          /\ r.press = hooks[b].press /\ r.pending = hooks[b].pending /\ r.single = None
      BY <1>7 DEF Hooks
    <3>2. hooks' = [hooks EXCEPT ![b] = r]
      BY <1>3, <2>1
    <3> QED
      BY <1>1, <1>7, <2>1, <3>1, <3>2
  <2>2. CASE ~t0.mounted
    BY <1>3, <1>7, <2>2
  <2> QED
    BY <2>1, <2>2
<1>9. TapShape'
  BY <1>1, <1>3, <1>5, <1>6, <1>8 DEF TapShape
<1>10. Leaves(b)
  BY <1>3, <1>8 DEF Leaves
<1>11. overtaken \subseteq overtaken'
  BY <1>3
<1>12. /\ Grows
       /\ DOMAIN presses' = DOMAIN presses
       /\ \A c : Own(c)' = Own(c)
       /\ \A c, k : Latest(c, k)' <=> Latest(c, k)
       /\ \A c \in Buttons \ {b} : ButtonInv(c)'
  <2>1. \A k \in DOMAIN presses \ Own(b) :
          \/ presses'[k].fate = presses[k].fate
          \/ presses'[k].fate \in Neutral /\ presses[k].fate \in Neutral
    BY <1>2, <1>6
  <2> QED
    BY <1>1, <1>6, <1>9, <1>10, <1>11, <2>1, MovedIs
<1>13. \A k \in Own(b) : /\ k \in DOMAIN presses
                         /\ presses'[k].strayed = presses[k].strayed /\ presses'[k].way = presses[k].way
  BY <1>6 DEF Own, SamePresses
<1>14. \A k \in Own(b) :
         /\ k # i => (presses'[k].fate = "waiting" <=> presses[k].fate = "waiting")
         /\ \A f \in {"down", "half", "undo", "long", "cancelled", "overlaid", "unmounted"} :
              presses'[k].fate = f <=> presses[k].fate = f
  BY <1>2, <1>6, <1>13 DEF Neutral
<1>15. presses'[i].fate # "waiting"
  BY <1>6 DEF Neutral
<1>16. \A k \in Own(b) : Yielding(k)' <=> Yielding(k)
  BY <1>14 DEF Yielding
<1>17. Steady(b)
  BY <1>11, <1>13, <1>14 DEF Steady
<1>18. \A k \in Own(b) : Paired(k) => Paired(k)'
  BY <1>1, <1>9, <1>12, <1>17, PairedKept
<1>19. DownOf(b)' /\ Down(b)' = Down(b)
  <2>1. \A k : (k \in Down(b) <=> k \in Own(b) /\ presses[k].fate = "down")
              /\ (k \in Down(b)' <=> k \in Own(b)' /\ presses'[k].fate = "down")
    BY DEF Down, Own
  <2>2. DownOf(b)'
    BY <1>1, <1>12, <1>14 DEF ButtonInv, DownOf
  <2> QED
    BY <1>12, <1>14, <2>1, <2>2
<1>20. HookOf(b)'
  <2>1. HookOf(b)
    BY <1>1 DEF ButtonInv
  <2>2. hooks'[b].press # None \/ hooks'[b].pending => Down(b)' # {}
    BY <2>1, <1>8, <1>19 DEF HookOf
  <2>3. hooks'[b].pending => hooks'[b].single = None /\ \E k \in Own(b)' : Latest(b, k)' /\ Paired(k)'
    BY <2>1, <1>8, <1>12, <1>18 DEF HookOf
  <2>4. ASSUME hooks'[b].single # None
        PROVE  /\ Doubles(b)
               /\ \E t \in timers' : t.button = b /\ t.press = hooks'[b].single /\ t.mounted
               /\ \A j \in Own(b)' : j > hooks'[b].single => Yielding(j)'
    <3>1. hooks'[b].single = s /\ s # None /\ ~t0.mounted
      BY <1>8, <2>4
    <3>2. /\ Doubles(b)
          /\ \E t \in timers : t.button = b /\ t.press = s /\ t.mounted
          /\ \A j \in Own(b) : j > s => Yielding(j)
      BY <2>1, <3>1 DEF HookOf
    <3>3. PICK t \in timers : t.button = b /\ t.press = s /\ t.mounted
      BY <3>2
    <3>4. t \in timers'
      BY <1>3, <3>1, <3>3
    <3> QED
      BY <1>12, <1>16, <3>1, <3>2, <3>3, <3>4
  <2> QED
    BY <2>2, <2>3, <2>4 DEF HookOf
<1>21. TimersOf(b)'
  <2> SUFFICES ASSUME NEW t \in timers', t.button = b
               PROVE  /\ t.press \in Own(b)' /\ presses'[t.press].fate = "waiting"
                      /\ \A u \in timers' : u.button = b /\ u.press = t.press => u = t
                      /\ Latest(b, t.press)' => hooks'[b].since + t.left >= DoubleTap
    BY DEF TimersOf
  <2>1. t \in timers /\ t # t0
    BY <1>3
  <2>2. /\ t.press \in Own(b) /\ presses[t.press].fate = "waiting"
        /\ \A u \in timers : u.button = b /\ u.press = t.press => u = t
        /\ Latest(b, t.press) => hooks[b].since + t.left >= DoubleTap
    BY <1>1, <2>1 DEF ButtonInv, TimersOf
  <2>3. t.press # i
    BY <1>2, <2>1
  <2> QED
    BY <1>3, <1>8, <1>12, <1>14, <2>2, <2>3
<1>22. WaitOf(b)'
  <2> SUFFICES ASSUME NEW k \in Own(b)', presses'[k].fate = "waiting"
               PROVE  \E t \in timers' : t.button = b /\ t.press = k
    BY DEF WaitOf
  <2>1. k \in Own(b) /\ k # i /\ presses[k].fate = "waiting"
    BY <1>12, <1>14, <1>15
  <2>2. PICK t \in timers : t.button = b /\ t.press = k
    BY <1>1, <2>1 DEF ButtonInv, WaitOf
  <2> QED
    BY <1>3, <2>1, <2>2
<1>23. QuickOf(b)'
  <2> SUFFICES ASSUME Quick(b)
               PROVE  \E k \in Own(b) :
                        /\ Latest(b, k)
                        /\ \/ Yielding(k)'
                           \/ /\ presses'[k].fate = "waiting"
                              /\ hooks'[b].single = k \/ k \in overtaken'
    BY <1>8, <1>12 DEF QuickOf, Quick
  <2>1. PICK k \in Own(b) :
          /\ Latest(b, k)
          /\ Yielding(k) \/ (presses[k].fate = "waiting" /\ (s = k \/ k \in overtaken))
    BY <1>1 DEF ButtonInv, QuickOf
  <2>2. CASE Yielding(k)
    BY <1>16, <2>1, <2>2
  <2>3. CASE presses[k].fate = "waiting"
    <3>1. k # i
      <4>1. \A d, n \in Nat : d < n => ~(d + 0 >= n)
        OBVIOUS
      <4>2. hooks[b].since \in Nat /\ DoubleTap \in Nat
        BY <1>7, ControlsAssumption DEF Hooks
      <4>3. hooks[b].since < DoubleTap
        BY DEF Quick
      <4>4. ~Latest(b, i)
        BY <1>2, <1>3, <4>1, <4>2, <4>3
      <4> QED
        BY <2>1, <4>4
    <3>2. presses'[k].fate = "waiting"
      BY <1>14, <2>3, <3>1
    <3>3. k # None
      BY <1>1, <1>13, PressIndex, ControlsAssumption
    <3>4. hooks'[b].single = k \/ k \in overtaken'
      BY <1>3, <1>8, <1>16, <2>1, <2>3, <3>1, <3>3 DEF Yielding
    <3> QED
      BY <2>1, <3>2, <3>4
  <2> QED
    BY <2>1, <2>2, <2>3
<1>24. PairsOf(b)'
  <2>1. ASSUME NEW k \in Own(b), presses'[k].fate = "undo" PROVE Paired(k)'
    BY <1>1, <1>14, <1>18, <2>1 DEF ButtonInv, PairsOf
  <2>2. ASSUME NEW k \in Own(b), presses'[k].fate = "half" PROVE GaveWay(b, k)'
    <3>1. GaveWay(b, k)
      BY <1>1, <1>14, <2>2 DEF ButtonInv, PairsOf
    <3>2. \A j \in Own(b) : presses[j].fate = "down" /\ hooks[b].pending =>
            TakesUp(j)' \/ (presses'[j].fate = "down" /\ hooks'[b].pending)
      BY <1>8, <1>14
    <3> QED
      BY <1>1, <1>9, <1>12, <1>17, <3>1, <3>2, GaveKept
  <2> QED
    BY <1>12, <2>1, <2>2 DEF PairsOf
<1>25. PickerInv'
  <2>1. \A k \in DOMAIN presses : presses'[k].button = presses[k].button /\ presses'[k].way = presses[k].way
    BY <1>6 DEF SamePresses
  <2>2. \A k \in DOMAIN presses : presses[k].button = None =>
          k # i /\ presses[k].fate \in Neutral /\ presses[k].way = "plain"
    BY <1>1, <1>2, ControlsAssumption DEF TapInv, PickerInv
  <2>3. \A k \in DOMAIN presses' : presses'[k].button = None =>
          presses'[k].fate \in Neutral /\ presses'[k].way = "plain"
    BY <1>6, <1>12, <2>1, <2>2
  <2> QED
    BY <1>5, <2>3 DEF PickerInv, PicksOf
<1>26. LooseOf(b)'
  <2>1. LooseOf(b) /\ (Shared(b) => Shared(b)')
    BY <1>1, <1>3, <1>12, <1>13 DEF ButtonInv, Shared
  <2>2. Shared(b)' \/ grips'[b] = {} \/ hooks'[b].long \/ Down(b)' # {}
    BY <1>3, <1>8, <1>19, <2>1 DEF LooseOf
  <2> QED
    BY <1>1, <1>3, <1>9, <1>12, <2>1, <2>2, LooseKept
<1> QED
  BY <1>9, <1>12, <1>19, <1>20, <1>21, <1>22, <1>23, <1>24, <1>25, <1>26 DEF TapInv, ButtonInv

\* pressTimer runs out.
LEMMA LongFiresKeeps ==
  ASSUME TapInv, NEW b \in Buttons, LongFires(b)
  PROVE  TapInv'
<1> PICK s : s = hooks[b].single
  OBVIOUS
<1> PICK r : r = [press |-> None, long |-> TRUE, since |-> DoubleTap, pending |-> FALSE, single |-> None]
  OBVIOUS
<1>1. TapShape /\ ButtonInv(b)
  BY DEF TapInv
<1>2. /\ hooks[b].press = 0 /\ hooks' = [hooks EXCEPT ![b] = r]
      /\ timers' = {t \in timers : ~(t.mounted /\ t.button = b /\ t.press = s)}
      /\ presses' = Mark(Resolve(b, "long"), s, "half")
      /\ UNCHANGED <<grips, settings, picker, overtaken>>
  BY DEF LongFires, shown
<1>3. hooks \in [Buttons -> Hooks] /\ presses \in Seq(PressRecords) /\ timers \subseteq TapTimers
  BY <1>1 DEF TapShape
<1>4. /\ hooks' \in [Buttons -> Hooks] /\ hooks'[b] = r
      /\ \A c \in Buttons \ {b} : hooks'[c] = hooks[c]
      /\ r.press = None /\ r.long = TRUE /\ r.since = DoubleTap /\ r.pending = FALSE /\ r.single = None
  <2>1. DoubleTap \in 0..DoubleTap
    BY ControlsAssumption
  <2>2. r \in Hooks
    BY <2>1 DEF Hooks
  <2> QED
    BY <1>2, <1>3, <2>2
<1>5. PICK i \in Own(b) : Latest(b, i) /\ presses[i].fate = "down" /\ \A k : k \in Down(b) <=> k = i
  <2>1. hooks[b].press # None
    BY <1>2, ControlsAssumption
  <2>2. PICK i \in Down(b) : TRUE
    BY <1>1, <2>1 DEF ButtonInv, HookOf
  <2> QED
    BY <1>1, <2>2, DownIs DEF ButtonInv
<1>6. i \in DOMAIN presses /\ presses[i].button = b /\ Yielding(i)
  BY <1>5 DEF Own, Yielding
<1>7. s # None =>
        /\ s \in Own(b) /\ presses[s].fate = "waiting" /\ s < i
        /\ \A t \in timers : t.button = b /\ t.press = s => t.mounted
        /\ \A j \in Own(b) : j > s => Yielding(j)
  <2> SUFFICES ASSUME s # None
               PROVE  /\ s \in Own(b) /\ presses[s].fate = "waiting" /\ s < i
                      /\ \A t \in timers : t.button = b /\ t.press = s => t.mounted
                      /\ \A j \in Own(b) : j > s => Yielding(j)
    OBVIOUS
  <2>1. PICK u \in timers : u.button = b /\ u.press = s /\ u.mounted
    BY <1>1 DEF ButtonInv, HookOf
  <2>2. /\ s \in Own(b) /\ presses[s].fate = "waiting"
        /\ \A t \in timers : t.button = b /\ t.press = s => t = u
    BY <1>1, <2>1 DEF ButtonInv, TimersOf
  <2>3. s # i
    BY <1>5, <2>2
  <2>4. s \in Nat /\ i \in Nat /\ s <= i
    BY <1>1, <1>5, <2>2, PressIndex DEF Own, Latest
  <2>5. s < i
    BY <2>3, <2>4
  <2>6. \A j \in Own(b) : j > s => Yielding(j)
    BY <1>1 DEF ButtonInv, HookOf
  <2> QED
    BY <2>1, <2>2, <2>5, <2>6
<1>8. s = None => s \notin DOMAIN presses
  BY <1>1, PressIndex, ControlsAssumption
<1>9. /\ presses' \in Seq(PressRecords) /\ SamePresses(presses, presses')
      /\ \A k \in DOMAIN presses :
           presses'[k].fate = IF k = i THEN "long" ELSE IF k = s THEN "half" ELSE presses[k].fate
  <2> PICK qs : qs = Resolve(b, "long")
    OBVIOUS
  <2>1. "half" \in Fates /\ "long" \in Fates
    BY DEF Fates
  <2>2. /\ qs \in Seq(PressRecords) /\ SamePresses(presses, qs)
        /\ \A k \in DOMAIN presses : qs[k].fate = IF k \in Down(b) THEN "long" ELSE presses[k].fate
    BY <1>1, <2>1, ResolveIs
  <2>3. presses' = Mark(qs, s, "half")
    BY <1>2
  <2>4. /\ presses' \in Seq(PressRecords) /\ SamePresses(qs, presses')
        /\ \A k \in DOMAIN qs : presses'[k].fate = IF k = s THEN "half" ELSE qs[k].fate
    BY <2>1, <2>2, <2>3, MarkIs
  <2>5. DOMAIN qs = DOMAIN presses
    BY <1>3, <2>2 DEF SamePresses
  <2>6. SamePresses(presses, presses')
    BY <2>2, <2>4, <2>5 DEF SamePresses
  <2>7. i # s
    BY <1>3, <1>5, <1>6, <1>7, <1>8
  <2> QED
    BY <1>5, <2>2, <2>4, <2>5, <2>6, <2>7
<1>10. TapShape'
  BY <1>1, <1>2, <1>3, <1>4, <1>9 DEF TapShape
<1>11. Leaves(b)
  BY <1>2, <1>4 DEF Leaves
<1>12. /\ Grows
       /\ DOMAIN presses' = DOMAIN presses
       /\ \A c : Own(c)' = Own(c)
       /\ \A c, k : Latest(c, k)' <=> Latest(c, k)
       /\ \A c \in Buttons \ {b} : ButtonInv(c)'
  <2>1. \A k \in DOMAIN presses \ Own(b) :
          \/ presses'[k].fate = presses[k].fate
          \/ presses'[k].fate \in Neutral /\ presses[k].fate \in Neutral
    BY <1>5, <1>7, <1>8, <1>9
  <2> QED
    BY <1>1, <1>2, <1>9, <1>10, <1>11, <2>1, MovedIs
<1>13. \A k \in Own(b) : /\ k \in DOMAIN presses
                         /\ presses'[k].strayed = presses[k].strayed /\ presses'[k].way = presses[k].way
  BY <1>9 DEF Own, SamePresses
<1>14. \A k \in Own(b) : presses[k].fate = "down" => k = i
  BY <1>5 DEF Down, Own
<1>15. s # None => s \in Own(b) /\ s # i /\ presses[s].fate = "waiting"
  BY <1>1, <1>5, <1>7, PressIndex DEF Own, Yielding
<1>16. \A k \in Own(b) : k # s /\ k # i => presses'[k].fate = presses[k].fate
  BY <1>9, <1>13
<1>17. s \in Own(b) => s # None
  BY <1>8, <1>13
<1>18. Steady(b)
  BY <1>2, <1>5, <1>9, <1>13, <1>15, <1>16, <1>17 DEF Steady, Yielding
<1>19. presses'[i].fate = "long" /\ i \in Own(b)'
  BY <1>6, <1>9, <1>12, <1>5
<1>20. DownOf(b)'
  <2>1. \A k \in Own(b) : presses'[k].fate # "down"
    BY <1>9, <1>13, <1>14
  <2> QED
    BY <1>12, <2>1 DEF DownOf
<1>21. HookOf(b)'
  BY <1>4 DEF HookOf
<1>22. TimersOf(b)'
  <2> SUFFICES ASSUME NEW t \in timers', t.button = b
               PROVE  /\ t.press \in Own(b)' /\ presses'[t.press].fate = "waiting"
                      /\ \A u \in timers' : u.button = b /\ u.press = t.press => u = t
                      /\ Latest(b, t.press)' => hooks'[b].since + t.left >= DoubleTap
    BY DEF TimersOf
  <2>1. t \in timers /\ ~(t.mounted /\ t.press = s) /\ timers' \subseteq timers
    BY <1>2
  <2>2. /\ t.press \in Own(b) /\ presses[t.press].fate = "waiting"
        /\ \A u \in timers : u.button = b /\ u.press = t.press => u = t
    BY <1>1, <2>1 DEF ButtonInv, TimersOf
  <2>3. t.press # s
    BY <1>7, <1>17, <2>1, <2>2
  <2>4. t.press # i
    BY <1>5, <2>2 DEF Yielding
  <2>5. ~Latest(b, t.press)
    BY <1>1, <1>5, <2>4, OneLatest
  <2> QED
    BY <1>12, <1>16, <2>1, <2>2, <2>3, <2>4, <2>5
<1>23. WaitOf(b)'
  <2> SUFFICES ASSUME NEW k \in Own(b)', presses'[k].fate = "waiting"
               PROVE  \E t \in timers' : t.button = b /\ t.press = k
    BY DEF WaitOf
  <2>1. k \in Own(b) /\ k # i /\ k # s /\ presses[k].fate = "waiting"
    BY <1>9, <1>12, <1>13
  <2>2. PICK t \in timers : t.button = b /\ t.press = k
    BY <1>1, <2>1 DEF ButtonInv, WaitOf
  <2> QED
    BY <1>2, <2>1, <2>2
<1>24. QuickOf(b)'
  BY <1>4, ControlsAssumption DEF QuickOf, Quick
<1>25. PairsOf(b)'
  <2>1. ASSUME NEW k \in Own(b), presses'[k].fate = "undo" PROVE Paired(k)'
    <3>1. presses[k].fate = "undo"
      BY <1>9, <1>13, <2>1
    <3>2. Paired(k)
      BY <1>1, <3>1 DEF ButtonInv, PairsOf
    <3> QED
      BY <1>1, <1>10, <1>12, <1>18, <3>2, PairedKept
  <2>2. ASSUME NEW k \in Own(b), presses'[k].fate = "half" PROVE GaveWay(b, k)'
    <3>1. CASE presses[k].fate = "half"
      <4>1. GaveWay(b, k)
        BY <1>1, <3>1 DEF ButtonInv, PairsOf
      <4>2. \A j \in Own(b) : presses[j].fate = "down" /\ hooks[b].pending =>
              TakesUp(j)' \/ (presses'[j].fate = "down" /\ hooks'[b].pending)
        BY <1>14, <1>19 DEF TakesUp
      <4> QED
        BY <1>1, <1>10, <1>12, <1>18, <4>1, <4>2, GaveKept
    <3>2. CASE k = s
      <4>1. s < i /\ \A j \in Own(b) : j > s => Yielding(j)
        BY <1>7, <1>17, <3>2
      <4>2. PICK j \in Own(b) : Follow(k, j)
        BY <1>1, <1>5, <3>2, <4>1, NextPress
      <4>3. Yielding(j) /\ j # s
        <5>1. k < j
          BY <4>2 DEF Follow
        <5>2. \A m, n \in Nat : m < n => n > m /\ n # m
          OBVIOUS
        <5>3. k \in Nat /\ j \in Nat
          BY <1>1, <1>13, PressIndex
        <5> QED
          BY <3>2, <4>1, <5>1, <5>2, <5>3
      <4>4. TakesUp(j)'
        <5>1. CASE j = i
          BY <1>19, <5>1 DEF TakesUp
        <5>2. CASE j # i
          BY <1>14, <1>16, <4>3, <5>2 DEF TakesUp, Yielding
        <5> QED
          BY <5>1, <5>2
      <4>5. Follow(k, j)' /\ j \in DOMAIN presses'
        BY <1>1, <1>10, <1>12, <1>13, <4>2, FollowKept
      <4> QED
        BY <4>4, <4>5 DEF GaveWay
    <3> QED
      BY <1>9, <1>13, <2>2, <3>1, <3>2
  <2> QED
    BY <1>12, <2>1, <2>2 DEF PairsOf
<1>26. PickerInv'
  <2>1. \A k \in DOMAIN presses : presses'[k].fate = "asked" <=> presses[k].fate = "asked"
    BY <1>5, <1>7, <1>8, <1>9 DEF Yielding
  <2>2. \A k \in DOMAIN presses : presses[k].button = None => k \notin Own(b) /\ presses[k].fate \in Neutral
    BY ControlsAssumption DEF TapInv, PickerInv, Own
  <2>3. \A k \in DOMAIN presses : presses[k].button = None => presses'[k].fate \in Neutral
    BY <1>5, <1>7, <1>8, <1>9, <2>2
  <2> QED
    BY <1>2, <1>10, <1>12, <2>1, <2>3, PickerKept
<1>27. LooseOf(b)'
  <2>1. LooseOf(b) /\ (Shared(b) => Shared(b)')
    BY <1>1, <1>2, <1>12, <1>13 DEF ButtonInv, Shared
  <2>2. hooks'[b].long
    BY <1>4
  <2> QED
    BY <1>1, <1>2, <1>10, <1>12, <2>1, <2>2, LooseKept
<1> QED
  BY <1>10, <1>12, <1>20, <1>21, <1>22, <1>23, <1>24, <1>25, <1>26, <1>27 DEF TapInv, ButtonInv

-----------------------------------------------------------------------------
\* Steps on every button at once, and on none.

LEMMA TickKeeps ==
  ASSUME TapInv, Tick
  PROVE  TapInv'
<1>1. TapShape /\ \A b \in Buttons : hooks[b] \in Hooks
  BY DEF TapInv, TapShape
<1>2. /\ \A t \in timers : t.left # 0
      /\ \A b \in Buttons : hooks[b].press # 0
      /\ timers' = {[t EXCEPT !.left = @ - 1] : t \in timers}
      /\ hooks' = [b \in Buttons |->
           [hooks[b] EXCEPT !.press = Later(@), !.since = IF @ < DoubleTap THEN @ + 1 ELSE @]]
      /\ UNCHANGED <<grips, settings, presses, picker, overtaken>>
  BY DEF Tick, shown, opened
<1>3. DoubleTap \in Nat
  BY ControlsAssumption
<1>4. ASSUME NEW b \in Buttons
      PROVE  /\ hooks'[b] \in Hooks
             /\ hooks'[b].long = hooks[b].long /\ hooks'[b].pending = hooks[b].pending
             /\ hooks'[b].single = hooks[b].single
             /\ hooks'[b].press # None => hooks[b].press # None
             /\ hooks'[b].since = IF hooks[b].since < DoubleTap THEN hooks[b].since + 1 ELSE hooks[b].since
  <2> PICK p : p = Later(hooks[b].press)
    OBVIOUS
  <2> PICK s : s = IF hooks[b].since < DoubleTap THEN hooks[b].since + 1 ELSE hooks[b].since
    OBVIOUS
  <2>1. p \in Nat \cup {None} /\ (p # None => hooks[b].press # None)
    <3>1. hooks[b].press \in Nat \cup {None} /\ hooks[b].press # 0
      BY <1>1, <1>2 DEF Hooks
    <3>2. \A n \in Nat : n # 0 => n - 1 \in Nat
      OBVIOUS
    <3> QED
      BY <3>1, <3>2 DEF Later
  <2>2. s \in 0..DoubleTap
    BY <1>1, <1>3 DEF Hooks
  <2>3. hooks'[b] = [hooks[b] EXCEPT !.press = p, !.since = s]
    BY <1>2
  <2>4. [hooks[b] EXCEPT !.press = p, !.since = s] \in Hooks
    BY <1>1, <2>1, <2>2 DEF Hooks
  <2>5. /\ [hooks[b] EXCEPT !.press = p, !.since = s].press = p
        /\ [hooks[b] EXCEPT !.press = p, !.since = s].since = s
        /\ [hooks[b] EXCEPT !.press = p, !.since = s].long = hooks[b].long
        /\ [hooks[b] EXCEPT !.press = p, !.since = s].pending = hooks[b].pending
        /\ [hooks[b] EXCEPT !.press = p, !.since = s].single = hooks[b].single
    BY <1>1 DEF Hooks
  <2> QED
    BY <2>1, <2>3, <2>4, <2>5
<1>5. ASSUME NEW t \in timers
      PROVE  /\ [t EXCEPT !.left = @ - 1] \in TapTimers
             /\ [t EXCEPT !.left = @ - 1].button = t.button
             /\ [t EXCEPT !.left = @ - 1].press = t.press
             /\ [t EXCEPT !.left = @ - 1].mounted = t.mounted
             /\ [t EXCEPT !.left = @ - 1].left = t.left - 1
  <2>1. t \in TapTimers
    BY <1>1 DEF TapShape
  <2>2. t.left - 1 \in 0..DoubleTap
    <3>1. t.left \in 0..DoubleTap /\ t.left # 0
      BY <1>2, <2>1 DEF TapTimers
    <3>2. \A d \in Nat : \A n \in 0..d : n # 0 => n - 1 \in 0..d
      OBVIOUS
    <3> QED
      BY <1>3, <3>1, <3>2
  <2>3. [t EXCEPT !.left = @ - 1] = [t EXCEPT !.left = t.left - 1]
    BY <2>1 DEF TapTimers
  <2> QED
    BY <2>1, <2>2, <2>3 DEF TapTimers
<1>6. hooks' \in [Buttons -> Hooks]
  BY <1>2, <1>4
<1>7. timers' \subseteq TapTimers
  BY <1>2, <1>5
<1>8. TapShape'
  BY <1>1, <1>2, <1>6, <1>7 DEF TapShape
<1>9. PickerInv'
  BY <1>2 DEF TapInv, PickerInv
<1>10. \A b \in Buttons : ButtonInv(b)'
  <2> SUFFICES ASSUME NEW b \in Buttons PROVE ButtonInv(b)'
    OBVIOUS
  <2>1. ButtonInv(b)
    BY DEF TapInv
  <2>2. /\ Own(b)' = Own(b)
        /\ \A k : Latest(b, k)' <=> Latest(b, k)
        /\ \A k : Yielding(k)' <=> Yielding(k)
        /\ \A k : Paired(k)' <=> Paired(k)
    BY <1>2 DEF Own, Latest, Yielding, Paired, Follow
  <2>3. DownOf(b)' /\ Down(b)' = Down(b)
    BY <1>2, <2>1, <2>2 DEF ButtonInv, DownOf, Down
  <2>4. HookOf(b)'
    <3>1. HookOf(b)
      BY <2>1 DEF ButtonInv
    <3>2. \A t \in timers : \E u \in timers' : u.button = t.button /\ u.press = t.press /\ u.mounted = t.mounted
      BY <1>2, <1>5
    <3>3. hooks[b].single # None =>
            /\ Doubles(b)
            /\ \E t \in timers' : t.button = b /\ t.press = hooks[b].single /\ t.mounted
            /\ \A j \in Own(b) : j > hooks[b].single => Yielding(j)
      BY <3>1, <3>2 DEF HookOf
    <3> QED
      BY <1>4, <2>2, <2>3, <3>1, <3>3 DEF HookOf
  <2>5. TimersOf(b)'
    <3> SUFFICES ASSUME NEW t \in timers', t.button = b
                 PROVE  /\ t.press \in Own(b)' /\ presses'[t.press].fate = "waiting"
                        /\ \A u \in timers' : u.button = b /\ u.press = t.press => u = t
                        /\ Latest(b, t.press)' => hooks'[b].since + t.left >= DoubleTap
      BY DEF TimersOf
    <3>1. PICK v \in timers : t = [v EXCEPT !.left = @ - 1]
      BY <1>2
    <3>2. t.press = v.press /\ v.button = b /\ t.left = v.left - 1
      BY <1>5, <3>1
    <3>3. /\ v.press \in Own(b) /\ presses[v.press].fate = "waiting"
          /\ \A u \in timers : u.button = b /\ u.press = v.press => u = v
          /\ Latest(b, v.press) => hooks[b].since + v.left >= DoubleTap
      BY <2>1, <3>2 DEF ButtonInv, TimersOf
    <3>4. ASSUME NEW u \in timers', u.button = b, u.press = t.press PROVE u = t
      <4>1. PICK w \in timers : u = [w EXCEPT !.left = @ - 1]
        BY <1>2
      <4>2. w.button = b /\ w.press = v.press
        BY <1>5, <3>2, <3>4, <4>1
      <4> QED
        BY <3>1, <3>3, <4>1, <4>2
    <3>5. hooks[b].since + v.left >= DoubleTap => hooks'[b].since + t.left >= DoubleTap
      <4>1. hooks[b].since \in 0..DoubleTap /\ v.left \in Nat /\ v.left # 0
        <5>1. hooks[b].since \in 0..DoubleTap
          BY <1>1 DEF Hooks
        <5>2. v.left \in 0..DoubleTap
          BY <1>1 DEF TapShape, TapTimers
        <5>3. v.left # 0
          BY <1>2
        <5> QED
          BY <1>3, <5>1, <5>2, <5>3
      <4>2. hooks'[b].since = IF hooks[b].since < DoubleTap THEN hooks[b].since + 1 ELSE hooks[b].since
        BY <1>4
      <4>3. \A d \in Nat : \A m \in 0..d : \A n \in Nat :
              n # 0 /\ m + n >= d => (IF m < d THEN m + 1 ELSE m) + (n - 1) >= d
        OBVIOUS
      <4> QED
        BY <1>3, <3>2, <4>1, <4>2, <4>3
    <3> QED
      BY <1>2, <2>2, <3>2, <3>3, <3>4, <3>5
  <2>6. WaitOf(b)'
    <3>1. \A t \in timers : \E u \in timers' : u.button = t.button /\ u.press = t.press
      BY <1>2, <1>5
    <3>2. presses' = presses
      BY <1>2
    <3>3. WaitOf(b)
      BY <2>1 DEF ButtonInv
    <3> QED
      BY <2>2, <3>1, <3>2, <3>3 DEF WaitOf
  <2>7. QuickOf(b)'
    <3>1. hooks'[b].since < DoubleTap => hooks[b].since < DoubleTap
      BY <1>1, <1>3, <1>4 DEF Hooks
    <3>2. Quick(b)' => Quick(b)
      BY <3>1 DEF Quick
    <3> QED
      BY <1>2, <1>4, <2>1, <2>2, <3>2 DEF ButtonInv, QuickOf
  <2>8. PairsOf(b)'
    <3>1. \A k : GaveWay(b, k) => GaveWay(b, k)'
      BY <1>2, <1>4 DEF GaveWay, TakesUp, Follow
    <3> QED
      BY <1>2, <2>1, <2>2, <3>1 DEF ButtonInv, PairsOf
  <2>9. LooseOf(b)'
    BY <1>2, <1>4, <2>1, <2>2, <2>3 DEF ButtonInv, LooseOf, Shared
  <2> QED
    BY <2>3, <2>4, <2>5, <2>6, <2>7, <2>8, <2>9 DEF ButtonInv
<1> QED
  BY <1>8, <1>9, <1>10 DEF TapInv

LEMMA OpenConfigKeeps ==
  ASSUME TapInv, OpenConfig
  PROVE  TapInv'
<1> DEFINE Unmounted(i) ==
      presses[i].fate = "down" \/ \E t \in timers : t.press = i /\ Referenced(t)
<1>1. TapShape /\ PickerInv
  BY DEF TapInv
<1>2. /\ timers' = {[t EXCEPT !.mounted = FALSE] : t \in {u \in timers : ~Referenced(u)}}
      /\ presses' = [i \in DOMAIN presses |->
           IF Unmounted(i) THEN [presses[i] EXCEPT !.fate = "unmounted"] ELSE presses[i]]
      /\ hooks' = [b \in Buttons |-> FreshHook] /\ grips' = [b \in Buttons |-> {}]
      /\ UNCHANGED <<settings, picker, overtaken>>
  BY DEF OpenConfig, opened
<1>3. DOMAIN presses = 1..Len(presses) /\ Len(presses) \in Nat
  BY <1>1, PressIndex
<1>4. ASSUME NEW i \in DOMAIN presses
      PROVE  /\ presses'[i] \in PressRecords
             /\ presses'[i].button = presses[i].button /\ presses'[i].way = presses[i].way
             /\ presses'[i].strayed = presses[i].strayed
             /\ presses'[i].fate = IF Unmounted(i) THEN "unmounted" ELSE presses[i].fate
  <2>1. presses[i] \in PressRecords
    BY <1>1, PressAt
  <2>2. "unmounted" \in Fates
    BY DEF Fates
  <2>3. presses'[i] = IF Unmounted(i) THEN [presses[i] EXCEPT !.fate = "unmounted"] ELSE presses[i]
    BY <1>2
  <2> HIDE DEF Unmounted
  <2> QED
    BY <2>1, <2>2, <2>3 DEF PressRecords
<1>5. presses' \in Seq(PressRecords) /\ Len(presses') = Len(presses)
  <2>1. DOMAIN presses' = 1..Len(presses)
    BY <1>2, <1>3
  <2>2. presses' \in [1..Len(presses) -> PressRecords]
    BY <1>2, <1>3, <1>4, <2>1
  <2>3. presses' \in Seq(PressRecords)
    BY <1>3, <2>2
  <2> QED
    BY <1>3, <2>1, <2>3
<1>6. /\ FreshHook \in Hooks /\ FreshHook.press = None /\ FreshHook.pending = FALSE
      /\ FreshHook.single = None /\ FreshHook.since = DoubleTap
  <2>1. DoubleTap \in 0..DoubleTap
    BY ControlsAssumption
  <2> QED
    BY <2>1 DEF FreshHook, Hooks
<1>7. hooks' \in [Buttons -> Hooks] /\ \A b \in Buttons : hooks'[b] = FreshHook
  BY <1>2, <1>6
<1>8. ASSUME NEW t \in timers
      PROVE  /\ [t EXCEPT !.mounted = FALSE] \in TapTimers
             /\ [t EXCEPT !.mounted = FALSE].button = t.button
             /\ [t EXCEPT !.mounted = FALSE].press = t.press
             /\ [t EXCEPT !.mounted = FALSE].left = t.left
  BY <1>1 DEF TapShape, TapTimers
<1>9. timers' \subseteq TapTimers
  BY <1>2, <1>8
<1>10. TapShape'
  BY <1>1, <1>2, <1>5, <1>7, <1>9 DEF TapShape
<1>11. /\ Grows
       /\ DOMAIN presses' = DOMAIN presses
       /\ \A b : Own(b)' = Own(b)
       /\ \A b, k : Latest(b, k)' <=> Latest(b, k)
  BY <1>1, <1>4, <1>5, <1>10, SameIs
<1>12. ASSUME NEW t \in timers
       PROVE  /\ t.button \in Buttons /\ t.press \in Own(t.button) /\ t.press \in DOMAIN presses
              /\ presses[t.press].fate = "waiting"
              /\ \A u \in timers : u.press = t.press => u = t
  <2>1. t.button \in Buttons /\ \A u \in timers : u.button \in Buttons
    BY <1>1 DEF TapShape, TapTimers
  <2>2. \A u \in timers :
          /\ u.press \in Own(u.button) /\ presses[u.press].fate = "waiting"
          /\ \A v \in timers : v.button = u.button /\ v.press = u.press => v = u
    BY <2>1 DEF TapInv, ButtonInv, TimersOf
  <2>3. \A u \in timers : presses[u.press].button = u.button
    BY <2>2 DEF Own
  <2> QED
    BY <2>1, <2>2, <2>3 DEF Own
<1>13. \A i \in DOMAIN presses : Unmounted(i) => presses[i].fate \in {"down", "waiting"}
  BY <1>12
<1> HIDE DEF Unmounted
<1>14. PickerInv'
  <2>1. \A k \in DOMAIN presses : presses'[k].fate = "asked" <=> presses[k].fate = "asked"
    BY <1>4, <1>13
  <2>2. \A k \in DOMAIN presses : presses[k].button = None => presses'[k].fate \in Neutral
    BY <1>1, <1>4, <1>13 DEF PickerInv, Neutral
  <2> QED
    BY <1>2, <1>10, <1>11, <2>1, <2>2, PickerKept
<1>15. \A b \in Buttons : ButtonInv(b)'
  <2> SUFFICES ASSUME NEW b \in Buttons PROVE ButtonInv(b)'
    OBVIOUS
  <2>1. ButtonInv(b)
    BY DEF TapInv
  <2>2. \A k \in Own(b) : k \in DOMAIN presses
    BY DEF Own
  <2>3. Steady(b)
    BY <1>2, <1>4, <1>13, <2>2 DEF Steady
  <2>4. \A k \in DOMAIN presses : presses'[k].fate # "down"
    BY <1>4 DEF Unmounted
  <2>5. DownOf(b)'
    BY <1>11, <2>2, <2>4 DEF DownOf
  <2>6. HookOf(b)'
    BY <1>6, <1>7 DEF HookOf
  <2>7. TimersOf(b)'
    <3> SUFFICES ASSUME NEW t \in timers', t.button = b
                 PROVE  /\ t.press \in Own(b)' /\ presses'[t.press].fate = "waiting"
                        /\ \A u \in timers' : u.button = b /\ u.press = t.press => u = t
                        /\ Latest(b, t.press)' => hooks'[b].since + t.left >= DoubleTap
      BY DEF TimersOf
    <3>1. PICK v \in timers : ~Referenced(v) /\ t = [v EXCEPT !.mounted = FALSE]
      BY <1>2
    <3>2. t.press = v.press /\ v.button = b
      BY <1>8, <3>1
    <3>3. presses'[t.press].fate = "waiting"
      BY <1>4, <1>12, <3>1, <3>2 DEF Unmounted
    <3>4. ASSUME NEW u \in timers', u.press = t.press PROVE u = t
      <4>1. PICK w \in timers : u = [w EXCEPT !.mounted = FALSE]
        BY <1>2
      <4>2. w.press = v.press
        BY <1>8, <3>2, <3>4, <4>1
      <4> QED
        BY <1>12, <3>1, <4>1, <4>2
    <3>5. hooks'[b].since + t.left >= DoubleTap
      <4>1. t.left \in Nat
        BY <1>9 DEF TapTimers
      <4>2. \A d, n \in Nat : d + n >= d
        OBVIOUS
      <4> QED
        BY <1>6, <1>7, <4>1, <4>2, ControlsAssumption
    <3> QED
      BY <1>11, <1>12, <3>1, <3>2, <3>3, <3>4, <3>5
  <2>8. WaitOf(b)'
    <3> SUFFICES ASSUME NEW k \in Own(b), presses'[k].fate = "waiting"
                 PROVE  \E t \in timers' : t.button = b /\ t.press = k
      BY <1>11 DEF WaitOf
    <3>1. presses[k].fate = "waiting" /\ ~Unmounted(k)
      BY <1>4, <2>2
    <3>2. PICK t \in timers : t.button = b /\ t.press = k
      BY <2>1, <3>1 DEF ButtonInv, WaitOf
    <3>3. ~Referenced(t)
      BY <3>1, <3>2 DEF Unmounted
    <3>4. [t EXCEPT !.mounted = FALSE] \in timers'
      BY <1>2, <3>3
    <3> QED
      BY <1>8, <3>2, <3>4
  <2>9. QuickOf(b)'
    <3>1. ~(hooks'[b].since < DoubleTap)
      BY <1>6, <1>7, ControlsAssumption
    <3> QED
      BY <3>1 DEF QuickOf, Quick
  <2>10. PairsOf(b)'
    <3>1. ASSUME NEW k \in Own(b), presses'[k].fate = "undo" PROVE Paired(k)'
      <4>1. Paired(k)
        BY <1>4, <2>1, <2>2, <3>1 DEF ButtonInv, PairsOf
      <4> QED
        BY <1>1, <1>10, <1>11, <2>3, <4>1, PairedKept
    <3>2. ASSUME NEW k \in Own(b), presses'[k].fate = "half" PROVE GaveWay(b, k)'
      <4>1. GaveWay(b, k)
        BY <1>4, <2>1, <2>2, <3>2 DEF ButtonInv, PairsOf
      <4>2. \A j \in Own(b) : presses[j].fate = "down" /\ hooks[b].pending => TakesUp(j)'
        BY <1>4, <2>2 DEF TakesUp, Unmounted
      <4> QED
        BY <1>1, <1>10, <1>11, <2>3, <4>1, <4>2, GaveKept
    <3> QED
      BY <1>11, <3>1, <3>2 DEF PairsOf
  <2>11. LooseOf(b)'
    <3>1. grips'[b] = {} /\ LooseOf(b)
      BY <1>2, <2>1 DEF ButtonInv
    <3> QED
      BY <1>1, <1>2, <1>10, <1>11, <3>1, LooseKept
  <2> QED
    BY <2>5, <2>6, <2>7, <2>8, <2>9, <2>10, <2>11 DEF ButtonInv
<1> QED
  BY <1>10, <1>14, <1>15 DEF TapInv

LEMMA ShortcutKeeps ==
  ASSUME TapInv, NEW b \in Buttons, Shortcut(b)
  PROVE  TapInv'
<1> PICK n : n = Len(presses) + 1
  OBVIOUS
<1> PICK ps : ps = Comes(presses, None, "plain")
  OBVIOUS
<1>1. TapShape /\ PickerInv
  BY DEF TapInv
<1>2. Tapped(b, n, ps) /\ UNCHANGED <<hooks, grips, settings, timers, overtaken>>
  BY DEF Shortcut, shown
<1>3. DOMAIN presses = 1..Len(presses) /\ Len(presses) \in Nat
  BY <1>1, PressIndex
<1>4. /\ ps \in Seq(PressRecords) /\ Len(ps) = n /\ DOMAIN ps = 1..n
      /\ \A k \in DOMAIN presses : k \in DOMAIN ps /\ ps[k] = presses[k]
      /\ ps[n].button = None /\ ps[n].way = "plain" /\ ps[n].fate = "down" /\ ps[n].strayed = FALSE
  <2>1. presses \in Seq(PressRecords) /\ None \in Buttons \cup {None} /\ "plain" \in Ways
    BY <1>1 DEF TapShape, Ways
  <2>2. Came(presses, ps, None, "plain")
    BY <2>1, ComesIs
  <2> QED
    BY <2>2 DEF Came
<1>5. n \in DOMAIN ps /\ n \notin DOMAIN presses /\ \A k \in DOMAIN ps : k \in DOMAIN presses \/ k = n
  BY <1>3, <1>4
<1>6. PicksOf(ps, picker)
  BY <1>1, <1>4, <1>5 DEF PickerInv, PicksOf
<1>7. /\ Handled(ps, presses', n)
      /\ PicksOf(presses', picker')
      /\ picker' \in Pickers \cup {None}
  BY <1>1, <1>2, <1>4, <1>5, <1>6, TappedIs
<1>8. /\ presses' \in Seq(PressRecords) /\ Len(presses') = n /\ presses'[n].fate \in Neutral
      /\ \A k \in DOMAIN ps : presses'[k].button = ps[k].button /\ presses'[k].way = ps[k].way
                              /\ presses'[k].strayed = ps[k].strayed
      /\ \A k \in DOMAIN ps : k # n =>
           presses'[k].fate = ps[k].fate \/ (presses'[k].fate \in Neutral /\ ps[k].fate \in Neutral)
  BY <1>4, <1>7 DEF Handled, SamePresses
<1>9. TapShape'
  BY <1>1, <1>2, <1>7, <1>8 DEF TapShape
<1>10. DOMAIN presses' = DOMAIN ps
  <2>1. n \in Nat
    BY <1>3
  <2> QED
    BY <1>4, <1>8, <2>1
<1>11. Grows
  BY <1>3, <1>4, <1>8 DEF Grows
<1>12. Spares(None)
  <2>1. \A k \in DOMAIN presses : k # n /\ k \in DOMAIN ps /\ ps[k] = presses[k]
    BY <1>4, <1>5
  <2>2. \A k \in DOMAIN presses' \ DOMAIN presses : presses'[k].button = None
    BY <1>4, <1>5, <1>8, <1>10
  <2> QED
    BY <1>2, <1>8, <2>1, <2>2 DEF Spares
<1>13. Leaves(None)
  BY <1>2 DEF Leaves
<1>14. \A c \in Buttons \ {None} : ButtonInv(c)'
  BY <1>9, <1>11, <1>12, <1>13, OthersOf
<1>15. \A c \in Buttons : ButtonInv(c)'
  BY <1>14, ControlsAssumption
<1>16. \A k \in DOMAIN presses' : presses'[k].button = None =>
         presses'[k].fate \in Neutral /\ presses'[k].way = "plain"
  BY <1>1, <1>4, <1>5, <1>8, <1>10 DEF PickerInv
<1> QED
  BY <1>7, <1>9, <1>15, <1>16 DEF TapInv, PickerInv, PicksOf

\* The press that the picker is about is made something of, and the picker closes.
LEMMA AnswerPicker ==
  ASSUME TapInv, picker # None, picker' = None, NEW f \in {"sent", "closed"},
         presses' = Mark(presses, picker.press, f),
         UNCHANGED <<hooks, grips, settings, timers, overtaken>>
  PROVE  TapInv'
<1> PICK p : p = picker.press
  OBVIOUS
<1>1. TapShape /\ PickerInv
  BY DEF TapInv
<1>2. p \in DOMAIN presses /\ \A k \in DOMAIN presses : presses[k].fate = "asked" <=> k = p
  BY <1>1 DEF PickerInv
<1>3. /\ presses' \in Seq(PressRecords) /\ SamePresses(presses, presses')
      /\ \A k \in DOMAIN presses : presses'[k].fate = IF k = p THEN f ELSE presses[k].fate
  <2>1. f \in Fates /\ presses \in Seq(PressRecords)
    BY <1>1 DEF Fates, Neutral, TapShape
  <2> QED
    BY <2>1, MarkIs
<1>4. TapShape'
  BY <1>1, <1>3 DEF TapShape
<1>5. Leaves(None)
  BY DEF Leaves
<1>6. \A k \in DOMAIN presses :
        \/ presses'[k].fate = presses[k].fate
        \/ presses'[k].fate \in Neutral /\ presses[k].fate \in Neutral
  BY <1>2, <1>3 DEF Neutral
<1>7. /\ DOMAIN presses' = DOMAIN presses
      /\ \A c \in Buttons \ {None} : ButtonInv(c)'
  BY <1>3, <1>4, <1>5, <1>6, MovedIs
<1>8. \A c \in Buttons : ButtonInv(c)'
  BY <1>7, ControlsAssumption
<1>9. \A k \in DOMAIN presses : presses'[k].button = presses[k].button /\ presses'[k].way = presses[k].way
  BY <1>3 DEF SamePresses
<1>10. PickerInv'
  BY <1>1, <1>2, <1>3, <1>7, <1>9 DEF PickerInv, Neutral
<1> QED
  BY <1>4, <1>8, <1>10 DEF TapInv

LEMMA StillKeeps ==
  ASSUME TapInv, UNCHANGED <<hooks, grips, settings, timers, presses, overtaken>>,
         \/ picker' = picker
         \/ picker # None /\ \E w \in {"main", "error"} : picker' = [picker EXCEPT !.step = w]
  PROVE  TapInv'
<1>1. /\ picker' \in Pickers \cup {None}
      /\ picker' # None <=> picker # None
      /\ picker # None => picker'.press = picker.press
  <2>1. CASE picker' = picker
    BY <2>1 DEF TapInv, TapShape
  <2>2. ASSUME picker # None, NEW w \in {"main", "error"}, picker' = [picker EXCEPT !.step = w]
        PROVE  picker' \in Pickers /\ picker'.press = picker.press
    <3>1. picker \in Pickers
      BY <2>2 DEF TapInv, TapShape
    <3> QED
      BY <2>2, <3>1 DEF Pickers
  <2> QED
    BY <2>1, <2>2, ControlsAssumption
<1>2. TapShape'
  BY <1>1 DEF TapInv, TapShape
<1>3. PickerInv'
  BY <1>1 DEF TapInv, PickerInv
<1>4. \A b \in Buttons : ButtonInv(b)'
  BY DEF TapInv, ButtonInv, DownOf, HookOf, TimersOf, WaitOf, QuickOf, PairsOf, LooseOf, Quick, Paired,
         GaveWay, TakesUp, Yielding, Latest, Own, Down, Shared, Follow
<1> QED
  BY <1>2, <1>3, <1>4 DEF TapInv

-----------------------------------------------------------------------------
LEMMA InitTaps == ControlsInit => TapInv
<1> SUFFICES ASSUME ControlsInit PROVE TapInv
  OBVIOUS
<1>1. /\ hooks = [b \in Buttons |-> FreshHook] /\ grips = [b \in Buttons |-> {}] /\ timers = {}
      /\ presses = <<>> /\ picker = None
  BY DEF ControlsInit
<1>2. DoubleTap \in 0..DoubleTap
  BY ControlsAssumption
<1>3. /\ FreshHook \in Hooks /\ FreshHook.press = None /\ FreshHook.pending = FALSE
      /\ FreshHook.single = None /\ ~(FreshHook.since < DoubleTap)
  BY <1>2, ControlsAssumption DEF FreshHook, Hooks
<1>4. hooks \in [Buttons -> Hooks] /\ \A b \in Buttons : hooks[b] = FreshHook
  BY <1>1, <1>3
<1>5. DOMAIN presses = {} /\ presses \in Seq(PressRecords)
  BY <1>1
<1>6. TapShape
  BY <1>1, <1>4, <1>5 DEF TapShape
<1>7. PickerInv
  BY <1>1, <1>5 DEF PickerInv
<1>8. \A b : Own(b) = {}
  BY <1>5 DEF Own
<1>9. \A b \in Buttons : ButtonInv(b)
  BY <1>1, <1>3, <1>4, <1>8 DEF ButtonInv, DownOf, HookOf, TimersOf, WaitOf, QuickOf, Quick, PairsOf, LooseOf
<1> QED
  BY <1>6, <1>7, <1>9 DEF TapInv

LEMMA StepTaps == TapInv /\ [ControlsNext]_controlVars => TapInv'
<1> SUFFICES ASSUME TapInv, [ControlsNext]_controlVars PROVE TapInv'
  OBVIOUS
<1>1. ASSUME NEW b \in Buttons, OnButton(b) PROVE TapInv'
  <2>1. ASSUME NEW hand \in settings.hands, Press(b, hand) PROVE TapInv'
    <3>1. Takes(b, hand) /\ UNCHANGED <<settings, picker, overtaken>>
      BY <2>1 DEF Press, shown, opened
    <3>2. PICK q \in Haste(b) : Begin(b, q)
      BY <2>1 DEF Press
    <3> QED
      BY <3>1, <3>2, BeginKeeps
  <2>2. ASSUME NEW space \in BOOLEAN, KeyDown(b, space) PROVE TapInv'
    <3>1. Takes(b, "key") /\ UNCHANGED <<settings, picker, overtaken>>
      BY <2>2 DEF KeyDown, shown, opened
    <3>2. PICK q \in Haste(b) : Begin(b, q)
      BY <2>2 DEF KeyDown
    <3> QED
      BY <3>1, <3>2, BeginKeeps
  <2>3. ASSUME NEW hand \in settings.hands, Stray(b, hand) \/ Gone(b, hand) PROVE TapInv'
    BY <2>3, StrayKeeps, GoneKeeps
  <2>4. ASSUME NEW hand \in settings.hands, Release(b, hand) PROVE TapInv'
    BY <2>4, ReleaseKeeps
  <2>7. CASE Unheard(b)
    BY <2>7, UnheardKeeps
  <2>5. CASE LongFires(b)
    BY <2>5, LongFiresKeeps
  <2>6. CASE Shortcut(b)
    BY <2>6, ShortcutKeeps
  <2> QED
    BY <1>1, <2>1, <2>2, <2>3, <2>4, <2>5, <2>6, <2>7 DEF OnButton
<1>2. ASSUME NEW t \in timers, TapFires(t) PROVE TapInv'
  BY <1>2, TapFiresKeeps
<1>3. CASE Tick
  BY <1>3, TickKeeps
<1>4. CASE Dialogs
  <2>1. CASE Submit \/ ConfirmReset \/ Cancel
    <3>1. UNCHANGED <<hooks, grips, settings, timers, presses, overtaken, picker>>
      BY <2>1 DEF Submit, ConfirmReset, Cancel, shown
    <3> QED
      BY <3>1, StillKeeps
  <2>2. CASE Pick
    <3>1. /\ picker # None /\ picker' = None /\ presses' = Mark(presses, picker.press, "sent")
          /\ UNCHANGED <<hooks, grips, settings, timers, overtaken>>
      BY <2>2 DEF Pick, shown
    <3> QED
      BY <3>1, AnswerPicker
  <2>3. CASE Step
    <3>1. /\ picker # None /\ \E w \in {"main", "error"} : picker' = [picker EXCEPT !.step = w]
          /\ UNCHANGED <<hooks, grips, settings, timers, presses, overtaken>>
      BY <2>3 DEF Step, shown
    <3> QED
      BY <3>1, StillKeeps
  <2>4. CASE Escape
    <3>1. /\ picker' = None
          /\ presses' = IF picker = None THEN presses ELSE Mark(presses, picker.press, "closed")
          /\ UNCHANGED <<hooks, grips, settings, timers, overtaken>>
      BY <2>4 DEF Escape, shown
    <3>2. CASE picker = None
      BY <3>1, <3>2, StillKeeps
    <3>3. CASE picker # None
      BY <3>1, <3>3, AnswerPicker
    <3> QED
      BY <3>2, <3>3
  <2> QED
    BY <1>4, <2>1, <2>2, <2>3, <2>4 DEF Dialogs
<1>5. CASE CloseConfig \/ Operate \/ AskReset \/ Push
  <2>1. UNCHANGED <<hooks, grips, settings, timers, presses, overtaken, picker>>
    BY <1>5 DEF CloseConfig, Operate, AskReset, Push, shown, opened
  <2> QED
    BY <2>1, StillKeeps
<1>6. CASE OpenConfig
  BY <1>6, OpenConfigKeeps
<1>7. CASE UNCHANGED controlVars
  <2>1. UNCHANGED <<hooks, grips, settings, timers, presses, overtaken, picker>>
    BY <1>7 DEF controlVars, shown, opened, past
  <2> QED
    BY <2>1, StillKeeps
<1> QED
  BY <1>1, <1>2, <1>3, <1>4, <1>5, <1>6, <1>7 DEF ControlsNext, Gestures, Beside

\* Every press counts once, whichever hands are on the buttons: an undo is of two taps of
\* which the first is not a point as well, a tap that gave way did so to a second, the taps
\* that wait have a timer, the one asked about is the picker's, and a release counts for
\* itself only after a second hand on a held button or with a mouse (useDoubleTap.ts,
\* useScoreActions.ts).
THEOREM TapsCountOnce == ControlsSpec => []TapsAreAccounted
<1>1. TapInv => TapsAreAccounted
  <2> SUFFICES ASSUME TapInv, NEW i \in DOMAIN presses
               PROVE  /\ presses[i].fate = "undo" => \E j \in DOMAIN presses :
                           Follow(j, i) /\ (presses[j].fate \in {"half", "cancelled", "overlaid"} \/ j \in overtaken)
                      /\ presses[i].fate = "half" => \E j \in DOMAIN presses :
                           /\ Follow(i, j)
                           /\ presses[j].fate \in {"down", "undo", "long", "cancelled", "overlaid", "unmounted"}
                              \/ presses[j].strayed
                      /\ presses[i].fate = "waiting" <=> \E t \in timers : t.press = i
                      /\ presses[i].fate = "asked" <=> picker # None /\ picker.press = i
                      /\ presses[i].way = "loose" => "mouse" \in settings.hands \/ \E j \in 1..(i - 1) :
                           presses[j].button = presses[i].button /\ presses[j].way = "beside"
    BY DEF TapsAreAccounted
  <2>1. presses[i].fate = "asked" <=> picker # None /\ picker.press = i
    BY DEF TapInv, PickerInv
  <2>2. CASE presses[i].button = None
    <3>1. presses[i].fate \in Neutral /\ presses[i].way = "plain"
      BY <2>2 DEF TapInv, PickerInv
    <3>2. \A t \in timers : t.press # i
      <4>1. \A t \in timers : t.button \in Buttons
        BY DEF TapInv, TapShape, TapTimers
      <4>2. \A t \in timers : t.press \in Own(t.button)
        BY <4>1 DEF TapInv, ButtonInv, TimersOf
      <4> QED
        BY <2>2, <4>1, <4>2, ControlsAssumption DEF Own
    <3> QED
      BY <2>1, <3>1, <3>2 DEF Neutral
  <2>3. CASE presses[i].button # None
    <3> PICK b : b = presses[i].button
      OBVIOUS
    <3>1. b \in Buttons /\ i \in Own(b)
      BY <2>3, PressAt DEF TapInv, Own
    <3>2. PairsOf(b) /\ WaitOf(b)
      BY <3>1 DEF TapInv, ButtonInv
    <3>3. presses[i].fate = "undo" => Paired(i)
      BY <3>1, <3>2 DEF PairsOf
    <3>4. presses[i].fate = "half" => GaveWay(b, i)
      BY <3>1, <3>2 DEF PairsOf
    <3>5. presses[i].fate = "waiting" <=> \E t \in timers : t.press = i
      <4>1. \A t \in timers : t.button \in Buttons
        BY DEF TapInv, TapShape, TapTimers
      <4>2. \A t \in timers : presses[t.press].fate = "waiting"
        BY <4>1 DEF TapInv, ButtonInv, TimersOf
      <4> QED
        BY <3>1, <3>2, <4>2 DEF WaitOf
    <3>6. ASSUME presses[i].way = "loose", ~("mouse" \in settings.hands)
          PROVE  \E j \in 1..(i - 1) : presses[j].button = presses[i].button /\ presses[j].way = "beside"
      <4>1. LooseOf(b)
        BY <3>1 DEF TapInv, ButtonInv
      <4>2. PICK j \in Own(b) : j < i /\ presses[j].way = "beside"
        BY <3>1, <3>6, <4>1 DEF LooseOf
      <4>3. j \in 1..(i - 1)
        BY <4>2, PressIndex DEF TapInv, Own
      <4>4. presses[j].button = presses[i].button
        BY DEF Own
      <4> QED
        BY <4>2, <4>3, <4>4
    <3> QED
      BY <2>1, <3>3, <3>4, <3>5, <3>6 DEF Paired, GaveWay, TakesUp
  <2> QED
    BY <2>2, <2>3
<1> QED
  BY <1>1, InitTaps, StepTaps, PTL DEF ControlsSpec
=============================================================================
