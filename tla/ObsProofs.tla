----------------------------- MODULE ObsProofs -----------------------------
(***************************************************************************)
(* What holds of an overlay's broadcasts for any number of sources,        *)
(* writers, changes, failures and restarts.                                *)
(***************************************************************************)
EXTENDS ObsBroadcast, FiniteSetTheorems, FunctionTheorems, SequenceTheorems, TLAPS

\* The parts of the types that the proofs need: which fields there are, and
\* which of them are numbers.
Shape ==
  /\ state \in Nat /\ disk \in Nat
  /\ writer \in [Writers -> [stage : {"idle", "saving", "saved"}, snap : Nat]]
  /\ used \in [changes : Nat, timeouts : Nat, cuts : Nat, restarts : Nat]
  /\ conn \in [Sources -> [stage : {"closed", "accepted", "read", "open", "cut"}, snap : Nat]]
  /\ task \in [stage : {"none", "sleeping", "sending"}, hops : SUBSET Sources,
               to : SUBSET Sources, failed : SUBSET Sources]
  /\ clients \subseteq Sources /\ deaf \subseteq Sources

LEMMA InitShape == Init => Shape
BY DEF Init, Shape, Idle, NoTask

LEMMA WriteShape ==
  ASSUME Shape, NEW w \in Writers, Write(w)
  PROVE  Shape'
<1>1. CASE Mutate(w)
  BY <1>1 DEF Shape, Mutate, Changed, hub, pages
<1>2. ASSUME NEW written \in BOOLEAN, Persist(w, written)
      PROVE  Shape'
  BY <1>2 DEF Shape, Persist, hub, pages
<1>3. CASE Notify(w)
  BY <1>3 DEF Shape, Notify, Idle, pages
<1> QED
  BY <1>1, <1>2, <1>3 DEF Write

LEMMA HubShape ==
  ASSUME Shape, Schedule \/ Wake \/ EndBroadcast
  PROVE  Shape'
<1>1. Hops \subseteq Sources
  BY DEF Hops
<1>2. CASE Schedule
  BY <1>1, <1>2 DEF Shape, Schedule, Debounce, NoTask, store, pages
<1>3. CASE Wake
  BY <1>3 DEF Shape, Wake, Broadcast, NoTask, store
<1>4. CASE EndBroadcast
  BY <1>4 DEF Shape, EndBroadcast, NoTask, store, pages
<1> QED
  BY <1>2, <1>3, <1>4

LEMMA PushShape ==
  ASSUME Shape, NEW s \in Sources, Push(s)
  PROVE  Shape'
<1>1. CASE Sent(s)
  BY <1>1 DEF Shape, Sent, store, pages
<1>2. CASE SendFails(s)
  BY <1>2 DEF Shape, SendFails, store, pages
<1>3. CASE SendTimesOut(s)
  <2>1. /\ task' \in [stage : {"none", "sleeping", "sending"}, hops : SUBSET Sources,
                     to : SUBSET Sources, failed : SUBSET Sources]
        /\ clients' \subseteq Sources /\ deaf' \subseteq Sources
    BY <1>3 DEF Shape, SendTimesOut
  <2>2. used' \in [changes : Nat, timeouts : Nat, cuts : Nat, restarts : Nat]
    BY <1>3 DEF Shape, SendTimesOut
  <2> QED
    BY <1>3, <2>1, <2>2 DEF Shape, SendTimesOut, store, pages
<1> QED
  BY <1>1, <1>2, <1>3 DEF Push

LEMMA PageShape ==
  ASSUME Shape, NEW s \in Sources, Page(s) \/ Cut(s)
  PROVE  Shape'
<1>1. CASE Connect(s)
  BY <1>1 DEF Shape, Connect, To, store
<1>2. CASE ReadSnapshot(s)
  BY <1>2 DEF Shape, ReadSnapshot, store, hub
<1>3. CASE SendSnapshot(s)
  BY <1>3 DEF Shape, SendSnapshot, To, store, hub
<1>4. CASE Leave(s)
  BY <1>4 DEF Shape, Leave, To, store
<1>5. CASE Cut(s)
  BY <1>5 DEF Shape, Cut, store, hub
<1> QED
  BY <1>1, <1>2, <1>3, <1>4, <1>5 DEF Page

LEMMA RestartShape ==
  ASSUME Shape, Restart
  PROVE  Shape'
BY DEF Shape, Restart, Idle, NoTask

LEMMA StepShape == Shape /\ [Next]_vars => Shape'
<1> SUFFICES ASSUME Shape, [Next]_vars PROVE Shape'
  OBVIOUS
<1>1. CASE UNCHANGED vars
  BY <1>1 DEF Shape, vars, store, hub, pages
<1> QED
  BY <1>1, WriteShape, HubShape, PushShape, PageShape, RestartShape DEF Next

-----------------------------------------------------------------------------
\* The file.  That it never goes back is a matter of the one snapshot that may be
\* on its way to it: no older than the file, and no newer than the memory.

Saving(w) == writer[w].stage = "saving"

FileInv ==
  /\ Shape
  /\ disk <= state /\ state <= used.changes
  /\ \A w \in Writers : Saving(w) => disk <= writer[w].snap /\ writer[w].snap <= state
  /\ \A v, w \in Writers : Saving(v) /\ Saving(w) => v = w

LEMMA InitFile == Init => FileInv
BY InitShape DEF Init, FileInv, Saving, Idle

LEMMA StepFile ==
  ASSUME FileInv, [Next]_vars
  PROVE  FileInv' /\ disk' >= disk
<1>1. Shape'
  BY StepShape DEF FileInv
<1>2. ASSUME UNCHANGED <<state, disk, writer>>, used'.changes = used.changes
      PROVE  FileInv' /\ disk' >= disk
  BY <1>1, <1>2 DEF FileInv, Shape, Saving
<1>3. ASSUME NEW w \in Writers, Mutate(w)
      PROVE  FileInv' /\ disk' >= disk
  <2>1. state' = used.changes + 1 /\ used'.changes = used.changes + 1 /\ disk' = disk
    BY <1>3 DEF Mutate, Changed, FileInv, Shape
  <2>2. /\ writer' = [writer EXCEPT ![w] = [stage |-> "saving", snap |-> state']]
        /\ \A v \in Writers : ~Saving(v)
    BY <1>3 DEF Mutate, Changed, Saving
  <2>3. \A v \in Writers : Saving(v)' => v = w /\ writer'[v].snap = state'
    BY <2>2 DEF FileInv, Shape, Saving
  <2> QED
    BY <1>1, <2>1, <2>3 DEF FileInv, Shape
<1>4. ASSUME NEW w \in Writers, NEW written \in BOOLEAN, Persist(w, written)
      PROVE  FileInv' /\ disk' >= disk
  <2>1. /\ Saving(w) /\ state' = state /\ used' = used
        /\ disk' = IF written THEN writer[w].snap ELSE disk
    BY <1>4 DEF Persist, Saving
  <2>2. disk <= disk' /\ disk' <= state
    BY <2>1 DEF FileInv, Shape
  <2>3. \A v \in Writers : ~Saving(v)'
    BY <1>4, <2>1 DEF Persist, FileInv, Shape, Saving
  <2> QED
    BY <1>1, <2>1, <2>2, <2>3 DEF FileInv, Shape
<1>5. ASSUME NEW w \in Writers, Notify(w)
      PROVE  FileInv' /\ disk' >= disk
  <2>1. \A v \in Writers : Saving(v)' => Saving(v) /\ writer'[v] = writer[v]
    BY <1>5 DEF Notify, Idle, Saving, FileInv, Shape
  <2> QED
    BY <1>1, <1>5, <2>1 DEF Notify, FileInv, Shape
<1>6. CASE Schedule \/ Wake \/ EndBroadcast
  BY <1>2, <1>6 DEF Schedule, Wake, Broadcast, EndBroadcast, store
<1>7. ASSUME NEW s \in Sources, Push(s) \/ Page(s)
      PROVE  FileInv' /\ disk' >= disk
  BY <1>2, <1>7 DEF Push, Sent, SendFails, SendTimesOut, Page, Connect, ReadSnapshot,
     SendSnapshot, Leave, store, FileInv, Shape
<1>8. ASSUME NEW s \in Sources, Cut(s)
      PROVE  FileInv' /\ disk' >= disk
  BY <1>2, <1>8 DEF Cut, store, FileInv, Shape
<1>9. CASE Restart
  <2>1. state' = disk /\ disk' = disk /\ used'.changes = used.changes
    BY <1>9 DEF Restart, FileInv, Shape
  <2>2. \A v \in Writers : ~Saving(v)'
    BY <1>9 DEF Restart, Idle, Saving
  <2> QED
    BY <1>1, <2>1, <2>2 DEF FileInv, Shape
<1>10. CASE UNCHANGED vars
  BY <1>2, <1>10 DEF vars, store
<1> QED
  BY <1>3, <1>4, <1>5, <1>6, <1>7, <1>8, <1>9, <1>10 DEF Next, Write

\* However many threads change an overlay, and however many of their writes fail,
\* the state file never goes back to an older state.
THEOREM FileMovesForward == Spec => FileNeverGoesBack
<1>1. FileInv /\ [Next]_vars => FileInv'
  BY StepFile
<1>2. FileInv /\ [Next]_vars => [disk' >= disk]_vars
  BY StepFile
<1> QED
  BY <1>1, <1>2, InitFile, PTL DEF Spec, FileNeverGoesBack

-----------------------------------------------------------------------------
\* The clients.  The sends that have failed are remembered until the broadcast
\* ends, so the invariant speaks of them, too: such a socket is gone, or its send
\* has timed out; and the next socket of the same page is not among them.

DropInv ==
  /\ Shape
  /\ OnlyTimeoutsDrop
  /\ \A s \in task.failed : ~At(s, "closed") /\ (Connected(s) => s \in deaf)

LEMMA InitDrop == Init => DropInv
BY InitShape DEF Init, DropInv, OnlyTimeoutsDrop, Connected, NoTask

LEMMA StepDrop ==
  ASSUME DropInv, [Next]_vars
  PROVE  DropInv'
<1>1. Shape'
  BY StepShape DEF DropInv
<1>2. ASSUME UNCHANGED <<clients, conn, deaf>>, task'.failed \subseteq task.failed
      PROVE  DropInv'
  BY <1>1, <1>2 DEF DropInv, OnlyTimeoutsDrop, Connected, At
<1>3. ASSUME NEW w \in Writers, Write(w)
      PROVE  DropInv'
  BY <1>2, <1>3 DEF Write, Mutate, Changed, Persist, Notify, hub, pages
<1>4. CASE Schedule \/ Wake
  <2>1. task' \in {Debounce, NoTask, [NoTask EXCEPT !.stage = "sending", !.to = clients]}
    BY <1>4 DEF Schedule, Wake, Broadcast
  <2>2. Debounce.failed = {} /\ NoTask.failed = {}
    BY DEF Debounce, NoTask
  <2>3. [NoTask EXCEPT !.stage = "sending", !.to = clients].failed = {}
    BY DEF NoTask
  <2>4. task'.failed = {}
    BY <2>1, <2>2, <2>3
  <2> QED
    BY <1>2, <1>4, <2>4 DEF Schedule, Wake, Broadcast, pages
<1>5. CASE EndBroadcast
  <2>1. clients' = clients \ task.failed /\ task'.failed = {}
    BY <1>5 DEF EndBroadcast, NoTask
  <2> QED
    BY <1>1, <1>5, <2>1 DEF EndBroadcast, pages, DropInv, OnlyTimeoutsDrop, Connected, At
<1>6. ASSUME NEW s \in Sources, Sent(s)
      PROVE  DropInv'
  <2>1. task'.failed = task.failed
    BY <1>6 DEF Sent, DropInv, Shape
  <2> QED
    BY <1>2, <1>6, <2>1 DEF Sent, pages
<1>7. ASSUME NEW s \in Sources, SendFails(s) \/ SendTimesOut(s)
      PROVE  DropInv'
  <2>1. task'.failed = task.failed \cup {s} /\ conn' = conn /\ clients' = clients
    BY <1>7 DEF SendFails, SendTimesOut, pages, DropInv, Shape
  <2>2. ~At(s, "closed") /\ (Connected(s) => s \in deaf') /\ deaf \subseteq deaf'
    BY <1>7 DEF SendFails, SendTimesOut, At, Connected
  <2> QED
    BY <1>1, <2>1, <2>2 DEF DropInv, OnlyTimeoutsDrop, Connected, At
<1>8. ASSUME NEW s \in Sources, Connect(s)
      PROVE  DropInv'
  <2>1. /\ At(s, "closed") /\ clients' = clients \cup {s}
        /\ conn' = [conn EXCEPT ![s].stage = "accepted"] /\ task' = task /\ deaf' = deaf
    BY <1>8 DEF Connect, To
  <2>2. s \notin task.failed
    BY <2>1 DEF DropInv
  <2>3. \A r \in Sources \ {s} : conn'[r] = conn[r]
    BY <2>1 DEF DropInv, Shape
  <2> QED
    BY <1>1, <2>1, <2>2, <2>3 DEF DropInv, Shape, OnlyTimeoutsDrop, Connected, At
<1>9. ASSUME NEW s \in Sources, ReadSnapshot(s) \/ SendSnapshot(s) \/ Cut(s)
      PROVE  DropInv'
  <2>1. UNCHANGED <<task, clients, deaf>>
    BY <1>9 DEF ReadSnapshot, SendSnapshot, Cut, hub
  <2>2. \A r \in Sources \ {s} : conn'[r] = conn[r]
    BY <1>9 DEF ReadSnapshot, SendSnapshot, Cut, To, DropInv, Shape
  <2>3. conn'[s].stage # "closed" /\ (Connected(s)' => Connected(s))
    BY <1>9 DEF ReadSnapshot, SendSnapshot, Cut, To, At, Connected, DropInv, Shape
  <2> QED
    BY SMTT(30), <1>1, <2>1, <2>2, <2>3 DEF DropInv, Shape, OnlyTimeoutsDrop, Connected, At
<1>10. ASSUME NEW s \in Sources, Leave(s)
       PROVE  DropInv'
  <2>1. /\ conn' = [conn EXCEPT ![s].stage = "closed"]
        /\ clients' = clients \ {s} /\ deaf' = deaf \ {s}
        /\ task'.failed = task.failed \ {s}
    BY <1>10 DEF Leave, To, DropInv, Shape
  <2>2. conn'[s].stage = "closed" /\ \A r \in Sources \ {s} : conn'[r] = conn[r]
    BY <2>1 DEF DropInv, Shape
  <2> QED
    BY <1>1, <2>1, <2>2 DEF DropInv, Shape, OnlyTimeoutsDrop, Connected, At
<1>11. CASE Restart
  <2>1. task'.failed = {} /\ \A s \in Sources : ~Connected(s)'
    BY <1>11 DEF Restart, NoTask, Connected
  <2> QED
    BY <1>1, <2>1 DEF DropInv, OnlyTimeoutsDrop
<1>12. CASE UNCHANGED vars
  BY <1>2, <1>12 DEF vars, hub, pages
<1> QED
  BY <1>3, <1>4, <1>5, <1>6, <1>7, <1>8, <1>9, <1>10, <1>11, <1>12 DEF Next, Push, Page

\* An open socket leaves the hub's list only if a send to it has timed out, for any
\* number of sources, whatever is cancelled, cut off, refused or restarted.
THEOREM DropsHaveTimedOut == Spec => []OnlyTimeoutsDrop
<1>1. DropInv /\ [Next]_vars => DropInv'
  BY StepDrop
<1>2. DropInv => OnlyTimeoutsDrop
  BY DEF DropInv
<1> QED
  BY <1>1, <1>2, InitDrop, PTL DEF Spec

-----------------------------------------------------------------------------
\* What the screens show.  A screen that is behind, or is about to be told what is
\* no longer so, has a change on its way to it: one that is not announced yet, or
\* a broadcast that has yet to wake.  A snapshot on its way is known to that
\* broadcast, which a punctual one does not outlast.

UnderWay == (\E w \in Writers : writer[w] # Idle) \/ posted # 0
Asleep == task.stage = "sleeping"

AgreeInv ==
  /\ Shape /\ posted \in Nat /\ shown \in [Sources -> Nat]
  /\ \A s \in Sources :
       At(s, "read") /\ conn[s].snap # state => UnderWay \/ (Asleep /\ s \in task.hops)
  /\ \A s \in clients : At(s, "open") /\ shown[s] # state => UnderWay \/ Asleep

LEMMA InitAgree == Init => AgreeInv
BY InitShape DEF Init, AgreeInv, At

\* What does not touch the screens, and calls nothing off.
LEMMA AgreeRests ==
  ASSUME AgreeInv, Shape', posted' \in Nat, shown' = shown,
         state' = state, clients' \subseteq clients,
         UnderWay => UnderWay',
         Asleep => Asleep' /\ \A s \in Sources : At(s, "read") /\ s \in task.hops => s \in task'.hops,
         \A s \in Sources : conn'[s] = conn[s] \/ conn'[s].stage \notin {"read", "open"}
  PROVE  AgreeInv'
<1>1. ASSUME NEW s \in Sources, At(s, "read")', conn'[s].snap # state'
      PROVE  UnderWay' \/ (Asleep' /\ s \in task'.hops)
  BY <1>1 DEF AgreeInv, At
<1>2. ASSUME NEW s \in clients', At(s, "open")', shown'[s] # state'
      PROVE  UnderWay' \/ Asleep'
  BY <1>2 DEF AgreeInv, At, Shape
<1> QED
  BY <1>1, <1>2 DEF AgreeInv

\* While a change is under way nothing has to agree.
LEMMA AgreeLater ==
  ASSUME Shape', posted' \in Nat, shown' \in [Sources -> Nat], UnderWay'
  PROVE  AgreeInv'
BY DEF AgreeInv

LEMMA StepAgree ==
  ASSUME Punctual, AgreeInv, [Next]_vars
  PROVE  AgreeInv'
<1>1. Shape'
  BY StepShape DEF AgreeInv
<1>2. ASSUME NEW w \in Writers, Mutate(w) \/ (\E written \in BOOLEAN : Persist(w, written))
      PROVE  AgreeInv'
  <2>1. posted' = posted /\ shown' = shown /\ writer'[w].stage \in {"saving", "saved"}
    BY <1>2 DEF Mutate, Changed, Persist, hub, pages, AgreeInv, Shape
  <2>2. UnderWay'
    BY <2>1 DEF UnderWay, Idle
  <2> QED
    BY <1>1, <2>1, <2>2, AgreeLater DEF AgreeInv
<1>3. ASSUME NEW w \in Writers, Notify(w)
      PROVE  AgreeInv'
  <2>1. posted' = posted + 1 /\ posted' \in Nat /\ posted' # 0 /\ shown' = shown
    BY <1>3 DEF Notify, AgreeInv, pages
  <2> QED
    BY <1>1, <2>1, AgreeLater DEF UnderWay, AgreeInv
<1>4. CASE Schedule
  <2>1. /\ posted' \in Nat /\ task' = Debounce
        /\ UNCHANGED <<state, writer, clients, conn, shown>>
    BY <1>4 DEF Schedule, AgreeInv, store, pages
  <2>2. task'.stage = "sleeping" /\ task'.hops = Hops
    BY <2>1 DEF Debounce, NoTask
  <2> QED
    BY <1>1, <2>1, <2>2 DEF AgreeInv, Asleep, Hops, At
<1>5. CASE Wake
  <2>1. /\ UNCHANGED <<state, writer, posted, clients, conn>>
        /\ shown' = [s \in Sources |-> IF s \in clients /\ Connected(s) THEN state ELSE shown[s]]
        /\ task.hops \cap Hops = {}
    BY <1>5 DEF Wake, Broadcast, store
  <2>2. shown' \in [Sources -> Nat] /\ UnderWay' = UnderWay
    BY <2>1 DEF AgreeInv, Shape, UnderWay
  <2>3. \A s \in clients' : At(s, "open")' => shown'[s] = state'
    BY <2>1 DEF AgreeInv, Shape, At, Connected
  <2>4. \A s \in Sources : At(s, "read")' /\ conn'[s].snap # state' => UnderWay'
    BY <2>1, <2>2 DEF AgreeInv, At, Hops
  <2> QED
    BY <1>1, <2>1, <2>2, <2>3, <2>4 DEF AgreeInv
<1>6. CASE EndBroadcast
  <2>1. /\ UNCHANGED <<state, writer, posted, conn, shown>> /\ clients' \subseteq clients
        /\ ~Asleep
    BY <1>6 DEF EndBroadcast, store, pages, Asleep
  <2> QED
    BY <1>1, <2>1, AgreeRests DEF AgreeInv, UnderWay
<1>7. ASSUME NEW s \in Sources, Push(s)
      PROVE  AgreeInv'
  <2>1. /\ UNCHANGED <<state, writer, posted, conn, shown, clients>>
        /\ task'.stage = task.stage /\ task'.hops = task.hops
    BY <1>7 DEF Push, Sent, SendFails, SendTimesOut, store, pages, AgreeInv, Shape
  <2> QED
    BY <1>1, <2>1, AgreeRests DEF AgreeInv, UnderWay, Asleep
<1>8. ASSUME NEW s \in Sources, Connect(s)
      PROVE  AgreeInv'
  <2>1. /\ UNCHANGED <<state, writer, posted, shown, task>> /\ clients' = clients \cup {s}
        /\ conn'[s].stage = "accepted" /\ \A r \in Sources \ {s} : conn'[r] = conn[r]
    BY <1>8 DEF Connect, To, store, AgreeInv, Shape
  <2>2. UnderWay' = UnderWay /\ Asleep' = Asleep
    BY <2>1 DEF UnderWay, Asleep
  <2>3. \A r \in clients' : At(r, "open")' => r \in clients /\ At(r, "open")
    BY <1>1, <2>1 DEF At, Shape
  <2>4. \A r \in Sources : At(r, "read")' => At(r, "read") /\ conn'[r] = conn[r]
    BY <2>1 DEF At
  <2> QED
    BY <1>1, <2>1, <2>2, <2>3, <2>4 DEF AgreeInv
<1>9. ASSUME NEW s \in Sources, ReadSnapshot(s)
      PROVE  AgreeInv'
  <2>1. /\ UNCHANGED <<state, writer, posted, shown, task, clients>>
        /\ conn'[s].stage = "read" /\ conn'[s].snap = state
        /\ \A r \in Sources \ {s} : conn'[r] = conn[r]
    BY <1>9 DEF ReadSnapshot, store, hub, AgreeInv, Shape
  <2>2. UnderWay' = UnderWay /\ Asleep' = Asleep
    BY <2>1 DEF UnderWay, Asleep
  <2> QED
    BY <1>1, <2>1, <2>2 DEF AgreeInv, At, Shape
<1>10. ASSUME NEW s \in Sources, SendSnapshot(s)
       PROVE  AgreeInv'
  <2>1. /\ UNCHANGED <<state, writer, posted, task, clients>> /\ At(s, "read")
        /\ conn'[s].stage = "open" /\ \A r \in Sources \ {s} : conn'[r] = conn[r]
        /\ shown' = [shown EXCEPT ![s] = conn[s].snap] /\ conn[s].snap \in Nat
    BY <1>10 DEF SendSnapshot, To, store, hub, AgreeInv, Shape
  <2>2. UnderWay' = UnderWay /\ Asleep' = Asleep
    BY <2>1 DEF UnderWay, Asleep
  <2>3. /\ shown' \in [Sources -> Nat] /\ shown'[s] = conn[s].snap
        /\ \A r \in Sources \ {s} : shown'[r] = shown[r]
    BY <2>1 DEF AgreeInv
  <2>4. \A r \in clients' : At(r, "open")' /\ shown'[r] # state' => UnderWay' \/ Asleep'
    BY <2>1, <2>2, <2>3 DEF AgreeInv, At, Shape
  <2>5. \A r \in Sources : At(r, "read")' => r # s
    BY <2>1 DEF At
  <2>6. \A r \in Sources : At(r, "read")' /\ conn'[r].snap # state' =>
          UnderWay' \/ (Asleep' /\ r \in task'.hops)
    BY <2>1, <2>2, <2>5 DEF AgreeInv, At
  <2> QED
    BY <1>1, <2>1, <2>3, <2>4, <2>6 DEF AgreeInv
<1>11. ASSUME NEW s \in Sources, Cut(s) \/ Leave(s)
       PROVE  AgreeInv'
  <2>1. /\ UNCHANGED <<state, writer, posted, shown>> /\ clients' \subseteq clients
        /\ task'.stage = task.stage /\ task'.hops \in {task.hops, task.hops \ {s}}
        /\ conn'[s].stage \notin {"read", "open"}
        /\ \A r \in Sources \ {s} : conn'[r] = conn[r]
    <3>1. CASE Cut(s)
      BY <3>1 DEF Cut, store, hub, AgreeInv, Shape
    <3>2. CASE Leave(s)
      <4>1. task'.stage = task.stage /\ task'.hops = task.hops \ {s}
        BY <3>2 DEF Leave, AgreeInv, Shape
      <4>2. conn' = [conn EXCEPT ![s].stage = "closed"]
        BY <3>2 DEF Leave, To
      <4> QED
        BY <3>2, <4>1, <4>2 DEF Leave, store, AgreeInv, Shape
    <3> QED
      BY <1>11, <3>1, <3>2
  <2>2. task'.hops # task.hops => ~At(s, "read")
    BY <1>11 DEF Cut, Leave, At, hub
  <2> QED
    BY <1>1, <2>1, <2>2, AgreeRests DEF AgreeInv, UnderWay, Asleep
<1>12. CASE Restart
  <2>1. \A s \in Sources : conn'[s].stage = "closed"
    BY <1>12 DEF Restart
  <2>2. posted' \in Nat /\ shown' \in [Sources -> Nat] /\ clients' \subseteq Sources
    BY <1>1, <1>12 DEF Restart, AgreeInv, Shape
  <2> QED
    BY <1>1, <2>1, <2>2 DEF AgreeInv, At
<1>13. CASE UNCHANGED vars
  BY <1>1, <1>13, AgreeRests DEF vars, store, hub, pages, AgreeInv, UnderWay, Asleep
<1> QED
  BY <1>2, <1>3, <1>4, <1>5, <1>6, <1>7, <1>8, <1>9, <1>10, <1>11, <1>12, <1>13
     DEF Next, Write, Page

\* Once nothing is under way, the connected sources agree with the state, for any
\* number of sources and writers, if no snapshot takes longer than a debounce:
\* neither the cancelling of a broadcast nor a connection being set up swallows a
\* change.
THEOREM QuietScreensShowTheState == Punctual => (Spec => []QuietScreensAgree)
<1> SUFFICES ASSUME Punctual PROVE Spec => []QuietScreensAgree
  OBVIOUS
<1>1. AgreeInv /\ [Next]_vars => AgreeInv'
  BY StepAgree
<1>2. AgreeInv => QuietScreensAgree
  <2>1. Quiet => ~UnderWay /\ ~Asleep
    BY DEF Quiet, UnderWay, Asleep, NoTask
  <2> QED
    BY <2>1 DEF AgreeInv, QuietScreensAgree
<1> QED
  BY <1>1, <1>2, InitAgree, PTL DEF Spec

-----------------------------------------------------------------------------
\* The order of what the screens show.  None shows what was never there, and one
\* that is ahead of the memory shows what a restart has taken back.

OrderInv ==
  /\ FileInv /\ shown \in [Sources -> Nat]
  /\ \A s \in Sources : shown[s] <= used.changes /\ (shown[s] <= state \/ shown[s] \in lost)
  /\ \A s \in Sources : At(s, "read") => conn[s].snap <= state

Forward == \A s \in Sources : shown'[s] < shown[s] => shown[s] \in lost \/ shown'[s] = conn[s].snap

LEMMA InitOrder == Init => OrderInv
BY InitFile DEF Init, OrderInv, At, FileInv, Shape

LEMMA OrderRests ==
  ASSUME OrderInv, FileInv', UNCHANGED <<shown, lost, state>>, used'.changes = used.changes,
         \A s \in Sources : At(s, "read")' => At(s, "read") /\ conn'[s] = conn[s]
  PROVE  OrderInv' /\ Forward
BY DEF OrderInv, Forward

LEMMA StepOrder ==
  ASSUME OrderInv, [Next]_vars
  PROVE  OrderInv' /\ Forward
<1> USE DEF FileInv, Shape
<1>1. FileInv'
  BY StepFile DEF OrderInv
<1>2. ASSUME NEW w \in Writers, Mutate(w)
      PROVE  OrderInv' /\ Forward
  <2>1. /\ state' = used.changes + 1 /\ used'.changes = used.changes + 1
        /\ UNCHANGED <<shown, conn, lost>>
    BY <1>2 DEF Mutate, Changed, pages, OrderInv
  <2> QED
    BY <1>1, <2>1 DEF OrderInv, Forward, At
<1>3. ASSUME NEW w \in Writers, (\E written \in BOOLEAN : Persist(w, written)) \/ Notify(w)
      PROVE  OrderInv' /\ Forward
  BY <1>1, <1>3, OrderRests DEF Persist, Notify, pages, At
<1>4. CASE Schedule \/ EndBroadcast
  BY <1>1, <1>4, OrderRests DEF Schedule, EndBroadcast, store, pages, At
<1>5. CASE Wake
  <2>1. /\ UNCHANGED <<state, lost, used, conn>>
        /\ shown' = [s \in Sources |-> IF s \in clients /\ Connected(s) THEN state ELSE shown[s]]
    BY <1>5 DEF Wake, Broadcast, store
  <2>2. /\ shown' \in [Sources -> Nat]
        /\ \A s \in Sources : shown'[s] = state \/ shown'[s] = shown[s]
    BY <2>1 DEF OrderInv
  <2> QED
    BY <1>1, <2>1, <2>2 DEF OrderInv, Forward, At
<1>6. ASSUME NEW s \in Sources, Push(s)
      PROVE  OrderInv' /\ Forward
  BY <1>1, <1>6, OrderRests DEF Push, Sent, SendFails, SendTimesOut, store, pages, At, OrderInv
<1>7. ASSUME NEW s \in Sources, Connect(s) \/ Cut(s) \/ Leave(s)
      PROVE  OrderInv' /\ Forward
  <2>1. /\ UNCHANGED <<shown, lost, state>> /\ used'.changes = used.changes
        /\ conn'[s].stage # "read" /\ \A r \in Sources \ {s} : conn'[r] = conn[r]
    BY <1>7 DEF Connect, Cut, Leave, To, store, OrderInv
  <2> QED
    BY <1>1, <2>1, OrderRests DEF At
<1>8. ASSUME NEW s \in Sources, ReadSnapshot(s)
      PROVE  OrderInv' /\ Forward
  <2>1. /\ UNCHANGED <<shown, lost, state, used>> /\ conn'[s].snap = state
        /\ \A r \in Sources \ {s} : conn'[r] = conn[r]
    BY <1>8 DEF ReadSnapshot, store, OrderInv
  <2> QED
    BY <1>1, <2>1 DEF OrderInv, Forward, At
<1>9. ASSUME NEW s \in Sources, SendSnapshot(s)
      PROVE  OrderInv' /\ Forward
  <2>1. /\ UNCHANGED <<lost, state, used>> /\ At(s, "read") /\ conn'[s].stage = "open"
        /\ shown' = [shown EXCEPT ![s] = conn[s].snap]
        /\ \A r \in Sources \ {s} : conn'[r] = conn[r]
    BY <1>9 DEF SendSnapshot, To, store, OrderInv
  <2>2. conn[s].snap \in Nat /\ conn[s].snap <= state /\ state <= used.changes
        /\ state \in Nat /\ used.changes \in Nat
    BY <2>1 DEF OrderInv
  <2>3. /\ shown' \in [Sources -> Nat] /\ shown'[s] = conn[s].snap
        /\ \A r \in Sources \ {s} : shown'[r] = shown[r]
    BY <2>1, <2>2 DEF OrderInv
  <2> QED
    BY <1>1, <2>1, <2>2, <2>3 DEF OrderInv, Forward, At
<1>10. CASE Restart
  <2>1. /\ state' = disk /\ lost' = lost \cup (disk + 1)..used.changes /\ shown' = shown
        /\ used'.changes = used.changes /\ \A s \in Sources : conn'[s].stage = "closed"
    BY <1>10 DEF Restart, OrderInv
  <2>2. \A s \in Sources : shown[s] <= disk \/ shown[s] \in (disk + 1)..used.changes
    BY DEF OrderInv
  <2> QED
    BY <1>1, <2>1, <2>2 DEF OrderInv, Forward, At
<1>11. CASE UNCHANGED vars
  BY <1>1, <1>11, OrderRests DEF vars, store, pages, At
<1> QED
  BY <1>2, <1>3, <1>4, <1>5, <1>6, <1>7, <1>8, <1>9, <1>10, <1>11 DEF Next, Write, Page

\* A broadcast never takes a screen back to an older state, whatever is cancelled,
\* reconnected or lost: what was newer, a restart had taken back.
THEOREM BroadcastsMoveForward == Spec => ScreensNeverGoBack
<1>1. OrderInv /\ [Next]_vars => OrderInv'
  BY StepOrder
<1>2. OrderInv /\ [Next]_vars => [Forward]_vars
  BY StepOrder
<1>3. Spec => [][Forward]_vars
  BY <1>1, <1>2, InitOrder, PTL DEF Spec
<1> QED
  BY <1>3 DEF ScreensNeverGoBack, Forward

\* Files and screens only move forward, whatever fails, is cancelled or is restarted.
THEOREM NothingReturns == Spec => NothingGoesBack
BY FileMovesForward, BroadcastsMoveForward, PTL DEF NothingGoesBack

=============================================================================
