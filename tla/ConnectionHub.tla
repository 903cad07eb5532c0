---------------------------- MODULE ConnectionHub ----------------------------
(***************************************************************************)
(* The control sockets of one board (app/api/ws_hub.py, the endpoint in    *)
(* routes/websocket.py) and the number of controllers that each tab shows  *)
(* (frontend hooks/useGameState.ts).  Everything the loop does between two *)
(* awaits is one action: a broadcast takes its targets in one and deals    *)
(* with those that could not be reached in another.                        *)
(***************************************************************************)
EXTENDS Integers, Sequences, FiniteSets

CONSTANTS
  Sockets,      \* connections
  ClientOf,     \* the browser tab a connection is of
  Cap,          \* _MAX_CLIENTS_PER_OID
  MaxFaults,    \* bound on sends that run into their timeout and ticks that find one
  MaxPayloads   \* bound on states composed for a mutation

ASSUME HubAssumption ==
  /\ IsFiniteSet(Sockets) /\ Cap \in Nat \ {0}
  /\ MaxFaults \in Nat /\ MaxPayloads \in Nat

VARIABLES
  place,     \* where the endpoint of each connection is
  sets,      \* the set objects that _connections has held for the board
  entry,     \* the one it holds, or 0
  tasks,     \* broadcasts that wait for sends that will fail
  beat,      \* the tick under way: connections it will drop
  snapshot,  \* the count in the state a new tab is about to be sent
  payload,   \* the state of a mutation on its way, by push and by answer
  count,     \* controllerCount in each tab
  heard,     \* presenceStreamActiveRef
  used,      \* counts against the bounds
  dropped,   \* history: connections removed while their endpoint goes on
  behind,    \* history: tabs that have missed a change of the count
  crowd      \* history: the most connections that were being accepted at once

hub == <<sets, entry>>
tabs == <<count, heard, behind>>
hubVars == <<place, hub, tasks, beat, snapshot, payload, tabs, used, dropped, crowd>>

Unset == -1
Places == {"new", "accepting", "joining", "ready", "greeted", "open", "gone"}
Inside == {"joining", "ready", "greeted", "open"}

Nothing == [count |-> Unset, to |-> {}, push |-> FALSE, answer |-> FALSE]

Members(ss, e) == IF e = 0 THEN {} ELSE ss[e]
Registered == Members(sets, entry)

\* presence, controller_count: distinct tabs, not connections.
Count(S) == Cardinality({ClientOf[s] : s \in S})

HubInit ==
  /\ place = [s \in Sockets |-> "new"]
  /\ sets = <<>> /\ entry = 0 /\ tasks = {} /\ beat = {}
  /\ snapshot = [s \in Sockets |-> Unset]
  /\ payload = Nothing
  /\ count = [s \in Sockets |-> 0] /\ heard = [s \in Sockets |-> FALSE]
  /\ used = [faults |-> 0, payloads |-> 0]
  /\ dropped = {} /\ behind = {} /\ crowd = 0

-----------------------------------------------------------------------------
(* The registry.  An emptied set leaves the registry and the next connection   *)
(* gets another: a broadcast may still hold the old one.                       *)

Insert(s) ==
  IF entry = 0 THEN sets' = Append(sets, {s}) /\ entry' = Len(sets) + 1
               ELSE sets' = [sets EXCEPT ![entry] = @ \cup {s}] /\ UNCHANGED entry

Without(ss, e, S) == IF e = 0 THEN ss ELSE [ss EXCEPT ![e] = @ \ S]
Still(ss, e) == IF Members(ss, e) = {} THEN 0 ELSE e

\* disconnect
Remove(S) ==
  /\ sets' = Without(sets, entry, S)
  /\ entry' = Still(sets', entry)

\* The tabs' side of a presence frame and of the count in a state.
Tell(S, c) ==
  /\ count' = [s \in Sockets |-> IF s \in S THEN c ELSE count[s]]
  /\ heard' = [s \in Sockets |-> s \in S \/ heard[s]]
  /\ behind' = behind \ S

Late(s) == s \notin payload.to /\ place[s] \in {"greeted", "open"}

ApplyState(S) ==
  LET quiet == {s \in S : ~heard[s]} IN
  /\ count' = [s \in Sockets |-> IF s \in quiet THEN payload.count ELSE count[s]]
  /\ behind' = behind \cup {s \in quiet : Late(s)}
  /\ UNCHANGED heard

\* Which targets a send will not reach: a bounded number of timeouts.
Unreached(T) ==
  {bad \in SUBSET T : used.faults + Cardinality(bad) <= MaxFaults}
Spend(bad) == used' = [used EXCEPT !.faults = @ + Cardinality(bad)]

Task(bad, e, notify) == IF bad = {} THEN {} ELSE {[bad |-> bad, of |-> e, notify |-> notify]}

\* broadcast_presence, with the registry as the caller has left it.
Presence(except, kept) ==
  LET now == Members(sets', entry')
      targets == now \ except
  IN  \E bad \in Unreached(targets) :
        /\ Tell(targets \ bad, Count(now))
        /\ tasks' = kept \cup Task(bad, entry', FALSE)
        /\ Spend(bad)

-----------------------------------------------------------------------------
(* The endpoint *)

\* connect up to its await: a full board refuses.
Check(s) ==
  /\ place[s] = "new"
  /\ place' = [place EXCEPT ![s] = IF Cardinality(Registered) >= Cap THEN "gone" ELSE "accepting"]
  /\ crowd' = LET n == Cardinality({t \in Sockets : place'[t] = "accepting"}) IN IF n > crowd THEN n ELSE crowd
  /\ UNCHANGED <<hub, tasks, beat, snapshot, payload, tabs, used, dropped>>

\* connect after its await.
Register(s) ==
  /\ place[s] = "accepting" /\ place' = [place EXCEPT ![s] = "joining"]
  /\ Insert(s)
  /\ UNCHANGED <<tasks, beat, snapshot, payload, tabs, used, dropped, crowd>>

\* get_state_snapshot, under the session's lock: a mutation's push has begun before
\* the mutation gave it up.
Snapshot(s) ==
  /\ place[s] = "joining" /\ ~payload.push /\ place' = [place EXCEPT ![s] = "ready"]
  /\ snapshot' = [snapshot EXCEPT ![s] = Count(Registered)]
  /\ behind' = IF heard[s] THEN behind ELSE behind \ {s}
  /\ UNCHANGED <<hub, tasks, beat, payload, count, heard, used, dropped, crowd>>

\* The state a new tab is sent is newer than its connection, unless it has been
\* told of others meanwhile.
Greet(s) ==
  /\ place[s] = "ready" /\ place' = [place EXCEPT ![s] = "greeted"]
  /\ snapshot' = [snapshot EXCEPT ![s] = Unset]
  /\ count' = IF heard[s] THEN count ELSE [count EXCEPT ![s] = snapshot[s]]
  /\ UNCHANGED <<hub, tasks, beat, payload, heard, behind, used, dropped, crowd>>

\* The older tabs are told.
Announce(s) ==
  /\ place[s] = "greeted" /\ place' = [place EXCEPT ![s] = "open"]
  /\ UNCHANGED hub
  /\ Presence({s}, tasks)
  /\ UNCHANGED <<beat, snapshot, payload, dropped, crowd>>

\* The tab goes, or the handshake fails: the finally of the endpoint.
Leave(s) ==
  /\ place[s] \in Inside /\ place' = [place EXCEPT ![s] = "gone"]
  /\ Remove({s})
  /\ Presence({}, tasks)
  /\ snapshot' = [snapshot EXCEPT ![s] = Unset] /\ dropped' = dropped \ {s}
  /\ UNCHANGED <<beat, payload, crowd>>

-----------------------------------------------------------------------------
(* Broadcasts and the heartbeat *)

\* Mutant: an emptied set takes the entry with it, whichever it is.
AfterSweepAny(t, swept) == IF swept[t.of] = {} THEN 0 ELSE entry

AfterSweep(t, swept) == IF swept[t.of] = {} /\ entry = t.of THEN 0 ELSE entry

\* _broadcast_text after its await.  A presence broadcast tells nobody of those it
\* drops itself.
Sweep(t) ==
  /\ sets' = Without(sets, t.of, t.bad)
  /\ entry' = AfterSweep(t, sets')
  /\ dropped' = dropped \cup {s \in t.bad : place[s] \in Inside}
  /\ IF t.notify THEN Presence({}, tasks \ {t})
     ELSE /\ tasks' = tasks \ {t}
          /\ behind' = IF t.bad \cap Registered = {} THEN behind ELSE behind \cup Members(sets', entry')
          /\ UNCHANGED <<count, heard, used>>
  /\ UNCHANGED <<place, beat, snapshot, payload, crowd>>

\* GameService composes the state of a mutation in a worker thread; the push and
\* the answer to whoever asked leave later.
Compose ==
  /\ payload.count = Unset /\ used.payloads < MaxPayloads
  /\ payload' = [count |-> Count(Registered), to |-> {s \in Registered : place[s] # "joining"}, push |-> TRUE, answer |-> TRUE]
  /\ used' = [used EXCEPT !.payloads = @ + 1]
  /\ UNCHANGED <<place, hub, tasks, beat, snapshot, tabs, dropped, crowd>>

Left(p) == IF p.push \/ p.answer THEN p ELSE Nothing

PushState ==
  /\ payload.push /\ payload' = Left([payload EXCEPT !.push = FALSE])
  /\ \E bad \in Unreached(Registered) :
       /\ ApplyState(Registered \ bad)
       /\ tasks' = tasks \cup Task(bad, entry, TRUE)
       /\ Spend(bad)
  /\ UNCHANGED <<place, hub, beat, snapshot, dropped, crowd>>

AnswerState(s) ==
  /\ payload.answer /\ place[s] # "gone"
  /\ payload' = Left([payload EXCEPT !.answer = FALSE])
  /\ ApplyState({s})
  /\ UNCHANGED <<place, hub, tasks, beat, snapshot, used, dropped, crowd>>

NoAnswer ==
  /\ payload.answer /\ payload' = Left([payload EXCEPT !.answer = FALSE])
  /\ UNCHANGED <<place, hub, tasks, beat, snapshot, tabs, used, dropped, crowd>>

\* _heartbeat_tick finds connections that have been quiet too long or do not take
\* a ping; it drops them once every close and ping has ended.
Beat ==
  /\ beat = {} /\ used.faults < MaxFaults
  /\ \E out \in (SUBSET Registered) \ {{}} : beat' = out
  /\ used' = [used EXCEPT !.faults = @ + 1]
  /\ UNCHANGED <<place, hub, tasks, snapshot, payload, tabs, dropped, crowd>>

EndBeat ==
  /\ beat # {} /\ beat' = {}
  /\ Remove(beat)
  /\ dropped' = dropped \cup {s \in beat : place[s] \in Inside}
  /\ Presence({}, tasks)
  /\ UNCHANGED <<place, snapshot, payload, crowd>>

-----------------------------------------------------------------------------
Endpoint(s) == Check(s) \/ Register(s) \/ Snapshot(s) \/ Greet(s) \/ Announce(s) \/ Leave(s)

HubNext ==
  \/ \E s \in Sockets : Endpoint(s) \/ AnswerState(s)
  \/ \E t \in tasks : Sweep(t)
  \/ Compose \/ PushState \/ NoAnswer \/ Beat \/ EndBeat

HubSpec == HubInit /\ [][HubNext]_hubVars

-----------------------------------------------------------------------------
\* A connection whose endpoint runs is registered until a send or the heartbeat
\* gives it up, whatever sets earlier connections have left behind in broadcasts
\* under way; one whose endpoint has ended is not.  The cap is overrun only by
\* connections that were being accepted together.
RegistryIsSound ==
  /\ Registered = {s \in Sockets : place[s] \in Inside} \ dropped
  /\ Cardinality(Registered) <= Cap + (IF crowd = 0 THEN 0 ELSE crowd - 1)

\* When nothing is on its way, every tab that is registered and open shows how many
\* tabs there are, except one that a presence broadcast did not tell of those that it
\* dropped, and one that has heard nothing since it connected but the count in a
\* state composed before.
AllSettled ==
  /\ tasks = {} /\ beat = {} /\ payload.count = Unset
  /\ \A s \in Sockets : place[s] \in {"new", "open", "gone"}
PresenceSettles ==
  AllSettled => \A s \in Registered : count[s] = Count(Registered) \/ s \in behind

\* The hub's registry holds the connections whose endpoint goes on, within its cap, and
\* with nothing under way every tab shows how many controllers there are (ws_hub.py).
ConnectionsAgree == RegistryIsSound /\ PresenceSettles
=============================================================================
