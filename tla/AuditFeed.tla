------------------------------ MODULE AuditFeed ------------------------------
(***************************************************************************)
(* The operator's copy of the action log (frontend hooks/useAuditFeed.ts)  *)
(* and the socket that keeps it up to date.  The log's every mutation has  *)
(* a version; a copy read at one version is extended by the append of the  *)
(* next and re-read for anything else.  Reads, pushes, renders, outages    *)
(* and changes of board overlap.                                           *)
(***************************************************************************)
EXTENDS Integers, Sequences

CONSTANTS
  Boards,         \* the boards the operator may open
  Limit,          \* AUDIT_FEED_LIMIT
  MaxWrites,      \* bound on the mutations of the logs
  MaxBreaks       \* bound on failures, lost sockets, restarts and switches

ASSUME FeedAssumption ==
  Limit \in Nat \ {0} /\ MaxWrites \in Nat /\ MaxBreaks \in Nat

VARIABLES
  log,        \* the records GET /audit would serve, per board
  version,    \* _version_per_oid
  epoch,      \* how often the server has started: versions count from there
  oid,        \* the board on the operator's screen
  socket,     \* "down", "registered" with the hub, "open", or "deaf": evicted and open
  wire,       \* pushes on their way through the socket
  records,    \* what the feed shows
  held,       \* versionRef, or None
  stale,      \* refresh() was called and its effect has not run
  fetch,      \* the read under way
  failed,     \* error is shown
  breaks,     \* counts against MaxBreaks
  writes,     \* counts against MaxWrites
  past,       \* history: every log there was, with its version
  heldEpoch,  \* history: the process that gave out held
  slipped     \* history: an append was applied to a copy already given up

client == <<records, held, stale, fetch, failed, heldEpoch, slipped>>
server == <<log, version, epoch, writes, past>>
feedVars == <<server, oid, socket, wire, client, breaks>>

Window(l) == IF Len(l) > Limit THEN SubSeq(l, Len(l) - Limit + 1, Len(l)) ELSE l

None == -1    \* null: the client holds nothing it can extend

NoFetch == [stage |-> "no"]
Asked == [stage |-> "asked"]

Entry(e, b, v, l) == [epoch |-> e, board |-> b, version |-> v, log |-> l]

-----------------------------------------------------------------------------
(* The server: mutations of a log, and the pushes that tell of them.          *)

\* _notify runs outside the log's lock: nothing orders two pushes.
Push(b, message) ==
  wire' = IF b = oid /\ socket \in {"registered", "open"} THEN wire \cup {message} ELSE wire

Commit(b, l) ==
  /\ writes < MaxWrites /\ writes' = writes + 1
  /\ log' = [log EXCEPT ![b] = l]
  /\ version' = [version EXCEPT ![b] = @ + 1]
  /\ past' = past \cup {Entry(epoch, b, version[b] + 1, l)}
  /\ UNCHANGED <<epoch, oid, socket, client, breaks>>

\* A record; named by where it was written, which is all that tells two apart.
NewRecord(b) == <<epoch, version[b] + 1>>

AppendRecord(b) ==
  /\ Commit(b, Append(log[b], NewRecord(b)))
  /\ Push(b, [kind |-> "append", version |-> version[b] + 1, record |-> NewRecord(b)])

\* An undo hides the last record and a redo shows one again; a reset removes them
\* all; an append that rotates the files is not told as an append.
Rewrite(b) ==
  /\ log[b] # <<>>
  /\ \/ Commit(b, SubSeq(log[b], 1, Len(log[b]) - 1))
     \/ Commit(b, Append(log[b], NewRecord(b)))
     \/ Commit(b, <<>>)
  /\ Push(b, [kind |-> "invalidate", version |-> version[b] + 1])

\* read_page: the page and its version under one hold of the lock.
Read ==
  /\ fetch.stage = "asked"
  /\ fetch' = [stage |-> "answered", records |-> Window(log[oid]), version |-> version[oid]]
  /\ UNCHANGED <<server, oid, socket, wire, records, held, stale, failed, heldEpoch, slipped, breaks>>

Break == breaks < MaxBreaks /\ breaks' = breaks + 1

\* The log survives on disk, the counters do not, and nothing is left of the
\* connections.
ServerRestarts ==
  /\ Break
  /\ epoch' = epoch + 1
  /\ version' = [b \in Boards |-> 0]
  /\ past' = past \cup {Entry(epoch + 1, b, 0, log[b]) : b \in Boards}
  /\ socket' = "down" /\ wire' = {}
  /\ fetch' = IF fetch.stage = "no" THEN fetch ELSE [stage |-> "failed"]
  /\ UNCHANGED <<log, writes, oid, records, held, stale, failed, heldEpoch, slipped>>

-----------------------------------------------------------------------------
(* The client *)

\* refresh: the version goes at once, the read begins with the next render.
Refresh ==
  /\ held' = None /\ stale' = TRUE /\ slipped' = FALSE
  /\ UNCHANGED <<records, fetch, failed, heldEpoch>>

\* Mutant: any later version will do.
OnAppendLater(m) ==
  IF held = None \/ m.version <= held
  THEN Refresh
  ELSE /\ held' = m.version /\ records' = Window(Append(records, m.record))
       /\ slipped' = (slipped \/ stale \/ fetch # NoFetch)
       /\ UNCHANGED <<stale, fetch, failed, heldEpoch>>

OnAppend(m) ==
  IF held = None \/ m.version # held + 1
  THEN Refresh
  ELSE /\ held' = m.version
       /\ records' = Window(Append(records, m.record))
       /\ slipped' = (slipped \/ stale \/ fetch # NoFetch)
       /\ UNCHANGED <<stale, fetch, failed, heldEpoch>>

Deliver(m) ==
  /\ socket \in {"open", "deaf"} /\ wire' = wire \ {m}
  /\ IF m.kind = "append" THEN OnAppend(m) ELSE Refresh
  /\ UNCHANGED <<server, oid, socket, breaks>>

\* The effect of a refresh: whatever was being read is abandoned.
RunEffect ==
  /\ stale /\ stale' = FALSE
  /\ fetch' = Asked
  /\ UNCHANGED <<server, oid, socket, wire, records, held, failed, heldEpoch, slipped, breaks>>

\* The response, or the error, of the read under way.  A refresh whose effect has
\* not run yet has not aborted it.
Land ==
  /\ fetch.stage \in {"answered", "failed"}
  /\ IF fetch.stage = "answered"
     THEN /\ records' = fetch.records /\ held' = fetch.version /\ failed' = FALSE
          /\ heldEpoch' = epoch
     ELSE /\ records' = <<>> /\ held' = None /\ failed' = TRUE
          /\ UNCHANGED heldEpoch
  /\ fetch' = NoFetch
  /\ UNCHANGED <<server, oid, socket, wire, stale, slipped, breaks>>

\* A request that fails, or the 503 of a log that cannot be read.
ReadFails ==
  /\ Break /\ fetch.stage = "asked"
  /\ fetch' = [stage |-> "failed"]
  /\ UNCHANGED <<server, oid, socket, wire, records, held, stale, failed, heldEpoch, slipped>>

\* Another board: its rows, socket and read replace the other's.
Switch(b) ==
  /\ Break /\ b # oid
  /\ oid' = b
  /\ records' = <<>> /\ held' = None /\ stale' = FALSE /\ failed' = FALSE
  /\ fetch' = Asked /\ socket' = "down" /\ wire' = {}
  /\ slipped' = FALSE
  /\ UNCHANGED <<server, heldEpoch>>

-----------------------------------------------------------------------------
(* The socket *)

Connect ==
  /\ socket = "down" /\ socket' = "registered"
  /\ UNCHANGED <<server, oid, wire, client, breaks>>

\* Mutant: the first open relies on the read of the mount.
OpenTrusting ==
  /\ socket = "registered" /\ socket' = "open"
  /\ IF held # None THEN UNCHANGED client ELSE Refresh
  /\ UNCHANGED <<server, oid, wire, breaks>>

\* onopen: every open re-reads the log.
Open ==
  /\ socket = "registered" /\ socket' = "open"
  /\ Refresh
  /\ UNCHANGED <<server, oid, wire, breaks>>

Drop ==
  /\ Break /\ socket # "down" /\ socket' = "down" /\ wire' = {}
  /\ UNCHANGED <<server, oid, client>>

\* A push times out: the hub forgets the socket and leaves it open.
Evict ==
  /\ Break /\ socket = "open" /\ wire # {}
  /\ socket' = "deaf"
  /\ \E m \in wire : wire' = wire \ {m}
  /\ UNCHANGED <<server, oid, client>>

-----------------------------------------------------------------------------
FeedInit ==
  /\ log = [b \in Boards |-> <<>>] /\ version = [b \in Boards |-> 0] /\ epoch = 0 /\ writes = 0
  /\ oid \in Boards
  /\ socket = "down" /\ wire = {}
  /\ records = <<>> /\ held = None /\ stale = FALSE /\ fetch = Asked
  /\ failed = FALSE /\ breaks = 0
  /\ past = {Entry(0, b, 0, <<>>) : b \in Boards}
  /\ heldEpoch = 0 /\ slipped = FALSE

ClientStep == RunEffect \/ Land \/ Connect \/ Open \/ \E m \in wire : Deliver(m)

FeedNext ==
  \/ \E b \in Boards : AppendRecord(b) \/ Rewrite(b) \/ Switch(b)
  \/ Read \/ ReadFails \/ ServerRestarts \/ Drop \/ Evict
  \/ ClientStep

FeedSpec == FeedInit /\ [][FeedNext]_feedVars

\* The browser runs its effects, promises and events; the server answers reads.
FairFeed ==
  /\ FeedSpec
  /\ WF_feedVars(RunEffect) /\ WF_feedVars(Read) /\ WF_feedVars(Land)
  /\ WF_feedVars(Connect) /\ WF_feedVars(Open) /\ WF_feedVars(\E m \in wire : Deliver(m))

-----------------------------------------------------------------------------
\* A copy that has a version is the window of that board's log as it was at that
\* version in that process: no push, however late, lost or meant for another
\* board, ever leaves a history that never was.
CopyIsOfItsVersion ==
  held # None =>
    \E p \in past : /\ p.epoch = heldEpoch /\ p.board = oid /\ p.version = held
                    /\ records = Window(p.log)

\* Once the log rests, a feed that is connected and shows no error shows the log,
\* unless an append was applied to a copy that a refresh had given up: that one
\* stays behind until the next push.
Agrees == records = Window(log[oid])
FeedCatchesUp == <>[](Agrees \/ failed \/ slipped \/ socket = "deaf")
=============================================================================
