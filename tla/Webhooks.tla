------------------------------ MODULE Webhooks ------------------------------
(***************************************************************************)
(* Outbound webhooks (app/api/webhooks.py), the dead-letter file           *)
(* (webhook_dead_letter.py) and its replay (routes/admin_users.py).  What  *)
(* the game reports is queued for a pool of threads, tried a few times and *)
(* kept in a file when nobody answers; an administrator sends the file     *)
(* again.  A delivery is an occurrence and a target.                       *)
(***************************************************************************)
EXTENDS Integers, SequencesExt, FiniteSetsExt, Functions

CONSTANTS
  Names,        \* what an event can be called
  Known,        \* KNOWN_EVENTS
  Occurrences,  \* what the game reports, each once
  EventOf,      \* the name an occurrence is reported under
  Targets,      \* endpoints
  Wanted,       \* the names an endpoint is configured with
  Configs,      \* environments: endpoints of WEBHOOKS_JSON, endpoints of WEBHOOKS_URL
  Threads,      \* _MAX_WORKERS
  Retries,      \* WEBHOOK_RETRY_ATTEMPTS
  Cap,          \* WEBHOOK_DEAD_LETTER_MAX_RECORDS
  Replays,      \* requests to POST /admin/webhooks/replay
  MaxStops      \* bound on restarts

ASSUME WebhooksAssumption ==
  /\ IsFiniteSet(Targets) /\ Wanted \in [Targets -> SUBSET Names] /\ EventOf \in [Occurrences -> Names] /\ Known \subseteq Names
  /\ Configs \subseteq [json : SUBSET Targets, url : SUBSET Targets]
  /\ Threads \in Nat \ {0} /\ Retries \in Nat /\ Cap \in Nat \ {0} /\ MaxStops \in Nat

VARIABLES
  reported,   \* the occurrences dispatched so far
  accepted,   \* history: the deliveries queued for them
  targets,    \* _targets
  backlog,    \* deliveries submitted to the pool and not begun
  sending,    \* deliveries a thread is at: how many attempts have failed
  file,       \* the dead-letter file: deliveries, with the time each was written
  clock,      \* time, in records written
  replay,     \* where each request of the administrator is
  up,         \* the process has not begun to shut down
  stops,      \* counts against MaxStops
  fate        \* history: how a delivery ended, when it did

pool == <<backlog, sending>>
hookVars == <<reported, accepted, targets, pool, file, clock, replay, up, stops, fate>>

Deliveries == Occurrences \X Targets

\* _normalise_events: a list without a name that is known subscribes to everything.
Accepts(t) == IF Wanted[t] \cap Known = {} THEN Known ELSE Wanted[t] \cap Known

\* _load_targets_locked: the list, and without a usable entry in it the single one.
Load(c) == IF c.json # {} THEN c.json ELSE c.url

Idle == [stage |-> "no"]
Batch(seen, kept, todo) ==
  [stage |-> "sending", seen |-> seen, kept |-> kept, todo |-> todo, tried |-> 0, failing |-> <<>>]

Fates == {"delivered", "refused", "cancelled", "evicted", "unwritten", "overtaken"}

End(ds, how) == fate' = [d \in DOMAIN fate \cup ds |-> IF d \in ds THEN how ELSE fate[d]]

HooksInit ==
  /\ reported = {} /\ accepted = {} /\ \E c \in Configs : targets = Load(c)
  /\ backlog = <<>> /\ sending = <<>> /\ file = <<>> /\ clock = 0
  /\ replay = [r \in Replays |-> Idle]
  /\ up = TRUE /\ stops = 0 /\ fate = <<>>

-----------------------------------------------------------------------------
(* Delivery *)

\* dispatch: an unknown name goes to nobody.
DispatchEvent(o) ==
  LET queued == {<<o, t>> : t \in {u \in targets : EventOf[o] \in Known /\ EventOf[o] \in Accepts(u)}}
  IN  /\ up /\ o \notin reported
      /\ reported' = reported \cup {o} /\ accepted' = accepted \cup queued
      /\ backlog' = backlog \o SetToSeq(queued)
      /\ UNCHANGED <<targets, sending, file, clock, replay, up, stops, fate>>

Begin ==
  /\ backlog # <<>> /\ Cardinality(DOMAIN sending) < Threads
  /\ backlog' = Tail(backlog) /\ sending' = [d \in DOMAIN sending \cup {Head(backlog)} |->
                                          IF d \in DOMAIN sending THEN sending[d] ELSE 0]
  /\ UNCHANGED <<reported, accepted, targets, file, clock, replay, up, stops, fate>>

Leave(d) == sending' = Restrict(sending, DOMAIN sending \ {d})

\* The pool's half of _attempt_with_retries.  A response below 400 is the end of it,
\* and so are one below 500 and, before the first attempt, an address that is not
\* allowed; anything else is tried again.
Answered(d, how) ==
  /\ d \in DOMAIN sending /\ sending[d] <= Retries
  /\ Leave(d) /\ End({d}, how)
  /\ UNCHANGED <<reported, accepted, targets, backlog, file, clock, replay, up, stops>>

\* Mutant: the last failure begins again.
FailForever(d) ==
  /\ d \in DOMAIN sending /\ sending[d] <= Retries
  /\ sending' = [sending EXCEPT ![d] = IF @ = Retries THEN 0 ELSE @ + 1]
  /\ UNCHANGED <<reported, accepted, targets, backlog, file, clock, replay, up, stops, fate>>

Fail(d) ==
  /\ d \in DOMAIN sending /\ sending[d] <= Retries
  /\ sending' = [sending EXCEPT ![d] = @ + 1]
  /\ UNCHANGED <<reported, accepted, targets, backlog, file, clock, replay, up, stops, fate>>

\* append: the oldest records make room for the new one.
Written(d) == Append(file, [what |-> d, at |-> clock + 1])
Overflow == IF Len(file) + 1 > Cap THEN Len(file) + 1 - Cap ELSE 0

DeadLetter(d) ==
  /\ d \in DOMAIN sending /\ sending[d] > Retries
  /\ Leave(d) /\ clock' = clock + 1
  /\ file' = SubSeq(Written(d), Overflow + 1, Len(file) + 1)
  /\ End({file[n].what : n \in 1..Overflow}, "evicted")
  /\ UNCHANGED <<reported, accepted, targets, backlog, replay, up, stops>>

\* The file cannot be written: the record is logged and gone.
LoseRecord(d) ==
  /\ d \in DOMAIN sending /\ sending[d] > Retries
  /\ Leave(d) /\ End({d}, "unwritten")
  /\ UNCHANGED <<reported, accepted, targets, backlog, file, clock, replay, up, stops>>

-----------------------------------------------------------------------------
(* replay_dead_letter_webhooks *)

Whats(s) == {s[n].what : n \in DOMAIN s}

\* The records of a file that belong to some, in their order.
Only(s, some) ==
  LET taken[n \in 0..Len(s)] == IF n = 0 THEN <<>>
                                ELSE IF s[n] \in some THEN Append(taken[n - 1], s[n]) ELSE taken[n - 1]
  IN  taken[Len(s)]

Since(since) == {rec \in ToSet(file) : rec.at >= since}

\* Mutant: what exceeds max_records is not put back.
SliceShort(since, most) ==
  LET eligible == Only(file, Since(since))
      held == Only(file, ToSet(file) \ Since(since))
      n == IF Len(eligible) < most THEN Len(eligible) ELSE most
  IN  Batch(Whats(file), held, SubSeq(eligible, 1, n))

\* The file as it was read: records before since and past max_records are kept.
Slice(since, most) ==
  LET eligible == Only(file, Since(since))
      held == Only(file, ToSet(file) \ Since(since))
      n == IF Len(eligible) < most THEN Len(eligible) ELSE most
  IN  Batch(Whats(file), held \o SubSeq(eligible, n + 1, Len(eligible)), SubSeq(eligible, 1, n))

StartReplay(r) ==
  /\ up /\ replay[r] = Idle
  /\ \E since \in 0..clock, most \in 1..Cap : replay' = [replay EXCEPT ![r] = Slice(since, most)]
  /\ UNCHANGED <<reported, accepted, targets, pool, file, clock, up, stops, fate>>

At(r) == Head(replay[r].todo).what

\* replay_records: what was not delivered is kept, whatever the reason.
Resent(r) ==
  /\ replay[r].stage = "sending" /\ replay[r].todo # <<>> /\ At(r)[2] \in targets
  /\ replay' = [replay EXCEPT ![r].todo = Tail(@), ![r].tried = 0]
  /\ End({At(r)}, "delivered")
  /\ UNCHANGED <<reported, accepted, targets, pool, file, clock, up, stops>>

KeepFailing(r) ==
  /\ replay[r].stage = "sending" /\ replay[r].todo # <<>>
  /\ replay' = [replay EXCEPT ![r].todo = Tail(@), ![r].tried = 0,
                              ![r].failing = Append(@, Head(replay[r].todo))]
  /\ UNCHANGED <<reported, accepted, targets, pool, file, clock, up, stops, fate>>

ResendFails(r) ==
  /\ replay[r].stage = "sending" /\ replay[r].todo # <<>> /\ At(r)[2] \in targets
  /\ replay[r].tried < Retries
  /\ replay' = [replay EXCEPT ![r].tried = @ + 1]
  /\ UNCHANGED <<reported, accepted, targets, pool, file, clock, up, stops, fate>>

\* replace_all with what is left of the file that was read: what came after is gone.
EndReplay(r) ==
  LET left == replay[r].kept \o replay[r].failing IN
  /\ replay[r].stage = "sending" /\ replay[r].todo = <<>>
  /\ replay' = [replay EXCEPT ![r] = [stage |-> "done"]]
  /\ \/ /\ file' = left
        /\ End(Whats(file) \ replay[r].seen, "overtaken")
     \/ UNCHANGED <<file, fate>>                     \* it cannot be written
  /\ UNCHANGED <<reported, accepted, targets, pool, clock, up, stops>>

-----------------------------------------------------------------------------
(* shutdown cancels what has not begun; the end of the process ends the rest.  *)

StopPool ==
  /\ up /\ stops < MaxStops /\ up' = FALSE
  /\ backlog' = <<>> /\ End(ToSet(backlog), "cancelled")
  /\ UNCHANGED <<reported, accepted, targets, sending, file, clock, replay, stops>>

Restart ==
  /\ stops < MaxStops /\ stops' = stops + 1 /\ up' = TRUE
  /\ \E c \in Configs : targets' = Load(c)
  /\ backlog' = <<>> /\ sending' = <<>>
  /\ End(ToSet(backlog) \cup DOMAIN sending, "cancelled")
  /\ replay' = [r \in Replays |-> IF replay[r].stage = "sending" THEN [stage |-> "done"] ELSE replay[r]]
  /\ UNCHANGED <<reported, accepted, file, clock>>

Deliverer ==
  \/ Begin
  \/ \E d \in DOMAIN sending :
       \/ \E how \in {"delivered", "refused"} : Answered(d, how)
       \/ Fail(d) \/ DeadLetter(d) \/ LoseRecord(d)

Replaying(r) == Resent(r) \/ KeepFailing(r) \/ ResendFails(r) \/ EndReplay(r)

HooksNext ==
  \/ \E o \in Occurrences : DispatchEvent(o)
  \/ Deliverer
  \/ \E r \in Replays : StartReplay(r) \/ Replaying(r)
  \/ StopPool \/ Restart

HooksSpec == HooksInit /\ [][HooksNext]_hookVars

\* A thread of the pool goes on: a request ends by its timeout.
HooksFairness ==
  /\ WF_hookVars(Begin)
  /\ \A d \in Deliveries : WF_hookVars(\/ \E how \in {"delivered", "refused"} : Answered(d, how)
                                  \/ Fail(d) \/ DeadLetter(d) \/ LoseRecord(d))

-----------------------------------------------------------------------------
Underway == ToSet(backlog) \cup DOMAIN sending
Ended(how) == {d \in DOMAIN fate : fate[d] \in how}

\* Whatever the game reports to a target is waiting, on its way, in the dead-letter
\* file, or at an end the code has for it, and it is in the file once: replays that
\* overlap, evictions, restarts and changed configurations lose nothing else.  What
\* is written while a replay is out is lost with the file that the replay replaces.
DeliveriesAreAccounted ==
  /\ accepted \subseteq Underway \cup Whats(file) \cup Ended(Fates)
  /\ Cardinality(Whats(file)) = Len(file) /\ Len(file) <= Cap

\* No delivery occupies a thread, or waits for one, for ever.
DeliveriesEnd == \A d \in Deliveries : d \in Underway ~> d \notin Underway
=============================================================================
