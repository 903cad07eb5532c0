-------------------------- MODULE OverlayExecutor --------------------------
(***************************************************************************)
(* OverlayTaskExecutor (app/overlay_executor.py): submitting threads, the  *)
(* semaphore that bounds accepted work, the keyed queues behind one        *)
(* condition variable, the threads of the pool, and a shutdown.  One       *)
(* action is one critical section, or one step outside of any; an item is  *)
(* submitted once, so its stage is also the program counter of its         *)
(* submitter and then of the thread that runs it.                          *)
(***************************************************************************)
EXTENDS Integers, SequencesExt, FiniteSetsExt

CONSTANTS
  Items,    \* calls of submit
  Keys,     \* storage keys
  KeyOf,    \* the key an item is submitted under
  OnLoop,   \* items submitted by the thread of the event loop
  Workers,  \* max_workers
  MaxQueue  \* max_queue

ASSUME ExecutorAssumption ==
  /\ IsFiniteSet(Items) /\ IsFiniteSet(Keys)
  /\ KeyOf \in [Items -> Keys] /\ OnLoop \subseteq Items
  /\ Workers \in Nat \ {0} /\ MaxQueue \in Nat \ {0}

VARIABLES
  stage,      \* where each item is
  permits,    \* _capacity
  queues,     \* _queues
  ready,      \* _ready_keys, and as a set _ready_key_set
  busy,       \* _running_keys
  unfinished, \* _unfinished_count
  closed,     \* _shutdown
  stopper     \* the thread in shutdown()

vars == <<stage, permits, queues, ready, busy, unfinished, closed, stopper>>
keyed == <<queues, ready, busy>>

Capacity == Workers + MaxQueue

Stages == {"new", "blocked", "admitted", "queued", "assigned", "running", "ended",
           "released", "done", "refused", "saturated", "cancelled"}

Init ==
  /\ stage = [i \in Items |-> "new"]
  /\ permits = Capacity
  /\ queues = [k \in Keys |-> <<>>] /\ ready = <<>> /\ busy = {}
  /\ unfinished = 0
  /\ closed = FALSE /\ stopper = "none"

Move(i, to) == stage' = [stage EXCEPT ![i] = to]
In(S) == {i \in Items : stage[i] \in S}

-----------------------------------------------------------------------------
\* _acquire_capacity: try, and then either wait or give up.

Acquire(i) ==
  /\ stage[i] = "new" /\ permits > 0
  /\ permits' = permits - 1 /\ Move(i, "admitted")
  /\ UNCHANGED <<keyed, unfinished, closed, stopper>>

Block(i) ==
  /\ stage[i] = "new" /\ permits = 0 /\ i \notin OnLoop
  /\ Move(i, "blocked")
  /\ UNCHANGED <<permits, keyed, unfinished, closed, stopper>>

Saturate(i) ==
  /\ stage[i] = "new" /\ permits = 0 /\ i \in OnLoop
  /\ Move(i, "saturated")
  /\ UNCHANGED <<permits, keyed, unfinished, closed, stopper>>

Wake(i) ==
  /\ stage[i] = "blocked" /\ permits > 0
  /\ permits' = permits - 1 /\ Move(i, "admitted")
  /\ UNCHANGED <<keyed, unfinished, closed, stopper>>

-----------------------------------------------------------------------------
\* The sections under the condition.

\* Mutant: a worker takes the newest item of a key.
DispatchNewest(q, r, b, st) ==
  LET n == Min({Len(r), Workers - Cardinality(b)})
      go == {r[j] : j \in 1..n}
      first == {Last(q[k]) : k \in go}
  IN  /\ queues' = [k \in Keys |-> IF k \in go THEN Front(q[k]) ELSE q[k]]
      /\ ready' = SubSeq(r, n + 1, Len(r))
      /\ busy' = b \cup go
      /\ stage' = [i \in Items |-> IF i \in first THEN "assigned" ELSE st[i]]

\* _dispatch_ready_locked, on the queues, ready keys and busy keys it finds and
\* with the stages as they then are: the first ready keys get the free workers.
Dispatch(q, r, b, st) ==
  LET n == Min({Len(r), Workers - Cardinality(b)})
      go == {r[j] : j \in 1..n}
      first == {Head(q[k]) : k \in go}
  IN  /\ queues' = [k \in Keys |-> IF k \in go THEN Tail(q[k]) ELSE q[k]]
      /\ ready' = SubSeq(r, n + 1, Len(r))
      /\ busy' = b \cup go
      /\ stage' = [i \in Items |-> IF i \in first THEN "assigned" ELSE st[i]]

Enqueue(i) ==
  LET k == KeyOf[i] IN
  /\ stage[i] = "admitted" /\ ~closed
  /\ unfinished' = unfinished + 1
  /\ Dispatch([queues EXCEPT ![k] = Append(@, i)],
              IF k \in busy \cup ToSet(ready) THEN ready ELSE Append(ready, k),
              busy, [stage EXCEPT ![i] = "queued"])
  /\ UNCHANGED <<permits, closed, stopper>>

\* Mutant: a refused call keeps its permit.
RefuseHolding(i) ==
  /\ stage[i] = "admitted" /\ closed /\ Move(i, "refused")
  /\ UNCHANGED <<permits, keyed, unfinished, closed, stopper>>

Refuse(i) ==
  /\ stage[i] = "admitted" /\ closed
  /\ permits' = permits + 1 /\ Move(i, "refused")
  /\ UNCHANGED <<keyed, unfinished, closed, stopper>>

\* _run_item: the function runs, its future gets the result or the exception,
\* the permit goes back, and only then the worker takes the condition.
Run(i) ==
  /\ stage[i] = "assigned" /\ Move(i, "running")
  /\ UNCHANGED <<permits, keyed, unfinished, closed, stopper>>

Complete(i) ==
  /\ stage[i] = "running" /\ Move(i, "ended")
  /\ UNCHANGED <<permits, keyed, unfinished, closed, stopper>>

Release(i) ==
  /\ stage[i] = "ended"
  /\ permits' = permits + 1 /\ Move(i, "released")
  /\ UNCHANGED <<keyed, unfinished, closed, stopper>>

\* Mutant: the key is not made ready again.
RetireForgetting(i) ==
  /\ stage[i] = "released"
  /\ unfinished' = unfinished - 1
  /\ Dispatch(queues, ready, busy \ {KeyOf[i]}, [stage EXCEPT ![i] = "done"])
  /\ UNCHANGED <<permits, closed, stopper>>

Retire(i) ==
  LET k == KeyOf[i] IN
  /\ stage[i] = "released"
  /\ unfinished' = unfinished - 1
  /\ Dispatch(queues, IF queues[k] # <<>> THEN Append(ready, k) ELSE ready,
              busy \ {k}, [stage EXCEPT ![i] = "done"])
  /\ UNCHANGED <<permits, closed, stopper>>

\* shutdown: queued work is cancelled if asked for; then wait for the rest, or
\* leave it to the pool.
Shutdown(wait, cancel) ==
  LET gone == IF cancel THEN In({"queued"}) ELSE {} IN
  /\ ~closed /\ (wait \/ cancel)
  /\ closed' = TRUE
  /\ stopper' = IF wait THEN "waiting" ELSE "stopped"
  /\ stage' = [i \in Items |-> IF i \in gone THEN "cancelled" ELSE stage[i]]
  /\ permits' = permits + Cardinality(gone)
  /\ unfinished' = unfinished - Cardinality(gone)
  /\ IF cancel THEN queues' = [k \in Keys |-> <<>>] /\ ready' = <<>>
               ELSE UNCHANGED <<queues, ready>>
  /\ UNCHANGED busy

Drained ==
  /\ stopper = "waiting" /\ unfinished = 0
  /\ stopper' = "stopped"
  /\ UNCHANGED <<stage, permits, keyed, unfinished, closed>>

-----------------------------------------------------------------------------
Submitter(i) == Acquire(i) \/ Block(i) \/ Saturate(i) \/ Wake(i) \/ Enqueue(i) \/ Refuse(i)
Worker(i) == Run(i) \/ Complete(i) \/ Release(i) \/ Retire(i)

Next ==
  \/ \E i \in Items : Submitter(i) \/ Worker(i)
  \/ \E wait, cancel \in BOOLEAN : Shutdown(wait, cancel)
  \/ Drained

Spec == Init /\ [][Next]_vars

\* A submitter that has got its permit goes on, a task ends, and so do the
\* sections of the worker and of shutdown.  A woken submitter can find the
\* permit taken: the semaphore wakes one waiter per release, so it is SF.
Fairness ==
  /\ WF_vars(Drained)
  /\ \A i \in Items : /\ WF_vars(Worker(i)) /\ WF_vars(Enqueue(i) \/ Refuse(i))
                      /\ SF_vars(Wake(i))
FairSpec == Spec /\ Fairness

-----------------------------------------------------------------------------
\* Every permit is held by an item that is on its way, whatever was refused,
\* cancelled or failed: nothing leaks and nothing is released twice.
Holding == {"admitted", "queued", "assigned", "running", "ended"}
PermitsConserved == permits + Cardinality(In(Holding)) = Capacity

\* A key with work is in exactly one place, the ready list or a worker: no
\* wakeup is lost and no key is dispatched twice.
KeysAccounted ==
  /\ \A j, m \in DOMAIN ready : ready[j] = ready[m] => j = m
  /\ \A k \in Keys :
       /\ k \in ToSet(ready) <=> queues[k] # <<>> /\ k \notin busy
       /\ k \in busy <=>
            \E i \in In({"assigned", "running", "ended", "released"}) : KeyOf[i] = k
  /\ In({"queued"}) = UNION {ToSet(queues[k]) : k \in Keys}

\* Free workers and ready keys do not coexist, and a pool that shutdown has
\* closed is never handed another item.
WorkIsDispatched ==
  /\ ready # <<>> => Cardinality(busy) = Workers
  /\ stopper = "stopped" => \A k \in Keys : queues[k] = <<>>

\* What the counter that shutdown waits for counts.
UnfinishedCounts ==
  unfinished = Cardinality(In({"queued", "assigned", "running", "ended", "released"}))

\* Permits, keys and unfinished work are each counted in their own place, under
\* their own lock; whatever is refused, cancelled or fails, all three agree with
\* where the items are, and no worker is free while a key is ready.
BooksBalance == PermitsConserved /\ KeysAccounted /\ UnfinishedCounts /\ WorkIsDispatched

\* The promise of KeyedFifo.  An item stays waiting there until a thread of the
\* pool starts it, so the one assigned stands before the queue of its key.
AssignedTo(k) == {i \in In({"assigned"}) : KeyOf[i] = k}
Line(k) == IF AssignedTo(k) = {} THEN queues[k]
           ELSE <<CHOOSE i \in AssignedTo(k) : TRUE>> \o queues[k]

Promise == INSTANCE KeyedFifo WITH
  waiting <- [k \in Keys |-> Line(k)], active <- In({"running"})

ImplementsPromise == Promise!Spec

\* A thread that asks for capacity gets an answer, and so does run_after_pending.
SubmittersAnswered ==
  \A i \in Items : stage[i] \in {"blocked", "admitted", "queued", "assigned"} ~>
                   stage[i] \in {"done", "refused", "cancelled"}

\* shutdown(wait=True) returns.
ShutdownReturns == stopper = "waiting" ~> stopper = "stopped"

\* Nobody who waits on the executor waits for ever, whatever is cancelled,
\* refused or fails meanwhile: neither a submitter nor shutdown itself.
EveryoneIsAnswered == SubmittersAnswered /\ ShutdownReturns
=============================================================================
