------------------------------ MODULE WakeLock ------------------------------
(***************************************************************************)
(* Keeping an operator's screen awake while a match is in progress         *)
(* (frontend/src/hooks/useScreenWakeLock.ts, as App.tsx uses it).  The     *)
(* browser answers a request later, and takes every lock back when the     *)
(* page is hidden; a request it has not yet granted by then it refuses.    *)
(* The hook's references are those of one board; a board that is opened    *)
(* anew has its own.                                                       *)
(***************************************************************************)
EXTENDS Naturals

CONSTANTS
  MaxEvents,    \* bound on what the operator, the match and the browser do
  MaxFailures,  \* bound on requests refused for another reason
  None

WakeLockAssumption == None \notin Nat /\ MaxEvents \in Nat /\ MaxFailures \in Nat

VARIABLES
  current,     \* the board that is mounted, counted, None without one
  enabled,     \* of each board so far, enabledRef: its match is in progress
  seen,        \* document.visibilityState
  sentinel,    \* of each board so far, sentinelRef
  requesting,  \* the boards whose request is out, isRequestingRef
  locks,       \* browser: the locks it holds, each by the number of its grant
  events, failures,
  orphans,     \* history: locks granted to a board that had been closed
  missed       \* history: the boards that were refused a lock and have not asked again

refs == <<enabled, sentinel, requesting>>
vars == <<current, seen, locks, refs, events, failures, orphans, missed>>

Event == events < MaxEvents /\ events' = events + 1

Awake(b) == sentinel[b] # None /\ sentinel[b] \in locks

\* acquire, for a board that is enabled: one lock and one request at a time.
Acquires(b) == ~Awake(b) /\ b \notin requesting /\ seen'

Acquire(b) ==
  /\ requesting' = IF Acquires(b) THEN requesting \cup {b} ELSE requesting
  /\ missed' = IF b \in requesting \/ ~seen' THEN missed ELSE missed \ {b}

\* release: the reference is dropped at once.
Release(b) ==
  /\ locks' = locks \ {sentinel[b]} /\ sentinel' = [sentinel EXCEPT ![b] = None]

\* The board opens, with a match in progress or none.
Mount(on) ==
  LET b == events + 1 IN
  /\ Event /\ current = None /\ current' = b
  /\ enabled' = [enabled EXCEPT ![b] = on] /\ UNCHANGED seen
  /\ IF on THEN Acquire(b) ELSE UNCHANGED <<requesting, missed>>
  /\ UNCHANGED <<locks, sentinel, failures, orphans>>

\* The match begins, ends, is reset or taken up again.
Toggle ==
  /\ Event /\ current # None
  /\ enabled' = [enabled EXCEPT ![current] = ~@] /\ UNCHANGED seen
  /\ IF enabled[current] THEN Release(current) /\ UNCHANGED <<requesting, missed>>
     ELSE Acquire(current) /\ UNCHANGED <<locks, sentinel>>
  /\ UNCHANGED <<current, failures, orphans>>

\* The effect's end releases what there is and leaves a request that is out.
Unmount ==
  /\ Event /\ current # None /\ current' = None /\ Release(current)
  /\ UNCHANGED <<seen, enabled, requesting, failures, orphans, missed>>

\* Each sentinel's release event drops the reference to it.
Hide ==
  /\ Event /\ seen /\ seen' = FALSE
  /\ locks' = {} /\ orphans' = {}
  /\ sentinel' = [b \in DOMAIN sentinel |-> None]
  /\ UNCHANGED <<current, enabled, requesting, failures, missed>>

\* onVisibilityChange
Show ==
  /\ ~seen /\ seen' = TRUE
  /\ IF current # None /\ enabled[current] THEN Acquire(current) ELSE UNCHANGED <<requesting, missed>>
  /\ UNCHANGED <<current, enabled, sentinel, locks, events, failures, orphans>>

\* The request is granted: to a board whose match has ended since it is given back.
Grant(b) ==
  LET lock == events + 1 IN
  /\ Event /\ seen /\ b \in requesting /\ requesting' = requesting \ {b}
  /\ IF ~enabled[b] THEN UNCHANGED <<locks, sentinel, orphans>>
     ELSE /\ locks' = locks \cup {lock} /\ sentinel' = [sentinel EXCEPT ![b] = lock]
          /\ orphans' = IF b = current THEN orphans ELSE orphans \cup {lock}
  /\ UNCHANGED <<current, enabled, seen, failures, missed>>

Refuse(b) ==
  /\ b \in requesting /\ requesting' = requesting \ {b}
  /\ missed' = missed \cup {b}
  /\ \/ ~seen /\ UNCHANGED failures
     \/ failures < MaxFailures /\ failures' = failures + 1
  /\ UNCHANGED <<current, seen, enabled, sentinel, locks, events, orphans>>

Init ==
  /\ current = None /\ seen = TRUE /\ locks = {}
  /\ enabled = [b \in 1..MaxEvents |-> FALSE] /\ sentinel = [b \in 1..MaxEvents |-> None]
  /\ requesting = {} /\ events = 0 /\ failures = 0 /\ orphans = {} /\ missed = {}

Next ==
  \/ \E on \in BOOLEAN : Mount(on)
  \/ Toggle \/ Unmount \/ Hide \/ Show
  \/ \E b \in requesting : Grant(b) \/ Refuse(b)

Spec == Init /\ [][Next]_vars

-----------------------------------------------------------------------------
\* With no request out, a screen that is seen is kept awake by one lock while a match of the
\* board is in progress and by none otherwise, unless a request of it was refused and nothing
\* has asked again; a lock that outlives its board is one granted after it was closed.
ScreenIsKept ==
  requesting = {} =>
    /\ locks \subseteq orphans \cup {sentinel[b] : b \in {current} \ {None}}
    /\ current # None /\ seen /\ current \notin missed => (Awake(current) <=> enabled[current])
    /\ current # None /\ ~enabled[current] => ~Awake(current)
=============================================================================
