--------------------------- MODULE ConfigOptions ---------------------------
(***************************************************************************)
(* The group of teams that a board's settings offer teams of               *)
(* (frontend/src/components/config/useConfigOptions.ts): the panel loads   *)
(* the groups with the one the board remembers, then that group's teams,   *)
(* and a pick is shown before it is saved (api/routes/teams.py,            *)
(* board_select_group).  What the other lookups answer is left out, and    *)
(* that they may fail is not.                                              *)
(***************************************************************************)
EXTENDS Naturals, SequencesExt

CONSTANTS
  Groups,       \* the groups a board may offer
  All,          \* the group of all teams, which none deletes
  MaxEvents,    \* bound on picks, retries and deletions
  MaxFailures,  \* bound on requests that fail
  None

OptionsAssumption ==
  /\ All \notin Groups /\ None \notin Groups \cup {All}
  /\ MaxEvents \in Nat /\ MaxFailures \in Nat

VARIABLES
  there, remembered,   \* server: the groups it has, selected_team_group_id
  offered, selectedGroupId,   \* groups, and the one shown
  loaded, roster,        \* groupsLoaded, and whose teams are offered (None: nobody's yet)
  load,                  \* the first lookup's requests, answered or not; None with none out
  fetch,                 \* the group whose teams are on their way, None without one
  writes,                \* the picks on their way, each by its number
  banner,                \* failed: a banner offers to retry
  events, failures,
  raced                  \* history: the panel read or wrote a selection out of order

server == <<there, remembered>>
panel == <<offered, selectedGroupId, loaded, roster, load, fetch, banner>>
vars == <<server, panel, writes, events, failures, raced>>

Event == events < MaxEvents /\ events' = events + 1
Fails == failures < MaxFailures /\ failures' = failures + 1

\* board_group_list: a selection that is no longer there is none.
Remembered == IF remembered \in there THEN remembered ELSE All

Unanswered == [groups |-> None, selected |-> None]

\* reload
Reload ==
  /\ Event /\ banner /\ load = None
  /\ load' = Unanswered /\ loaded' = FALSE /\ fetch' = None /\ banner' = FALSE
  /\ UNCHANGED <<server, offered, selectedGroupId, roster, writes, failures, raced>>

Answer ==
  /\ load = Unanswered /\ load' = [groups |-> there, selected |-> Remembered]
  /\ UNCHANGED <<server, offered, selectedGroupId, loaded, roster, fetch, banner, writes, events, failures, raced>>

\* All lookups are settled, and one of them may have failed.
Loaded ==
  /\ load # None /\ load # Unanswered /\ load' = None
  /\ offered' = load.groups /\ selectedGroupId' = load.selected
  /\ loaded' = TRUE /\ fetch' = load.selected
  /\ \/ banner' = FALSE /\ UNCHANGED failures
     \/ banner' = TRUE /\ Fails
  /\ raced' = (writes # <<>> \/ load.selected # Remembered)
  /\ UNCHANGED <<server, roster, writes, events>>

\* The lookup of the groups fails: no team is fetched, and the old ones stay.
NotLoaded ==
  /\ load # None /\ load' = None /\ Fails /\ banner' = TRUE /\ loaded' = FALSE
  /\ UNCHANGED <<server, offered, selectedGroupId, roster, fetch, writes, events, raced>>

\* selectGroup
Pick(g) ==
  /\ Event /\ offered # None /\ g \in offered \cup {All} /\ g # selectedGroupId
  /\ selectedGroupId' = g /\ writes' = Append(writes, [group |-> g, saved |-> FALSE])
  /\ fetch' = IF loaded THEN g ELSE fetch
  /\ UNCHANGED <<server, offered, loaded, roster, load, banner, failures, raced>>

\* No younger pick is still to be saved, and what is selected is another.
Overtaken(i) == writes[i].group # selectedGroupId /\ \A j \in DOMAIN writes : j > i => writes[j].saved

\* The server saves a pick of a group that is there.
Save(i) ==
  LET g == writes[i].group IN
  /\ ~writes[i].saved /\ g \in there \cup {All}
  /\ remembered' = g /\ writes' = [writes EXCEPT ![i].saved = TRUE]
  /\ raced' = (raced \/ Overtaken(i))
  /\ UNCHANGED <<there, panel, events, failures>>

Saved(i) ==
  /\ writes[i].saved /\ writes' = RemoveAt(writes, i)
  /\ UNCHANGED <<server, panel, events, failures, raced>>

\* A pick is refused, since the group is gone, or does not arrive, or its answer does not.
NotSaved(i) ==
  /\ writes' = RemoveAt(writes, i) /\ banner' = TRUE
  /\ \/ ~writes[i].saved /\ writes[i].group \notin there \cup {All} /\ UNCHANGED failures
     \/ Fails
  /\ UNCHANGED <<server, offered, selectedGroupId, loaded, roster, load, fetch, events, raced>>

Fetched ==
  /\ fetch # None /\ roster' = fetch /\ fetch' = None
  /\ UNCHANGED <<server, offered, selectedGroupId, loaded, load, banner, writes, events, failures, raced>>

NotFetched ==
  /\ fetch # None /\ fetch' = None /\ Fails /\ banner' = TRUE
  /\ UNCHANGED <<server, offered, selectedGroupId, loaded, roster, load, writes, events, raced>>

\* The owner deletes a group elsewhere.
Delete(g) ==
  /\ Event /\ there' = there \ {g} /\ UNCHANGED <<remembered, panel, writes, failures, raced>>

Init ==
  /\ there = Groups /\ remembered \in Groups \cup {All}
  /\ offered = None /\ selectedGroupId = All /\ loaded = FALSE /\ roster = None
  /\ load = Unanswered /\ fetch = None /\ writes = <<>> /\ banner = FALSE
  /\ events = 0 /\ failures = 0 /\ raced = FALSE

Next ==
  \/ Reload \/ Answer \/ Loaded \/ NotLoaded \/ Fetched \/ NotFetched
  \/ \E g \in Groups \cup {All} : Pick(g)
  \/ \E g \in there : Delete(g)
  \/ \E i \in DOMAIN writes : Save(i) \/ Saved(i) \/ NotSaved(i)

Spec == Init /\ [][Next]_vars

-----------------------------------------------------------------------------
\* With nothing under way and no banner, the teams offered are those of the group selected, and
\* that is the group the board will reopen with, unless it has been deleted since or a read and
\* a pick, or two picks, have overtaken each other.
OptionsAgree ==
  load = None /\ fetch = None /\ writes = <<>> /\ ~banner =>
    /\ roster = selectedGroupId
    /\ raced \/ selectedGroupId = Remembered \/ selectedGroupId \notin there \cup {All}
=============================================================================
