---------------------------- MODULE OverlaysPage ----------------------------
(***************************************************************************)
(* The operator's overlays (frontend pages/OverlaysPage.tsx and            *)
(* hooks/useOverlays.ts).  Every change is one request followed by a       *)
(* reload of the list; nothing waits for the ones before, so that reloads  *)
(* may overtake each other.  While one is out there are no cards, and what *)
(* was open in them is lost.                                               *)
(***************************************************************************)
EXTENDS FiniteSets, SequencesExt, PagedList

CONSTANTS
  Oids,            \* names of overlays, numbered as they are sorted
  Texts,           \* descriptions
  Owned,           \* the overlays there are at first
  ToolsThreshold,  \* OVERLAY_TOOLS_THRESHOLD
  MaxEvents,       \* bound on what the operator does
  MaxFailures,     \* bound on requests that fail
  None

OverlaysAssumption ==
  /\ Oids \subseteq Nat /\ Owned \subseteq Oids /\ PageSize \in Nat \ {0}
  /\ MaxEvents \in Nat /\ MaxFailures \in Nat /\ None \notin Oids \cup Texts

VARIABLES
  table,   \* server: the rows, each [oid, description, favorite, public, link]
  list,    \* overlays
  page,    \* loading, loadError, createOpen, creating, query, favoritesOnly, newOverlayOid
  cards,   \* of each card, whether it is open, and is being renamed from what text
  busy,    \* the card's requests that disable a control of it
  asked,   \* the question on the screen
  jobs,    \* changes under way
  loads,   \* reloads under way
  events, failures,
  past     \* history, see below

vars == <<table, list, page, cards, busy, asked, jobs, loads, events, failures, past>>

\* past.begun: how many reloads have begun.  past.newest: the latest of them to have
\* landed.  past.overtaken: one landed after a later one.  past.overlapped: two were out at a time.  past.lost:
\* a change was made whose answer did not arrive.

NoCards == [o \in Oids |-> [open |-> FALSE, renaming |-> FALSE, text |-> None]]

\* The server's order: favorites first.
Before(r, s) == IF r.favorite = s.favorite THEN r.oid < s.oid ELSE r.favorite
Ordered(rows) == SetToSortSeq(rows, Before)

Row(o) == CHOOSE r \in Range(list) : r.oid = o
Named(rows, o) == {r \in rows : r.oid = o}

-----------------------------------------------------------------------------
(* Reloads *)

Reload(finishes) ==
  /\ loads' = loads \cup {[walk |-> Walk, number |-> past.begun + 1, finishes |-> finishes]}
  /\ cards' = NoCards /\ busy' = {}
  /\ past' = [past EXCEPT !.begun = @ + 1, !.overlapped = @ \/ loads # {}]

ReadPage(l) ==
  /\ ~l.walk.ended
  /\ loads' = (loads \ {l}) \cup {[l EXCEPT !.walk = Onward(@, Ordered(table))]}
  /\ UNCHANGED <<table, list, page, cards, busy, asked, jobs, events, failures, past>>

\* With the list of a new overlay, the form closes and the filters are lifted.  An
\* empty list opens the form, and one without favorites is not filtered by them.
Shown(p, rows, finishes) ==
  LET q == IF finishes = None THEN p
           ELSE [p EXCEPT !.createOpen = FALSE, !.creating = FALSE,
                          !.query = None, !.favoritesOnly = FALSE, !.fresh = finishes] IN
  [q EXCEPT !.createOpen = @ \/ (rows = <<>> /\ ~p.error),
            !.favoritesOnly = @ /\ \E r \in Range(rows) : r.favorite]

Land(l) ==
  /\ l.walk.ended
  /\ loads' = loads \ {l}
  /\ list' = l.walk.got
  /\ page' = Shown([page EXCEPT !.loading = FALSE, !.error = FALSE], l.walk.got, l.finishes)
  /\ past' = [past EXCEPT !.newest = IF @ < l.number THEN l.number ELSE @,
                          !.overtaken = @ \/ l.number < past.newest]
  /\ UNCHANGED <<table, cards, busy, asked, jobs, events, failures>>

LoadFails(l) ==
  /\ failures < MaxFailures /\ failures' = failures + 1
  /\ loads' = loads \ {l}
  /\ page' = Shown([page EXCEPT !.loading = FALSE, !.error = TRUE], list, l.finishes)
  /\ past' = [past EXCEPT !.newest = IF @ < l.number THEN l.number ELSE @]
  /\ UNCHANGED <<table, list, cards, busy, asked, jobs, events>>

-----------------------------------------------------------------------------
(* What the operator does *)

Acts == asked = None /\ events < MaxEvents /\ events' = events + 1 /\ UNCHANGED <<table, list, loads, failures, past>>

Searched(r) == /\ page.favoritesOnly => r.favorite
               /\ page.query = None \/ page.query = r.oid
ListShown == ~page.loading /\ ~page.error
Visible == {r \in Range(list) : ListShown /\ Searched(r)}

ToggleForm == /\ Acts /\ page' = [page EXCEPT !.createOpen = ~@]
              /\ UNCHANGED <<cards, busy, asked, jobs>>

ToolbarShown == ListShown /\ list # <<>> /\
                (Len(list) >= ToolsThreshold \/ page.query # None \/ page.favoritesOnly)

Filter ==
  /\ ToolbarShown /\ Acts
  /\ \/ \E o \in Oids : page' = [page EXCEPT !.query = o]
     \/ (\E r \in Range(list) : r.favorite) /\ page' = [page EXCEPT !.favoritesOnly = ~@]
     \/ Visible = {} /\ page' = [page EXCEPT !.query = None, !.favoritesOnly = FALSE]
  /\ UNCHANGED <<busy, asked, jobs>>
  /\ cards' = [o \in Oids |-> IF \E r \in Visible' : r.oid = o THEN cards[o] ELSE NoCards[o]]

Expand(o) ==
  /\ Acts /\ cards' = [cards EXCEPT ![o] = [NoCards[o] EXCEPT !.open = ~cards[o].open]]
  /\ UNCHANGED <<page, busy, asked, jobs>>

\* The menu's Edit opens the card, and its panel with the description as listed.
Edit(o) ==
  /\ Acts
  /\ cards' = [cards EXCEPT ![o] = [open |-> TRUE, renaming |-> ~@.renaming,
                                    text |-> IF @.renaming THEN None ELSE Row(o).description]]
  /\ UNCHANGED <<page, busy, asked, jobs>>

Job(kind, o, value) == [kind |-> kind, oid |-> o, value |-> value, id |-> events, stage |-> "sent"]

\* Requests that disable their control while they are out.
Guarded == {"rename", "regenerate", "bookmark"}

Free(kind, o) == ~\E j \in busy : j.kind = kind /\ j.oid = o

Send(j) ==
  /\ jobs' = jobs \cup {j}
  /\ busy' = IF j.kind \in Guarded THEN busy \cup {j} ELSE busy

Start(j) == Acts /\ Send(j) /\ UNCHANGED <<page, cards, asked>>
Question(j) == Acts /\ asked' = j /\ UNCHANGED <<page, cards, busy, jobs>>

Create(o, text) ==
  /\ page.createOpen /\ ~page.creating
  /\ Acts /\ Send(Job("create", o, text)) /\ page' = [page EXCEPT !.creating = TRUE]
  /\ UNCHANGED <<cards, asked>>

ToggleFavorite(o) == Start(Job("favorite", o, ~Row(o).favorite))
Delete(o) == Question(Job("delete", o, None))

\* What is saved is the text as it was, or another typed over it.
Rename(o) == /\ cards[o].renaming /\ Free("rename", o)
             /\ \E text \in Texts \cup {None} : Start(Job("rename", o, text))

\* A new link, which revokes the old one, and a guessable bookmark are asked about first.
Regenerate(o) == /\ cards[o].open /\ Free("regenerate", o)
                 /\ Question(Job("regenerate", o, None))
Bookmark(o) ==
  /\ cards[o].open /\ Free("bookmark", o)
  /\ LET j == Job("bookmark", o, ~Row(o).public) IN
     IF Row(o).public THEN Start(j) ELSE Question(j)

Answer(yes) ==
  /\ asked # None /\ asked' = None
  /\ IF yes THEN Send(asked) ELSE UNCHANGED <<jobs, busy>>
  /\ UNCHANGED <<table, list, page, cards, loads, events, failures, past>>

\* newOverlayOid fades.
Fade == /\ page.fresh # None /\ page' = [page EXCEPT !.fresh = None]
        /\ UNCHANGED <<table, list, cards, busy, asked, jobs, loads, events, failures, past>>

-----------------------------------------------------------------------------
(* Changes *)

Accepted(j) == (j.kind = "create") <=> (Named(table, j.oid) = {})

Changed(r, j) ==
  CASE j.kind = "favorite"   -> [r EXCEPT !.favorite = j.value]
    [] j.kind = "rename"     -> [r EXCEPT !.description = j.value]
    [] j.kind = "bookmark"   -> [r EXCEPT !.public = j.value]
    [] j.kind = "regenerate" -> [r EXCEPT !.link = j.id]

After(j) ==
  CASE j.kind = "create" -> table \cup {[oid |-> j.oid, description |-> j.value, favorite |-> FALSE,
                                         public |-> FALSE, link |-> j.id]}
    [] j.kind = "delete" -> table \ Named(table, j.oid)
    [] OTHER             -> {IF r.oid = j.oid THEN Changed(r, j) ELSE r : r \in table}

Serve(j) ==
  /\ j.stage = "sent" /\ Accepted(j)
  /\ table' = After(j)
  /\ jobs' = (jobs \ {j}) \cup {[j EXCEPT !.stage = "done"]}
  /\ UNCHANGED <<list, page, cards, busy, asked, loads, events, failures, past>>

Done(j) ==
  /\ j.stage = "done" /\ jobs' = jobs \ {j}
  /\ Reload(IF j.kind = "create" THEN j.oid ELSE None)
  /\ page' = [page EXCEPT !.loading = TRUE]
  /\ UNCHANGED <<table, list, asked, events, failures>>

\* A toast, or the message above the list; nothing is read again.
Refused(j) ==
  /\ jobs' = jobs \ {j} /\ busy' = {k \in busy : k.id # j.id}
  /\ page' = [page EXCEPT !.creating = @ /\ j.kind # "create"]
  /\ past' = [past EXCEPT !.lost = @ \/ j.stage = "done"]
  /\ UNCHANGED <<table, list, cards, asked, loads, events>>

Refuse(j) == j.stage = "sent" /\ ~Accepted(j) /\ Refused(j) /\ UNCHANGED failures
JobFails(j) == failures < MaxFailures /\ failures' = failures + 1 /\ Refused(j)

-----------------------------------------------------------------------------
Init ==
  /\ table = {[oid |-> o, description |-> None, favorite |-> FALSE, public |-> FALSE, link |-> 0] : o \in Owned}
  /\ list = <<>>
  /\ page = [loading |-> TRUE, error |-> FALSE, createOpen |-> FALSE, creating |-> FALSE,
             query |-> None, favoritesOnly |-> FALSE, fresh |-> None]
  /\ cards = NoCards /\ busy = {} /\ asked = None /\ jobs = {}
  /\ loads = {[walk |-> Walk, number |-> 0, finishes |-> None]}
  /\ events = 0 /\ failures = 0
  /\ past = [begun |-> 0, newest |-> 0, overtaken |-> FALSE, overlapped |-> FALSE, lost |-> FALSE]

Network ==
  \/ \E l \in loads : ReadPage(l) \/ Land(l) \/ LoadFails(l)
  \/ \E j \in jobs : Serve(j) \/ Done(j) \/ Refuse(j) \/ JobFails(j)

Operator ==
  \/ ToggleForm \/ Filter \/ Fade
  \/ \E o \in Oids, text \in Texts \cup {None} : Create(o, text)
  \/ \E r \in Visible : LET o == r.oid IN
       Expand(o) \/ Edit(o) \/ ToggleFavorite(o) \/ Delete(o) \/ Rename(o) \/ Regenerate(o) \/ Bookmark(o)
  \/ \E yes \in BOOLEAN : Answer(yes)

Next == Network \/ Operator
Spec == Init /\ [][Next]_vars

-----------------------------------------------------------------------------
(* Properties *)

\* With nothing under way the cards are the server's rows: every change was followed
\* by a reload begun after it.  Named exceptions: a reload that was overtaken by a
\* later one, a change whose answer was lost, and a list that could not be read.
OverlaysAgree ==
  loads = {} /\ jobs = {} /\ ~page.error /\ ~past.overtaken /\ ~past.lost =>
    list = Ordered(table)

\* A rename that is saved as it was opened changes nothing: its text is the listed
\* description, which no reload can change beneath it, unless two of them overlap.  Named
\* exception: an overlay listed twice, as rows may move between two pages of a reload.
ListedOnce(o) == \A r, q \in Range(list) : r.oid = o /\ q.oid = o => r = q
RenameStartsFromTheList ==
  ~past.overlapped =>
    \A o \in Oids, r \in Visible :
      r.oid = o /\ ListedOnce(o) /\ cards[o].renaming => cards[o].text = r.description

=============================================================================
