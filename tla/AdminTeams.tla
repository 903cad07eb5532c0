------------------------------ MODULE AdminTeams ------------------------------
(***************************************************************************)
(* The admin's catalog of teams and the groups it publishes (frontend      *)
(* pages/AdminTeamsPage.tsx, pages/JsonImportExport.tsx).  The catalog     *)
(* lets go of what is ticked and edited before it is read again, except    *)
(* after an edit or an import; the section of the groups reads a catalog   *)
(* of its own, after its own changes only.  A database may give the number *)
(* of a team that is gone to a new one.                                    *)
(***************************************************************************)
EXTENDS FiniteSets, Naturals

CONSTANTS
  Names,        \* names of teams, numbered
  Catalog,      \* the names there are at first
  GroupIds,     \* groups there can be
  Published,    \* those there are at first, of the whole catalog
  FILTER_THRESHOLD,
  MaxEvents,    \* bound on what the admin does
  MaxFailures,  \* bound on requests that fail
  None

AdminTeamsAssumption ==
  /\ IsFiniteSet(Names) /\ Names \subseteq Nat \ {0} /\ Catalog \subseteq Names /\ Published \subseteq GroupIds
  /\ FILTER_THRESHOLD \in Nat /\ MaxEvents \in Nat /\ MaxFailures \in Nat
  /\ None \notin Nat \cup GroupIds

VARIABLES
  teams,    \* server: of each team, its name, the change that made it and the last one
  groups,   \* server: of each group, is_active and its members
  used,     \* server: the highest number a team has had
  catalog,  \* the catalog as listed
  view,     \* query, creating
  ticked,   \* the numbers that are ticked, each with the team it was ticked for
  editor,   \* the team being edited, and the request of its editor
  json,     \* text, busy
  section,  \* the groups as listed, and the catalog read with them
  cards,    \* of each group, addId, busy
  naming,   \* the request for a new group, if one is being made
  asked, jobs, loads, events, failures,
  past      \* history, see below

server == <<teams, groups, used>>
page == <<catalog, view, ticked, editor, json, section, cards, naming>>
vars == <<server, page, asked, jobs, loads, events, failures, past>>

\* past.begun: how many reads have begun.  past.newest: of each list, the latest to have
\* arrived.  past.missed: one arrived after a later one or could not be read, or a
\* change was made whose answer was lost.  past.replaced: an import replaced the
\* catalog.  past.early: something was ticked or opened while something was under way.
\* past.moved: how many reads had begun when the catalog last changed.

NoTeam == [id |-> None, born |-> None]
NoEditor == [team |-> NoTeam, busy |-> None]
Closed == [addId |-> None, busy |-> None]

MaxOf(S) == CHOOSE x \in S : \A y \in S : y <= x
Named(f, n) == {i \in DOMAIN f : f[i].name = n}

-----------------------------------------------------------------------------
(* Reading the lists *)

Read(list, number, for) ==
  [list |-> list, number |-> number, for |-> for,
   groups |-> IF list = "section" THEN None ELSE <<>>, catalog |-> None]

Load(list, for) ==
  /\ loads' = loads \cup {Read(list, past.begun + 1, for)}
  /\ past' = [past EXCEPT !.begun = @ + 1]

ReloadKeeping(for) == Load("catalog", for) /\ UNCHANGED <<ticked, editor>>   \* Mutant: ticks are kept

Reload(for) == Load("catalog", for) /\ ticked' = {} /\ editor' = NoEditor

AnswerGroups(l) ==
  /\ l.groups = None /\ loads' = (loads \ {l}) \cup {[l EXCEPT !.groups = groups]}
  /\ UNCHANGED <<server, page, asked, jobs, events, failures, past>>

AnswerCatalog(l) ==
  /\ l.catalog = None /\ loads' = (loads \ {l}) \cup {[l EXCEPT !.catalog = teams]}
  /\ UNCHANGED <<server, page, asked, jobs, events, failures, past>>

Freed(for) == IF naming = for THEN None ELSE naming
Release(card, for) == IF card.busy = for THEN [card EXCEPT !.busy = None] ELSE card

\* An editor whose team is not listed is not there, though it is still the one to open.
Mounted(ids) == IF editor.team.id \in ids THEN editor ELSE [editor EXCEPT !.busy = None]

Land(l) ==
  /\ l.groups # None /\ l.catalog # None /\ loads' = loads \ {l}
  /\ IF l.list = "catalog"
     THEN /\ catalog' = l.catalog /\ editor' = Mounted(DOMAIN l.catalog)
          /\ UNCHANGED <<section, cards, naming>>
     ELSE /\ section' = [groups |-> l.groups, catalog |-> l.catalog]
          /\ cards' = [g \in GroupIds |-> IF g \in DOMAIN l.groups THEN Release(cards[g], l.for) ELSE Closed]
          /\ naming' = Freed(l.for) /\ UNCHANGED <<catalog, editor>>
  /\ past' = [past EXCEPT !.newest[l.list] = IF @ < l.number THEN l.number ELSE @,
                          !.missed = @ \/ l.number < past.newest[l.list]]
  /\ UNCHANGED <<server, view, ticked, json, asked, jobs, events, failures>>

LoadFails(l) ==
  /\ failures < MaxFailures /\ failures' = failures + 1
  /\ loads' = loads \ {l} /\ past' = [past EXCEPT !.missed = TRUE]
  /\ cards' = [g \in GroupIds |-> Release(cards[g], l.for)] /\ naming' = Freed(l.for)
  /\ UNCHANGED <<server, catalog, view, ticked, editor, json, section, asked, jobs, events>>

-----------------------------------------------------------------------------
(* What the admin does in the catalog *)

Acts == /\ asked = None /\ events < MaxEvents /\ events' = events + 1
        /\ UNCHANGED <<server, catalog, section, loads, failures>>
AtCatalog == Acts /\ UNCHANGED <<cards, naming>>
Quiet == UNCHANGED <<asked, jobs>>

Job(kind, what, value) ==
  [kind |-> kind, what |-> what, value |-> value, id |-> events + 1, stage |-> "sent", left |-> {}, failed |-> FALSE]
Send(j) == jobs' = jobs \cup {j}

Found(q) == IF q = None THEN DOMAIN catalog ELSE Named(catalog, q)

\* The row that is being edited stays: withPinnedEdit.
Shown(q) == Found(q) \cup ({editor.team.id} \cap DOMAIN catalog)

Ref(i) == [id |-> i, born |-> catalog[i].born]
TickedIds == {r.id : r \in ticked}
Chosen == {r \in ticked : r.id \in Shown(view.query)}

Marks == past' = [past EXCEPT !.early = @ \/ loads # {} \/ jobs # {}]

\* Which panels and cards are open is left out, but a form that is closed while its
\* request is out can be opened and sent again.
CloseCreate == /\ view.creating /\ AtCatalog /\ view' = [view EXCEPT !.creating = FALSE]
               /\ UNCHANGED <<ticked, editor, json, past>> /\ Quiet

FilterShown == Cardinality(DOMAIN catalog) > FILTER_THRESHOLD
Filter(q) == /\ FilterShown /\ AtCatalog /\ view' = [view EXCEPT !.query = q]
             /\ UNCHANGED <<ticked, editor, json, past>> /\ Quiet

Tick(i) ==
  /\ AtCatalog /\ Marks
  /\ ticked' = IF i \in TickedIds THEN {r \in ticked : r.id # i} ELSE ticked \cup {Ref(i)}
  /\ UNCHANGED <<view, editor, json>> /\ Quiet

TickAll ==
  /\ Shown(view.query) # {} /\ AtCatalog /\ Marks
  /\ ticked' = LET all == Shown(view.query) IN
               IF all \subseteq TickedIds THEN {r \in ticked : r.id \notin all}
               ELSE ticked \cup {Ref(i) : i \in all \ TickedIds}
  /\ UNCHANGED <<view, editor, json>> /\ Quiet

ToggleEdit(i) == /\ AtCatalog /\ Marks
                 /\ editor' = IF editor.team.id = i THEN NoEditor ELSE [team |-> Ref(i), busy |-> None]
                 /\ UNCHANGED <<view, ticked, json>> /\ Quiet

Save(i) ==
  /\ editor.team.id = i /\ editor.busy = None /\ AtCatalog
  /\ \E n \in Names : LET j == Job("save", i, n) IN Send(j) /\ editor' = [editor EXCEPT !.busy = j.id]
  /\ UNCHANGED <<view, ticked, json, asked, past>>

Create(n) == /\ ~view.creating /\ AtCatalog /\ Send(Job("create", n, None))
             /\ view' = [view EXCEPT !.creating = TRUE] /\ UNCHANGED <<ticked, editor, json, asked, past>>

Question(j) == Acts /\ asked' = j /\ UNCHANGED <<view, ticked, editor, json, jobs, past>> /\ UNCHANGED <<cards, naming>>

DeleteOne(i) == editor.team.id = i /\ Question(Job("delete", i, None))
DeleteSelected == Chosen # {} /\ Question([Job("bulk", Chosen, None) EXCEPT !.left = {r.id : r \in Chosen}])
ClearTicks == /\ Chosen # {} /\ AtCatalog /\ ticked' = {} /\ UNCHANGED <<view, editor, json, past>> /\ Quiet

\* The text is typed, read from a file or exported.
FillText == /\ AtCatalog /\ \E ns \in SUBSET Names \ {{}} : json' = [json EXCEPT !.text = ns]
            /\ UNCHANGED <<view, ticked, editor, past>> /\ Quiet

Export == /\ ~json.busy /\ AtCatalog /\ Send(Job("export", None, None)) /\ json' = [json EXCEPT !.busy = TRUE]
          /\ UNCHANGED <<view, ticked, editor, asked, past>>

Import(replace) ==
  /\ ~json.busy /\ json.text # None
  /\ LET j == Job("import", json.text, replace) IN
     IF replace THEN Question(j)
     ELSE /\ AtCatalog /\ Send(j) /\ json' = [json EXCEPT !.busy = TRUE]
          /\ UNCHANGED <<view, ticked, editor, asked, past>>

-----------------------------------------------------------------------------
(* ... and in the section of the groups *)

AtGroups == Acts /\ UNCHANGED <<view, ticked, editor, json, past>>
Listed == DOMAIN section.groups
Addable(g) == DOMAIN section.catalog \ section.groups[g].members

ChooseTeam(g) == /\ AtGroups /\ \E i \in Addable(g) : cards' = [cards EXCEPT ![g].addId = i]
                 /\ UNCHANGED naming /\ Quiet

Holds(g, j) == cards' = [cards EXCEPT ![g].busy = j.id]
Run(g, j) == /\ cards[g].busy = None /\ AtGroups /\ Send(j) /\ Holds(g, j)
             /\ UNCHANGED <<naming, asked>>

Publish(g) == Run(g, Job("publish", g, ~section.groups[g].active))
AddMember(g) == cards[g].addId # None /\ Run(g, Job("add", g, cards[g].addId))
RemoveMember(g) == \E i \in section.groups[g].members : Run(g, Job("remove", g, i))
DeleteGroup(g) == cards[g].busy = None /\ Question(Job("disband", g, None))
CreateGroup == /\ naming = None /\ AtGroups
               /\ LET j == Job("group", None, None) IN Send(j) /\ naming' = j.id
               /\ UNCHANGED <<cards, asked>>

Answer(yes) ==
  /\ asked # None /\ asked' = None
  /\ IF yes THEN Send(asked) ELSE UNCHANGED jobs
  /\ json' = IF yes /\ asked.kind = "import" THEN [json EXCEPT !.busy = TRUE] ELSE json
  /\ IF yes /\ asked.kind = "disband" /\ asked.what \in Listed THEN Holds(asked.what, asked) ELSE UNCHANGED cards
  /\ UNCHANGED <<server, catalog, view, ticked, editor, section, naming, loads, events, failures, past>>

-----------------------------------------------------------------------------
(* What the server does *)

\* The number of a new team follows those there are, or those there have been.
NextIds == {MaxOf(DOMAIN teams \cup {0}) + 1, used + 1}

With(f, x, v) == [y \in DOMAIN f \cup {x} |-> IF y = x THEN v ELSE f[y]]
Keep(f, S) == [y \in DOMAIN f \cap S |-> f[y]]
Without(ids) == [g \in DOMAIN groups |-> [groups[g] EXCEPT !.members = @ \ ids]]

\* upsert_global: a name that is there is written again, be there one such team or more.
Upsert(n, j) ==
  IF Named(teams, n) # {}
  THEN (\E i \in Named(teams, n) : teams' = [teams EXCEPT ![i].stamp = j.id]) /\ UNCHANGED used
  ELSE \E i \in NextIds : /\ teams' = With(teams, i, [name |-> n, born |-> j.id, stamp |-> j.id])
                          /\ used' = MaxOf({used, i})

\* import_app_teams, in one transaction: with replace, the teams there were go first.
Merge(j, first) ==
  LET kept  == IF j.value THEN Keep(teams, {}) ELSE [i \in DOMAIN teams |->
                 IF teams[i].name \in j.what THEN [teams[i] EXCEPT !.stamp = j.id] ELSE teams[i]]
      fresh == {n \in j.what : Named(kept, n) = {}}
      Id(n) == first + Cardinality({m \in fresh : m < n}) IN
  [i \in DOMAIN kept \cup {Id(n) : n \in fresh} |->
     IF i \in DOMAIN kept THEN kept[i]
     ELSE [name |-> CHOOSE n \in fresh : Id(n) = i, born |-> j.id, stamp |-> j.id]]

Goes(j, stage) == jobs' = (jobs \ {j}) \cup {[j EXCEPT !.stage = stage]}
Alone == UNCHANGED <<page, asked, loads, events, failures>>
Moves == past' = [past EXCEPT !.moved = past.begun]

ServeTeam(j) ==
  /\ j.stage = "sent" /\ Goes(j, "done") /\ Moves /\ Alone
  /\ \/ j.kind = "create" /\ Upsert(j.what, j) /\ UNCHANGED groups
     \/ /\ j.kind = "save" /\ j.what \in DOMAIN teams /\ UNCHANGED <<groups, used>>
        /\ teams' = [teams EXCEPT ![j.what].name = j.value, ![j.what].stamp = j.id]
     \/ /\ j.kind = "delete" /\ j.what \in DOMAIN teams
        /\ teams' = Keep(teams, DOMAIN teams \ {j.what}) /\ groups' = Without({j.what}) /\ UNCHANGED used

\* Each deletion of a batch is a request of its own, in no order.
ServeOne(j, i) ==
  /\ j.kind = "bulk" /\ j.stage = "sent" /\ i \in j.left
  /\ jobs' = (jobs \ {j}) \cup {[j EXCEPT !.left = @ \ {i}, !.failed = @ \/ i \notin DOMAIN teams]}
  /\ teams' = Keep(teams, DOMAIN teams \ {i}) /\ groups' = Without({i}) /\ UNCHANGED used /\ Moves /\ Alone

ServeImport(j) ==
  /\ j.kind = "import" /\ j.stage = "sent" /\ Goes(j, "done") /\ Alone
  /\ \E first \in {MaxOf((IF j.value THEN {} ELSE DOMAIN teams) \cup {0}) + 1, used + 1} : teams' = Merge(j, first)
  /\ used' = MaxOf(DOMAIN teams' \cup {used})
  /\ groups' = IF j.value THEN Without(DOMAIN teams) ELSE groups
  /\ past' = [past EXCEPT !.moved = past.begun, !.replaced = @ \/ j.value]

ServeExport(j) == /\ j.kind = "export" /\ j.stage = "sent"
                  /\ jobs' = (jobs \ {j}) \cup {[j EXCEPT !.stage = "done", !.what = {teams[i].name : i \in DOMAIN teams}]}
                  /\ UNCHANGED <<server, past>> /\ Alone

ServeGroup(j) ==
  /\ j.stage = "sent" /\ Goes(j, "done") /\ UNCHANGED <<teams, used, past>> /\ Alone
  /\ \/ j.kind = "group" /\ \E g \in GroupIds \ DOMAIN groups : groups' = With(groups, g, [active |-> FALSE, members |-> {}])
     \/ /\ j.kind \in {"publish", "add", "remove", "disband"} /\ j.what \in DOMAIN groups
        /\ j.kind = "add" => j.value \in DOMAIN teams
        /\ groups' = CASE j.kind = "publish" -> [groups EXCEPT ![j.what].active = j.value]
                       [] j.kind = "add"     -> [groups EXCEPT ![j.what].members = @ \cup {j.value}]
                       [] j.kind = "remove"  -> [groups EXCEPT ![j.what].members = @ \ {j.value}]
                       [] j.kind = "disband" -> Keep(groups, DOMAIN groups \ {j.what})

-----------------------------------------------------------------------------
(* What the page does with the answers *)

OfCard == {"publish", "add", "remove", "disband"}
EditorAfter(j) == IF editor.busy = j.id THEN [editor EXCEPT !.busy = None] ELSE editor
Still == UNCHANGED <<server, catalog, section, asked, events, failures>>

CreateDone(j) == /\ j.kind = "create" /\ j.stage = "done" /\ jobs' = jobs \ {j} /\ Reload(None)
                 /\ view' = [view EXCEPT !.creating = FALSE]
                 /\ UNCHANGED <<json, cards, naming>> /\ Still
DeleteDone(j) == /\ j.kind = "delete" /\ j.stage = "done" /\ jobs' = jobs \ {j} /\ Reload(None)
                 /\ UNCHANGED <<view, json, cards, naming>> /\ Still

BulkDone(j) == /\ j.kind = "bulk" /\ j.left = {} /\ jobs' = jobs \ {j} /\ Reload(None)
               /\ UNCHANGED <<view, json, cards, naming>> /\ Still

SaveDone(j) == /\ j.kind = "save" /\ j.stage = "done" /\ jobs' = jobs \ {j} /\ Load("catalog", None)
               /\ editor' = EditorAfter(j) /\ UNCHANGED <<view, ticked, json, cards, naming>> /\ Still
ImportDone(j) == /\ j.kind = "import" /\ j.stage = "done" /\ jobs' = jobs \ {j} /\ Load("catalog", None)
                 /\ json' = [json EXCEPT !.busy = FALSE] /\ UNCHANGED <<view, ticked, editor, cards, naming>> /\ Still
ExportDone(j) == /\ j.kind = "export" /\ j.stage = "done" /\ jobs' = jobs \ {j}
                 /\ json' = [json EXCEPT !.busy = FALSE, !.text = IF j.what = {} THEN None ELSE j.what]
                 /\ UNCHANGED <<view, ticked, editor, cards, naming, loads, past>> /\ Still
GroupDone(j) ==
  /\ j.kind \in OfCard \cup {"group"} /\ j.stage = "done" /\ jobs' = jobs \ {j}
  /\ Load("section", j.id)
  /\ cards' = IF j.kind = "add" /\ cards[j.what].busy = j.id THEN [cards EXCEPT ![j.what].addId = None] ELSE cards
  /\ UNCHANGED <<view, ticked, editor, json, naming>> /\ Still

Done(j) == \/ CreateDone(j) \/ DeleteDone(j) \/ BulkDone(j) \/ SaveDone(j)
           \/ ImportDone(j) \/ ExportDone(j) \/ GroupDone(j)

Failed(j) ==
  /\ jobs' = jobs \ {j}
  /\ view' = [view EXCEPT !.creating = @ /\ j.kind # "create"]
  /\ editor' = EditorAfter(j)
  /\ json' = [json EXCEPT !.busy = @ /\ j.kind \notin {"import", "export"}]
  /\ cards' = [g \in GroupIds |-> Release(cards[g], j.id)] /\ naming' = Freed(j.id)
  /\ past' = [past EXCEPT !.missed = @ \/ j.stage = "done"]
  /\ UNCHANGED <<ticked, loads>> /\ UNCHANGED <<server, catalog, section, asked, events>>

Refuse(j) ==
  /\ j.stage = "sent" /\ Failed(j) /\ UNCHANGED failures
  /\ \/ j.kind \in {"save", "delete"} /\ j.what \notin DOMAIN teams
     \/ j.kind = "group" /\ GroupIds = DOMAIN groups
     \/ j.kind \in OfCard /\ (j.what \in DOMAIN groups => j.kind = "add" /\ j.value \notin DOMAIN teams)

JobFails(j) == /\ j.kind # "bulk" /\ failures < MaxFailures /\ failures' = failures + 1 /\ Failed(j)
OneFails(j, i) ==
  /\ j.kind = "bulk" /\ i \in j.left /\ failures < MaxFailures /\ failures' = failures + 1
  /\ jobs' = (jobs \ {j}) \cup {[j EXCEPT !.left = @ \ {i}, !.failed = TRUE]}
  /\ UNCHANGED <<server, page, asked, loads, events, past>>

-----------------------------------------------------------------------------
\* The page, once it has first read its lists.
Init ==
  /\ teams = [i \in Catalog |-> [name |-> i, born |-> 0, stamp |-> 0]]
  /\ groups = [g \in Published |-> [active |-> TRUE, members |-> Catalog]]
  /\ used = MaxOf(Catalog \cup {0})
  /\ catalog = teams /\ section = [groups |-> groups, catalog |-> teams]
  /\ view = [query |-> None, creating |-> FALSE]
  /\ ticked = {} /\ editor = NoEditor /\ json = [text |-> None, busy |-> FALSE]
  /\ cards = [g \in GroupIds |-> Closed] /\ naming = None
  /\ asked = None /\ jobs = {} /\ loads = {}
  /\ events = 0 /\ failures = 0
  /\ past = [begun |-> 1, newest |-> [l \in {"catalog", "section"} |-> 1], missed |-> FALSE,
             replaced |-> FALSE, early |-> FALSE, moved |-> 0]

Network ==
  \/ \E l \in loads : AnswerGroups(l) \/ AnswerCatalog(l) \/ Land(l) \/ LoadFails(l)
  \/ \E j \in jobs : \/ ServeTeam(j) \/ ServeImport(j) \/ ServeExport(j) \/ ServeGroup(j)
                     \/ Done(j) \/ Refuse(j) \/ JobFails(j)
                     \/ \E i \in j.left : ServeOne(j, i) \/ OneFails(j, i)

InCatalog ==
  \/ \E i \in Shown(view.query) : Tick(i) \/ ToggleEdit(i) \/ Save(i) \/ DeleteOne(i)
  \/ \E q \in Names \cup {None} : Filter(q)
  \/ \E n \in Names : Create(n)
  \/ TickAll \/ ClearTicks \/ DeleteSelected \/ CloseCreate
  \/ FillText \/ Export \/ \E replace \in BOOLEAN : Import(replace)

InGroups ==
  \/ \E g \in Listed : \/ ChooseTeam(g) \/ Publish(g) \/ AddMember(g)
                       \/ RemoveMember(g) \/ DeleteGroup(g)
  \/ CreateGroup

Next == Network \/ InCatalog \/ InGroups \/ \E yes \in BOOLEAN : Answer(yes)
Spec == Init /\ [][Next]_vars

-----------------------------------------------------------------------------
(* Properties *)

\* What is ticked, and what is being edited, is the team it was ticked or opened as,
\* though numbers are used again.  Named exceptions: an import that replaces the catalog,
\* for nothing is let go of after it; what is ticked or opened while something is under
\* way, or on a list that could not be read again; and what is ticked still while teams
\* are deleted, until the page has been told and lets go of it.
Deleting == \E j \in jobs : j.kind = "bulk" \/ (j.kind = "delete" /\ j.stage = "done")
TicksStayOnTheirTeam ==
  ~past.replaced /\ ~past.early /\ ~past.missed /\ ~Deleting =>
    \A r \in ticked \cup {editor.team} : r.id \in DOMAIN catalog => catalog[r.id].born = r.born

\* The row of an editor that is open, and what is typed in it, stays whatever is typed
\* into the filter.
Edited == editor.team.id \in Shown(view.query)
FilterKeepsTheEditor == Edited /\ view'.query # view.query => Edited'

\* With nothing under way the catalog is the server's, and so are the groups unless the
\* catalog has changed since the section began to be read.
CatalogAgrees ==
  jobs = {} /\ loads = {} /\ ~past.missed =>
    /\ catalog = teams
    /\ past.moved < past.newest["section"] => section = [groups |-> groups, catalog |-> teams]

=============================================================================
