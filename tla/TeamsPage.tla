------------------------------- MODULE TeamsPage -------------------------------
(***************************************************************************)
(* The groups of teams of an account, and the teams it made itself         *)
(* (frontend pages/TeamsPage.tsx).  A group's card holds its controls from *)
(* a change until the lists that follow it have been read; the forms and   *)
(* the editors hold nothing beyond their own request.  All of them read    *)
(* the same two lists, one behind the other, in no order.                  *)
(***************************************************************************)
EXTENDS FiniteSets, Naturals

CONSTANTS
  Globals,      \* teams of the catalog
  Customs,      \* teams the account can make
  Shared,       \* groups an admin has published
  Privates,     \* groups the account can make
  Intrinsic,    \* members an admin gave every shared group
  Made,         \* the teams of the account at first
  Mine,         \* its groups at first, of those teams
  FILTER_THRESHOLD,
  MaxEvents,    \* bound on what the operator does
  MaxFailures,  \* bound on requests that fail
  None

TeamsAssumption ==
  /\ Intrinsic \subseteq Globals /\ Made \subseteq Customs /\ Mine \subseteq Privates
  /\ Globals \cap Customs = {} /\ Shared \cap Privates = {}
  /\ None \notin Globals \cup Customs \cup Shared \cup Privates \cup Nat
  /\ FILTER_THRESHOLD \in Nat /\ MaxEvents \in Nat /\ MaxFailures \in Nat

VARIABLES
  teams,   \* server: the teams there are, and of each the change that wrote it last
  members, \* server: the groups there are, and of each what the account added to it
  named,   \* server: of each group, the change that named it last
  groups,  \* the groups as listed, or None
  universe,
  cards,   \* of each group, its card
  forms,   \* the forms with a request out
  editor,  \* the team being edited, and the request of its editor
  asked,   \* the question on the screen
  jobs,    \* changes under way
  loads,   \* lists being read
  events, failures,
  past     \* history, see below

server == <<teams, members, named>>
vars == <<server, groups, universe, cards, forms, editor, asked, jobs, loads, events, failures, past>>

\* past.begun: how many reads have begun.  past.newest: the latest to have arrived.
\* past.overtaken: one arrived after a later one.  past.missed: lists that could not be
\* read, or a change whose answer was lost.  past.cut: a card was closed in use, with a
\* request out or its deletion asked about, by a list that came without its group.

Closed == [open |-> FALSE, renaming |-> FALSE, adding |-> FALSE, chosen |-> {}, query |-> None, busy |-> None]
NoEditor == [team |-> None, busy |-> None]

Teams == Globals \cup DOMAIN teams
Rows == [g \in DOMAIN members |-> [name |-> named[g], added |-> members[g]]]

\* The members of a group as listed, and those that can be added to it.
Listed(g) == groups[g].added \cup (IF g \in Shared THEN Intrinsic ELSE {})
Addable(g) == universe.ids \ Listed(g)

-----------------------------------------------------------------------------
(* Reading the lists *)

\* Each follows a change, which may wait for it.
Read(number, kind, for) == [number |-> number, kind |-> kind, for |-> for, groups |-> None, all |-> None]

Load(j) == /\ loads' = loads \cup {Read(past.begun + 1, j.kind, j.id)}
           /\ past' = [past EXCEPT !.begun = @ + 1]

AnswerGroups(l) ==
  /\ l.groups = None /\ loads' = (loads \ {l}) \cup {[l EXCEPT !.groups = Rows]}
  /\ UNCHANGED <<server, groups, universe, cards, forms, editor, asked, jobs, events, failures, past>>

AnswerAll(l) ==
  /\ l.all = None /\ loads' = (loads \ {l}) \cup {[l EXCEPT !.all = [ids |-> Teams, made |-> teams]]}
  /\ UNCHANGED <<server, groups, universe, cards, forms, editor, asked, jobs, events, failures, past>>

Release(card, for) == IF card.busy = for THEN [card EXCEPT !.busy = None] ELSE card

Land(l) ==
  /\ l.groups # None /\ l.all # None /\ loads' = loads \ {l}
  /\ groups' = l.groups /\ universe' = l.all
  /\ cards' = [g \in DOMAIN cards |-> IF g \in DOMAIN l.groups THEN Release(cards[g], l.for) ELSE Closed]
  /\ past' = [past EXCEPT !.newest = IF @ < l.number THEN l.number ELSE @,
                          !.overtaken = @ \/ l.number < past.newest,
                          !.cut = @ \/ \E g \in DOMAIN cards \ DOMAIN l.groups :
                                         cards[g].busy \notin {None, l.for} \/ (asked # None /\ asked.what = g)]
  /\ UNCHANGED <<server, forms, editor, asked, jobs, events, failures>>

LoadFails(l) ==
  /\ failures < MaxFailures /\ failures' = failures + 1
  /\ loads' = loads \ {l} /\ past' = [past EXCEPT !.missed = TRUE]
  /\ cards' = [g \in DOMAIN cards |-> Release(cards[g], l.for)]
  /\ UNCHANGED <<server, groups, universe, forms, editor, asked, jobs, events>>

-----------------------------------------------------------------------------
(* What the operator does *)

Acts == asked = None /\ events < MaxEvents /\ events' = events + 1 /\ UNCHANGED <<server, groups, universe, loads, failures, past>>

Job(kind, what, value) == [kind |-> kind, what |-> what, value |-> value, id |-> events, stage |-> "sent"]
Send(j) == jobs' = jobs \cup {j}

Sets(g, card) == Acts /\ cards' = [cards EXCEPT ![g] = card] /\ UNCHANGED <<forms, editor, asked, jobs>>

\* A card that is closed forgets what was chosen in it, not that it was being added to.
Toggle(g) == LET c == cards[g] IN
  Sets(g, IF c.open THEN [c EXCEPT !.open = FALSE, !.chosen = {}, !.query = None] ELSE [c EXCEPT !.open = TRUE])

StartRename(g) == cards[g].open /\ g \in Privates /\ ~cards[g].renaming /\ Sets(g, [cards[g] EXCEPT !.renaming = TRUE])

ToggleAdding(g) == /\ cards[g].open
                   /\ Sets(g, [cards[g] EXCEPT !.adding = ~@, !.chosen = {}, !.query = None])

\* A query stands for the one team it finds.
Found(g) == {t \in Addable(g) : cards[g].query \in {None, t}}
Adding(g) == cards[g].open /\ cards[g].adding /\ Addable(g) # {}

Choose(g) ==
  /\ Adding(g)
  /\ \/ \E t \in Found(g) : Sets(g, [cards[g] EXCEPT !.chosen = IF t \in @ THEN @ \ {t} ELSE @ \cup {t}])
     \/ /\ Found(g) # {}
        /\ Sets(g, [cards[g] EXCEPT !.chosen = IF Found(g) \subseteq @ THEN @ \ Found(g) ELSE @ \cup Found(g)])

Filter(g) == /\ Adding(g) /\ Cardinality(Addable(g)) > FILTER_THRESHOLD
             /\ \E q \in Addable(g) \cup {None} : Sets(g, [cards[g] EXCEPT !.query = q])

\* The changes of a card, one at a time: run.
Holds(g, j) == cards' = [cards EXCEPT ![g].busy = j.id]
Run(g, j) == cards[g].busy = None /\ Acts /\ Send(j) /\ Holds(g, j) /\ UNCHANGED <<forms, editor, asked>>

SaveName(g) == cards[g].open /\ cards[g].renaming /\ Run(g, Job("rename", g, None))
AddTeams(g) == /\ Adding(g) /\ cards[g].chosen \cap Found(g) # {}
               /\ Run(g, Job("add", g, cards[g].chosen \cap Found(g)))
RemoveTeam(g) == cards[g].open /\ \E t \in groups[g].added : Run(g, Job("remove", g, {t}))

DeleteGroup(g) == /\ cards[g].open /\ g \in Privates /\ cards[g].busy = None
                  /\ Acts /\ asked' = Job("delete", g, None) /\ UNCHANGED <<cards, forms, editor, jobs>>

\* The forms, each while it has no request out.
Submit(kind) == /\ kind \notin forms /\ Acts /\ Send(Job(kind, None, None)) /\ forms' = forms \cup {kind}
                /\ UNCHANGED <<cards, editor, asked>>

ToggleEdit(t) == /\ Acts /\ editor' = IF editor.team = t THEN NoEditor ELSE [team |-> t, busy |-> None]
                 /\ UNCHANGED <<cards, forms, asked, jobs>>

SaveTeam(t) ==
  /\ editor = [team |-> t, busy |-> None] /\ Acts
  /\ LET j == Job("save", t, None) IN Send(j) /\ editor' = [editor EXCEPT !.busy = j.id]
  /\ UNCHANGED <<cards, forms, asked>>

DeleteTeam(t) == /\ editor.team = t /\ Acts /\ asked' = Job("drop", t, None)
                 /\ UNCHANGED <<cards, forms, editor, jobs>>

\* A deletion that is confirmed is sent, whatever its card does meanwhile.
Answer(yes) ==
  /\ asked # None /\ asked' = None
  /\ IF yes THEN Send(asked) ELSE UNCHANGED jobs
  /\ IF yes /\ asked.kind = "delete" /\ asked.what \in DOMAIN groups THEN Holds(asked.what, asked) ELSE UNCHANGED cards
  /\ UNCHANGED <<server, groups, universe, forms, editor, loads, events, failures, past>>

-----------------------------------------------------------------------------
(* What the server does.  A batch of additions is all or nothing; a team that is
   deleted leaves every group. *)

Unmade(all, there) == {x \in all : x \notin there}

Accepted(j) ==
  CASE j.kind = "group"                -> Unmade(Privates, DOMAIN members) # {}
    [] j.kind = "team"                 -> Unmade(Customs, DOMAIN teams) # {}
    [] j.kind = "add"                  -> j.what \in DOMAIN members /\ j.value \subseteq Teams
    [] j.kind \in {"save", "drop"}     -> j.what \in DOMAIN teams
    [] OTHER                           -> j.what \in DOMAIN members

With(f, x, v) == [y \in DOMAIN f \cup {x} |-> IF y = x THEN v ELSE f[y]]
Without(f, x) == [y \in DOMAIN f \ {x} |-> f[y]]

Effect(j) ==
  \/ j.kind = "group" /\ (\E g \in Unmade(Privates, DOMAIN members) :
       members' = With(members, g, {}) /\ named' = [named EXCEPT ![g] = j.id]) /\ UNCHANGED teams
  \/ j.kind = "team" /\ (\E t \in Unmade(Customs, DOMAIN teams) : teams' = With(teams, t, j.id)) /\ UNCHANGED <<members, named>>
  \/ j.kind = "rename" /\ named' = [named EXCEPT ![j.what] = j.id] /\ UNCHANGED <<teams, members>>
  \/ j.kind = "add" /\ members' = [members EXCEPT ![j.what] = @ \cup j.value] /\ UNCHANGED <<teams, named>>
  \/ j.kind = "remove" /\ members' = [members EXCEPT ![j.what] = @ \ j.value] /\ UNCHANGED <<teams, named>>
  \/ j.kind = "delete" /\ members' = Without(members, j.what) /\ UNCHANGED <<teams, named>>
  \/ j.kind = "save" /\ teams' = [teams EXCEPT ![j.what] = j.id] /\ UNCHANGED <<members, named>>
  \/ /\ j.kind = "drop" /\ teams' = Without(teams, j.what)
     /\ members' = [g \in DOMAIN members |-> members[g] \ {j.what}] /\ UNCHANGED named

Serve(j) ==
  /\ j.stage = "sent" /\ Accepted(j) /\ Effect(j)
  /\ jobs' = (jobs \ {j}) \cup {[j EXCEPT !.stage = "done"]}
  /\ UNCHANGED <<groups, universe, cards, forms, editor, asked, loads, events, failures, past>>

-----------------------------------------------------------------------------
(* What the page does with the answers *)

OfCard == {"rename", "add", "remove", "delete"}
OfForm == {"group", "team"}

Onward(j) ==
  LET c == cards[j.what] IN
  CASE j.kind = "rename" -> [c EXCEPT !.renaming = FALSE]
    [] j.kind = "add"    -> [c EXCEPT !.adding = FALSE, !.chosen = {}, !.query = None]
    [] OTHER             -> c

EditorAfter(j) == IF editor.busy = j.id THEN [editor EXCEPT !.busy = None] ELSE editor

\* Deleting a team closes whichever editor is open.
Done(j) ==
  /\ j.stage = "done" /\ jobs' = jobs \ {j}
  /\ Load(j)
  /\ cards' = IF j.kind \in OfCard /\ cards[j.what].busy = j.id THEN [cards EXCEPT ![j.what] = Onward(j)] ELSE cards
  /\ forms' = forms \ {j.kind}
  /\ editor' = IF j.kind = "drop" THEN NoEditor ELSE EditorAfter(j)
  /\ UNCHANGED <<server, groups, universe, asked, events, failures>>

\* A toast, or the form's message; the lists are not read again.
Failed(j) ==
  /\ jobs' = jobs \ {j}
  /\ cards' = [g \in DOMAIN cards |-> Release(cards[g], j.id)]
  /\ forms' = forms \ {j.kind} /\ editor' = EditorAfter(j)
  /\ past' = [past EXCEPT !.missed = @ \/ j.stage = "done"]
  /\ UNCHANGED <<server, groups, universe, asked, loads, events>>

Refuse(j) == j.stage = "sent" /\ ~Accepted(j) /\ Failed(j) /\ UNCHANGED failures
JobFails(j) == failures < MaxFailures /\ failures' = failures + 1 /\ Failed(j)

-----------------------------------------------------------------------------
Init ==
  /\ teams = [t \in Made |-> 0]
  /\ members = [g \in Shared \cup Mine |-> IF g \in Mine THEN Made ELSE {}]
  /\ named = [g \in Shared \cup Privates |-> 0]
  /\ groups = None /\ universe = None
  /\ cards = [g \in Shared \cup Privates |-> Closed]
  /\ forms = {} /\ editor = NoEditor /\ asked = None /\ jobs = {}
  /\ loads = {Read(1, None, None)}
  /\ events = 0 /\ failures = 0
  /\ past = [begun |-> 1, newest |-> 0, overtaken |-> FALSE, missed |-> FALSE, cut |-> FALSE]

Network ==
  \/ \E l \in loads : AnswerGroups(l) \/ AnswerAll(l) \/ Land(l) \/ LoadFails(l)
  \/ \E j \in jobs : Serve(j) \/ Done(j) \/ Refuse(j) \/ JobFails(j)

OnCards == groups # None /\ \E g \in DOMAIN groups :
  \/ Toggle(g) \/ StartRename(g) \/ ToggleAdding(g) \/ Choose(g) \/ Filter(g)
  \/ SaveName(g) \/ AddTeams(g) \/ RemoveTeam(g) \/ DeleteGroup(g)

OnCustoms == universe # None /\ \E t \in DOMAIN universe.made : ToggleEdit(t) \/ SaveTeam(t) \/ DeleteTeam(t)

Operator ==
  \/ OnCards \/ OnCustoms
  \/ \E kind \in OfForm : Submit(kind)
  \/ \E yes \in BOOLEAN : Answer(yes)

Next == Network \/ Operator
Spec == Init /\ [][Next]_vars

-----------------------------------------------------------------------------
(* Properties *)

Good == ~past.overtaken /\ ~past.missed

\* A card whose controls can be used shows its group as it is, even while other cards'
\* changes are being made: its own next change is not made against stale data.  Named
\* exceptions: a custom team that has just been deleted, a read that was overtaken by a
\* later one, an answer that was lost, and a card that was closed in use.
Dropping == (\E j \in jobs : j.kind = "drop") \/ \E l \in loads : l.kind = "drop"
FreeCardsAreFresh ==
  Good /\ ~past.cut /\ ~Dropping /\ groups # None =>
    \A g \in DOMAIN groups : cards[g].busy = None /\ g \in DOMAIN members => groups[g] = Rows[g]

\* With nothing under way the page shows the groups and the teams there are.
GroupsAgree ==
  jobs = {} /\ loads = {} /\ Good => groups = Rows /\ universe = [ids |-> Teams, made |-> teams]

=============================================================================
