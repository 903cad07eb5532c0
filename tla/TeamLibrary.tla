----------------------------- MODULE TeamLibrary -----------------------------
(***************************************************************************)
(* The hosted logos and the teams that wear them (frontend                 *)
(* components/icons, components/teams, app/icons_service.py).  A team      *)
(* refers to an icon by its address: deleting the icon clears the teams    *)
(* that wear it, a batch turns logos found elsewhere into icons, and an    *)
(* editor saves the logo it was opened with, or another picked since.      *)
(***************************************************************************)
EXTENDS FiniteSets, Naturals

CONSTANTS
  Teams,
  Icons,        \* icons there can be, numbered as they are made
  External,     \* addresses elsewhere
  Worn,         \* of each team, its logo at first
  Held,         \* the icons there are at first
  Quota,        \* ICONS_MAX_PER_USER
  MaxEvents,    \* bound on what the operator does
  MaxFailures,  \* bound on requests that fail
  None          \* no logo, and nothing

LibraryAssumption ==
  /\ Icons \subseteq Nat \ {0} /\ Held \subseteq Icons /\ Icons \cap External = {}
  /\ None \notin Icons \cup External \cup Teams
  /\ Worn \in [Teams -> Held \cup External \cup {None}]
  /\ Quota \in Nat /\ MaxEvents \in Nat /\ MaxFailures \in Nat

VARIABLES
  icons,    \* server: of each icon, how often it has been renamed
  logos,    \* server: icon_url of each team
  shown,    \* the logos of the list of teams, or None
  library,  \* the icons of the section, or None
  editor,   \* the team being edited and its draft's logo, or None
  picker,   \* the icons offered in the editor, or None
  section,  \* pendingFile, renamingId, busy
  batch,    \* the dialog of the batch: open, selected, results, busy
  asked,    \* the question on the screen
  jobs,     \* requests under way
  loads,    \* lists being read
  events, failures,
  past      \* history, see below

page == <<shown, library, editor, picker, section, batch>>
vars == <<icons, logos, page, asked, jobs, loads, events, failures, past>>

\* past.newest: of each list, the latest read to have arrived.  past.missed: one arrived
\* after a later one, could not be read, or a change was made whose answer was lost.
\* past.begun: how many reads have begun.  past.used: icons that are or were.
\* past.revived: icons that a draft named and that were gone when it was saved.

Hosted(logo) == logo \in Icons
Exists == DOMAIN icons

-----------------------------------------------------------------------------
(* Reading the lists.  The picker's is forgotten when the picker closes. *)

Read(for, n) == [for |-> for, answer |-> None, number |-> n, stage |-> "asked"]

\* refresh and the page's load, one behind the other.
Begin(whats) ==
  /\ loads' = loads \cup {Read(w, past.begun + 1) : w \in whats}
  /\ past' = [past EXCEPT !.begun = IF whats = {} THEN @ ELSE @ + 1]

Answer(l) ==
  /\ l.stage = "asked"
  /\ loads' = (loads \ {l}) \cup
              {[l EXCEPT !.stage = "answered", !.answer = IF l.for = "teams" THEN logos ELSE icons]}
  /\ UNCHANGED <<icons, logos, page, asked, jobs, events, failures, past>>

Eligible(list) == {t \in Teams : list # None /\ list[t] \in External}

\* The checklist starts from every team that can be converted, and starts again from
\* them when the list of teams is read again, until there are results.
Relist(list) == IF batch.open /\ batch.results = None THEN [batch EXCEPT !.selected = Eligible(list)] ELSE batch

Arrives(l) ==
  CASE l.for = "teams"   -> shown' = l.answer /\ batch' = Relist(l.answer) /\ UNCHANGED <<library, picker>>
    [] l.for = "library" -> library' = l.answer /\ UNCHANGED <<shown, batch, picker>>
    [] l.for = "picker"  -> picker' = l.answer /\ UNCHANGED <<shown, batch, library>>

Seen(l) == past' = [past EXCEPT !.newest[l.for] = IF @ < l.number THEN l.number ELSE @,
                                !.missed = @ \/ l.number < past.newest[l.for]]

Land(l) ==
  /\ l.stage = "answered" /\ loads' = loads \ {l}
  /\ Arrives(l) /\ Seen(l)
  /\ UNCHANGED <<icons, logos, editor, section, asked, jobs, events, failures>>

LoadFails(l) ==
  /\ failures < MaxFailures /\ failures' = failures + 1
  /\ loads' = loads \ {l} /\ past' = [past EXCEPT !.missed = TRUE]
  /\ UNCHANGED <<icons, logos, page, asked, jobs, events>>

-----------------------------------------------------------------------------
(* What the operator does.  A question or a dialog covers the page. *)

Acts == events < MaxEvents /\ events' = events + 1 /\ UNCHANGED <<icons, logos, shown, library, failures>>
OnPage == Acts /\ asked = None /\ ~batch.open /\ picker = None /\ ~\E l \in loads : l.for = "picker"
Quiet == UNCHANGED <<asked, jobs, loads, past>>

Job(kind, item, value) == [id |-> events, kind |-> kind, what |-> item, value |-> value, stage |-> "sent", left |-> {}]
Send(j) == jobs' = jobs \cup {j}

\* The editor of a team, which takes its logo from the list as it stands.
ToggleEdit(t) ==
  /\ OnPage /\ shown # None
  /\ editor' = IF editor # None /\ editor.team = t THEN None ELSE [team |-> t, logo |-> shown[t], busy |-> FALSE]
  /\ UNCHANGED <<picker, section, batch>> /\ Quiet

TypeLogo == /\ OnPage /\ editor # None /\ \E u \in External \cup {None} : editor' = [editor EXCEPT !.logo = u]
            /\ UNCHANGED <<picker, section, batch>> /\ Quiet

SaveTeam ==
  /\ OnPage /\ editor # None /\ ~editor.busy
  /\ Send(Job("save", editor.team, editor.logo)) /\ editor' = [editor EXCEPT !.busy = TRUE]
  /\ UNCHANGED <<picker, section, batch, asked, loads, past>>

OpenPicker == /\ OnPage /\ editor # None /\ Begin({"picker"})
              /\ UNCHANGED <<editor, picker, section, batch, asked, jobs>>

PickIcon ==
  /\ Acts /\ picker # None
  /\ \E i \in DOMAIN picker : editor' = [editor EXCEPT !.logo = i]
  /\ picker' = None /\ UNCHANGED <<section, batch>> /\ Quiet

ClosePicker ==
  /\ Acts /\ (picker # None \/ \E l \in loads : l.for = "picker")
  /\ picker' = None /\ loads' = {l \in loads : l.for # "picker"}
  /\ UNCHANGED <<editor, section, batch, asked, jobs, past>>

\* The section: a file is chosen, named and uploaded; an icon is renamed in place.
QuotaFull == library # None /\ Cardinality(DOMAIN library) >= Quota

ChooseFile ==
  /\ OnPage /\ ~section.busy /\ ~section.file
  /\ ~QuotaFull
  /\ section' = [section EXCEPT !.file = TRUE]
  /\ UNCHANGED <<editor, picker, batch>> /\ Quiet

Upload ==
  /\ OnPage /\ section.file /\ ~section.busy
  /\ Send(Job("upload", None, None)) /\ section' = [section EXCEPT !.busy = TRUE]
  /\ UNCHANGED <<editor, picker, batch, asked, loads, past>>

DropFile == /\ OnPage /\ section.file /\ ~section.busy /\ section' = [section EXCEPT !.file = FALSE]
            /\ UNCHANGED <<editor, picker, batch>> /\ Quiet

StartRename == /\ OnPage
               /\ \/ /\ library # None
                     /\ \E i \in DOMAIN library \ {section.renaming} : section' = [section EXCEPT !.renaming = i]
                  \/ section.renaming # None /\ ~section.busy /\ section' = [section EXCEPT !.renaming = None]
               /\ UNCHANGED <<editor, picker, batch>> /\ Quiet

Rename ==
  /\ OnPage /\ section.renaming # None /\ ~section.busy
  /\ Send(Job("rename", section.renaming, None)) /\ section' = [section EXCEPT !.busy = TRUE]
  /\ UNCHANGED <<editor, picker, batch, asked, loads, past>>

\* How many teams wear it is only asked to be told: the question comes with or without.
DeleteIcon ==
  /\ OnPage /\ library # None /\ \E i \in DOMAIN library \ {section.renaming} : asked' = Job("delete", i, None)
  /\ UNCHANGED <<editor, picker, section, batch, jobs, loads, past>>

Reply(yes) ==
  /\ asked # None /\ asked' = None
  /\ IF yes THEN Send(asked) /\ section' = [section EXCEPT !.busy = TRUE] ELSE UNCHANGED <<jobs, section>>
  /\ UNCHANGED <<icons, logos, shown, library, editor, picker, batch, loads, events, failures, past>>

\* Closing the dialog forgets its results, those that come later too.
OpenBatch ==
  /\ OnPage
  /\ batch' = [batch EXCEPT !.open = TRUE, !.selected = Eligible(shown)]
  /\ UNCHANGED <<editor, picker, section>> /\ Quiet

ToggleBatch == /\ Acts /\ batch.open /\ batch.results = None
               /\ \E t \in Eligible(shown) :
                    batch' = [batch EXCEPT !.selected = IF t \in @ THEN @ \ {t} ELSE @ \cup {t}]
               /\ UNCHANGED <<editor, picker, section>> /\ Quiet

RunBatch ==
  /\ Acts /\ batch.open /\ batch.results = None /\ ~batch.busy /\ batch.selected # {}
  /\ Send([Job("import", None, None) EXCEPT !.left = batch.selected]) /\ batch' = [batch EXCEPT !.busy = TRUE]
  /\ UNCHANGED <<editor, picker, section, asked, loads, past>>

CloseBatch == /\ Acts /\ batch.open /\ batch' = [batch EXCEPT !.open = FALSE, !.results = None]
              /\ UNCHANGED <<editor, picker, section>> /\ Quiet

-----------------------------------------------------------------------------
(* What the server does *)

Unused == Icons \ past.used
RoomLeft == Unused # {} /\ Cardinality(Exists) < Quota

Fresh == CHOOSE i \in Unused : \A j \in Unused : i <= j
Added == [k \in Exists \cup {Fresh} |-> IF k = Fresh THEN 0 ELSE icons[k]]

Wearing(i) == {t \in Teams : logos[t] = i}

Goes(j, stage, left) == jobs' = (jobs \ {j}) \cup {[j EXCEPT !.stage = stage, !.left = left]}
Alone == UNCHANGED <<page, asked, loads, events, failures>>

\* A field of the team that is null in the request is left as it is.
Written(old, new) == IF new = None THEN old ELSE new

ServeSave(j) ==
  /\ j.kind = "save" /\ j.stage = "sent" /\ Goes(j, "done", {})
  /\ logos' = [logos EXCEPT ![j.what] = Written(@, j.value)]
  /\ past' = [past EXCEPT !.revived = @ \cup ({j.value} \cap (Icons \ Exists))]
  /\ UNCHANGED icons /\ Alone

ServeUpload(j) ==
  /\ j.kind = "upload" /\ j.stage = "sent" /\ RoomLeft /\ Goes(j, "done", {})
  /\ icons' = Added /\ past' = [past EXCEPT !.used = @ \cup {Fresh}]
  /\ UNCHANGED logos /\ Alone

ServeRename(j) ==
  /\ j.kind = "rename" /\ j.stage = "sent" /\ j.what \in Exists /\ Goes(j, "done", {})
  /\ icons' = [icons EXCEPT ![j.what] = @ + 1]
  /\ UNCHANGED <<logos, past>> /\ Alone

Remove(i) ==
  /\ icons' = [k \in Exists \ {i} |-> icons[k]]
  /\ logos' = [t \in Teams |-> IF logos[t] = i THEN None ELSE logos[t]]

ServeDelete(j) ==
  /\ j.kind = "delete" /\ j.stage = "sent" /\ j.what \in Exists
  /\ Goes(j, "done", Wearing(j.what)) /\ Remove(j.what)
  /\ UNCHANGED past /\ Alone

\* A batch reads the logos of its teams, then converts one team after the other, each
\* in a transaction of its own: what was read may have been changed since.
BeginImport(j) ==
  /\ j.kind = "import" /\ j.stage = "sent"
  /\ jobs' = (jobs \ {j}) \cup {[j EXCEPT !.stage = "converting", !.value = logos]}
  /\ UNCHANGED <<icons, logos, past>> /\ Alone

Turn(j, t) == j.kind = "import" /\ j.stage = "converting" /\ t \in j.left

Convert(j, t) ==
  /\ Turn(j, t) /\ j.value[t] \in External /\ RoomLeft
  /\ icons' = Added /\ logos' = [logos EXCEPT ![t] = Fresh]
  /\ past' = [past EXCEPT !.used = @ \cup {Fresh}]
  /\ Goes(j, "converting", j.left \ {t}) /\ Alone

\* It is hosted already, or there is none; or it cannot be fetched or kept, after which
\* those that are left are read again.
PassOver(j, t) ==
  /\ Turn(j, t) /\ j.value[t] \notin External
  /\ Goes(j, "converting", j.left \ {t}) /\ UNCHANGED <<icons, logos, past>> /\ Alone

ConvertFails(j, t) ==
  /\ Turn(j, t) /\ j.value[t] \in External
  /\ jobs' = (jobs \ {j}) \cup {[j EXCEPT !.left = @ \ {t}, !.value = logos]}
  /\ UNCHANGED <<icons, logos, past>> /\ Alone

EndImport(j) == /\ j.kind = "import" /\ j.stage = "converting" /\ j.left = {} /\ Goes(j, "done", {})
                /\ UNCHANGED <<icons, logos, past>> /\ Alone

-----------------------------------------------------------------------------
(* What the page does with the answers *)

EditorOf(j) == editor # None /\ editor.team = j.what
Freed == [section EXCEPT !.busy = FALSE]

Ends(j) ==
  CASE j.kind = "save" ->
         /\ editor' = IF EditorOf(j) THEN [editor EXCEPT !.busy = FALSE] ELSE editor
         /\ UNCHANGED <<section, batch>>
    [] j.kind = "import" -> batch' = [batch EXCEPT !.busy = FALSE] /\ UNCHANGED <<section, editor>>
    [] OTHER -> section' = Freed /\ UNCHANGED <<editor, batch>>

Reread(j) ==
  CASE j.kind = "save"   -> {"teams"}
    [] j.kind = "import" -> {"teams", "library"}
    [] j.kind = "delete" -> IF j.left = {} THEN {"library"} ELSE {"teams", "library"}
    [] OTHER             -> {"library"}

Done(j) ==
  /\ j.stage = "done" /\ jobs' = jobs \ {j}
  /\ Begin(Reread(j))
  /\ CASE j.kind = "import" -> /\ batch' = [batch EXCEPT !.busy = FALSE, !.results = IF batch.open THEN TRUE ELSE None]
                               /\ UNCHANGED <<section, editor>>
       [] j.kind = "upload" -> section' = [Freed EXCEPT !.file = FALSE] /\ UNCHANGED <<editor, batch>>
       [] j.kind = "rename" -> section' = [Freed EXCEPT !.renaming = None] /\ UNCHANGED <<editor, batch>>
       [] OTHER -> Ends(j)
  /\ UNCHANGED <<icons, logos, shown, library, picker, asked, events, failures>>

Failed(j) ==
  /\ jobs' = jobs \ {j} /\ Ends(j)
  /\ past' = [past EXCEPT !.missed = @ \/ j.stage = "done"]
  /\ UNCHANGED <<icons, logos, shown, library, picker, asked, loads, events>>

Refuse(j) ==
  /\ j.stage = "sent"
  /\ \/ j.kind = "upload" /\ ~RoomLeft
     \/ j.kind \in {"rename", "delete"} /\ j.what \notin Exists
  /\ Failed(j) /\ UNCHANGED failures

JobFails(j) ==
  /\ j.stage \in {"sent", "done"}
  /\ failures < MaxFailures /\ failures' = failures + 1 /\ Failed(j)

-----------------------------------------------------------------------------
Init ==
  /\ icons = [i \in Held |-> 0] /\ logos = Worn
  /\ shown = None /\ library = None
  /\ editor = None /\ picker = None
  /\ section = [file |-> FALSE, renaming |-> None, busy |-> FALSE]
  /\ batch = [open |-> FALSE, selected |-> {}, results |-> None, busy |-> FALSE]
  /\ asked = None /\ jobs = {} /\ events = 0 /\ failures = 0
  /\ loads = {Read("teams", 1), Read("library", 1)}
  /\ past = [begun |-> 1, newest |-> [w \in {"teams", "library", "picker"} |-> 0], missed |-> FALSE,
             used |-> Held, revived |-> {}]

Server ==
  \/ \E j \in jobs : \/ ServeSave(j) \/ ServeUpload(j) \/ ServeRename(j) \/ ServeDelete(j)
                     \/ BeginImport(j) \/ EndImport(j)
                     \/ \E t \in Teams : Convert(j, t) \/ PassOver(j, t) \/ ConvertFails(j, t)
  \/ \E l \in loads : Answer(l)

Network ==
  \/ \E l \in loads : Land(l) \/ LoadFails(l)
  \/ \E j \in jobs : Done(j) \/ Refuse(j) \/ JobFails(j)

Operator ==
  \/ \E t \in Teams : ToggleEdit(t)
  \/ TypeLogo \/ SaveTeam \/ OpenPicker \/ PickIcon \/ ClosePicker
  \/ ChooseFile \/ Upload \/ DropFile \/ StartRename \/ Rename \/ DeleteIcon
  \/ \E yes \in BOOLEAN : Reply(yes)
  \/ OpenBatch \/ ToggleBatch \/ RunBatch \/ CloseBatch

Next == Server \/ Network \/ Operator
Spec == Init /\ [][Next]_vars

-----------------------------------------------------------------------------
(* Properties *)

\* A team never wears an icon that is not there, however deletions, batches and saves
\* fall together; but a draft may still name an icon deleted since it was filled.
LogosAreThere == \A t \in Teams : Hosted(logos[t]) => logos[t] \in Exists \cup past.revived

\* With nothing under way the list and the section show what the server has, unless an
\* answer was lost, refused or overtaken.
LibraryAgrees ==
  jobs = {} /\ loads = {} /\ ~past.missed => shown = logos /\ library = icons

=============================================================================
