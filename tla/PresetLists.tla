----------------------------- MODULE PresetLists -----------------------------
(***************************************************************************)
(* The presets of a customization, where they are listed (frontend         *)
(* pages/PresetsPage.tsx, components/PresetPicker.tsx, api/presets.ts,     *)
(* api/admin.ts; presets_service.py, routes/customization.py).  The page   *)
(* keeps two lists, of what the account can use and of what the admin      *)
(* publishes; the picker of a board keeps one.  Nothing disables a row's   *)
(* buttons on the page while its request is out.                           *)
(***************************************************************************)
EXTENDS Naturals

CONSTANTS
  Slugs,        \* slugs of presets, of an account's own and of global ones alike
  Own,          \* those of the account at first
  Globals,      \* the global ones at first, all active
  Places,       \* of "page", an admin's, and "picker", those there can be
  MaxEvents,    \* bound on what is done
  MaxFailures,  \* bound on requests that fail
  None

PresetListsAssumption ==
  /\ Own \cup Globals \subseteq Slugs /\ None \notin Slugs
  /\ Places \subseteq {"page", "picker"} /\ MaxEvents \in Nat /\ MaxFailures \in Nat

VARIABLES
  place,    \* where the lists are
  own,      \* server: of each preset of the account, the change that made it
  globals,  \* server: of each global one, is_active and the last change of its values
  items,    \* what the account can use, as listed
  managed,  \* what the admin publishes, as listed
  view,     \* loading, error
  form,     \* the picker's form: open, and its request
  pendingDelete,
  json,     \* the import's request
  applied,  \* the presets whose patch went to the panel
  asked, jobs, loads, events, failures,
  past      \* history: begun, newest and missed as in the other lists of the account

server == <<place, own, globals>>
page == <<items, managed, view, form, pendingDelete, json, applied>>
vars == <<server, page, asked, jobs, loads, events, failures, past>>

With(f, x, v) == [y \in DOMAIN f \cup {x} |-> IF y = x THEN v ELSE f[y]]
Without(f, x) == [y \in DOMAIN f \ {x} |-> f[y]]

\* list_for_user: the global ones that are active, and the account's own.
Usable == {[source |-> "global", slug |-> s, stamp |-> globals[s].stamp] :
             s \in {g \in DOMAIN globals : globals[g].active}}
          \cup {[source |-> "user", slug |-> s, stamp |-> own[s]] : s \in DOMAIN own}

-----------------------------------------------------------------------------
(* Reading the lists *)

Lists == IF place = "page" THEN {"items", "managed"} ELSE {"items"}
Read(list, for, next) == [list |-> list, number |-> past.begun + 1, for |-> for, next |-> next, got |-> None]

\* A read for a job; next: the list of the account is read once this one has come.
Load(list, for, next) ==
  /\ loads' = loads \cup {Read(list, for, next)}
  /\ past' = [past EXCEPT !.begun = @ + 1]
  /\ view' = IF place = "picker" THEN [loading |-> TRUE, error |-> FALSE] ELSE view

\* refresh: the global ones, and then what the account can use.
Refresh(for) == Load("managed", for, TRUE)

AnswerList(l) ==
  /\ l.got = None
  /\ loads' = (loads \ {l}) \cup {[l EXCEPT !.got = IF l.list = "items" THEN Usable ELSE globals]}
  /\ UNCHANGED <<server, page, asked, jobs, events, failures, past>>

Ends(l) ==
  /\ form' = IF form.busy = l.for THEN [form EXCEPT !.busy = None] ELSE form
  /\ pendingDelete' = IF place = "picker" /\ l.for # None /\ form.busy # l.for THEN None ELSE pendingDelete

\* Only the account's list is said to be loading; an error stays until the picker reads again.
Seen(l, failed) == IF l.list = "items" THEN [loading |-> FALSE, error |-> view.error \/ failed] ELSE view

\* What is read next, if anything is.
Onward(l) == IF l.next THEN {[Read("items", None, FALSE) EXCEPT !.number = past.begun + 1]} ELSE {}

Land(l) ==
  /\ l.got # None /\ Ends(l) /\ view' = Seen(l, FALSE)
  /\ loads' = (loads \ {l}) \cup Onward(l)
  /\ IF l.list = "items" THEN items' = l.got /\ UNCHANGED managed ELSE managed' = l.got /\ UNCHANGED items
  /\ past' = [past EXCEPT !.begun = IF l.next THEN @ + 1 ELSE @,
                          !.newest[l.list] = IF @ < l.number THEN l.number ELSE @,
                          !.missed = @ \/ l.number < past.newest[l.list]]
  /\ UNCHANGED <<server, applied, json, asked, jobs, events, failures>>

LoadFails(l) ==
  /\ failures < MaxFailures /\ failures' = failures + 1 /\ Ends(l) /\ view' = Seen(l, TRUE)
  /\ loads' = (loads \ {l}) \cup Onward(l)
  /\ past' = [past EXCEPT !.begun = IF l.next THEN @ + 1 ELSE @, !.missed = TRUE]
  /\ UNCHANGED <<server, items, managed, applied, json, asked, jobs, events>>

-----------------------------------------------------------------------------
(* What is done *)

Job(kind, what, value) == [kind |-> kind, what |-> what, value |-> value, id |-> events + 1, stage |-> "sent"]

At(where) == /\ place = where /\ asked = None /\ events < MaxEvents /\ events' = events + 1
             /\ UNCHANGED <<server, items, managed, view, loads, failures, past>>
Send(j) == jobs' = jobs \cup {j}
Ask(j) == /\ At("page") /\ asked' = j /\ UNCHANGED <<jobs, form, pendingDelete, json, applied>>

OnDelete(p) == p.source = "user" /\ Ask(Job("delete", p.slug, None))
Del(s) == Ask(Job("unpublish", s, None))
Toggle(s) == /\ At("page") /\ Send(Job("toggle", s, ~managed[s].active))
             /\ UNCHANGED <<asked, form, pendingDelete, json, applied>>

\* JsonImportExport; the text is any map of presets.
Import(ss, replace) ==
  LET j == Job("import", ss, replace) IN
  /\ json = None
  /\ IF replace THEN Ask(j)
     ELSE /\ At("page") /\ Send(j) /\ json' = j.id /\ UNCHANGED <<asked, form, pendingDelete, applied>>

Answer(yes) ==
  /\ asked # None /\ asked' = None
  /\ IF yes THEN Send(asked) ELSE UNCHANGED jobs
  /\ json' = IF yes /\ asked.kind = "import" THEN asked.id ELSE json
  /\ UNCHANGED <<server, items, managed, view, form, pendingDelete, applied, loads, events, failures, past>>

ToggleForm == /\ At("picker") /\ form' = [form EXCEPT !.open = ~@]
              /\ UNCHANGED <<jobs, asked, pendingDelete, json, applied>>

\* With a name, and at least one category of which the model holds a key.
HandleCreate(s) ==
  /\ form.open /\ form.busy = None /\ At("picker")
  /\ LET j == Job("create", s, None) IN Send(j) /\ form' = [form EXCEPT !.busy = j.id]
  /\ UNCHANGED <<asked, pendingDelete, json, applied>>

ListShown == ~view.loading /\ ~view.error

\* One slot for the row whose deletion is out, taken by the last of them.
HandleDelete(p) ==
  /\ p.source = "user" /\ ListShown /\ pendingDelete # p.slug /\ At("picker")
  /\ Send(Job("delete", p.slug, None)) /\ pendingDelete' = p.slug
  /\ UNCHANGED <<asked, form, json, applied>>

HandleApply(p) ==
  /\ ListShown /\ At("picker") /\ applied' = applied \cup {p} /\ UNCHANGED <<jobs, asked, form, pendingDelete, json>>

-----------------------------------------------------------------------------
(* What the server does *)

Alone == UNCHANGED <<page, asked, loads, events, failures, past>>

\* import_app_themes: a preset that is there keeps whether it is active.
Imported(j) ==
  LET kept == IF j.value THEN {} ELSE DOMAIN globals IN
  [s \in kept \cup j.what |->
     [active |-> IF s \in kept THEN globals[s].active ELSE TRUE,
      stamp  |-> IF s \in j.what THEN j.id ELSE globals[s].stamp]]

Serve(j) ==
  /\ j.stage = "sent" /\ jobs' = (jobs \ {j}) \cup {[j EXCEPT !.stage = "done"]} /\ Alone /\ UNCHANGED place
  /\ \/ j.kind = "delete" /\ j.what \in DOMAIN own /\ own' = Without(own, j.what) /\ UNCHANGED globals
     \/ j.kind = "create" /\ j.what \notin DOMAIN own /\ own' = With(own, j.what, j.id) /\ UNCHANGED globals
     \/ /\ j.kind = "toggle" /\ j.what \in DOMAIN globals
        /\ globals' = [globals EXCEPT ![j.what].active = j.value] /\ UNCHANGED own
     \/ j.kind = "unpublish" /\ j.what \in DOMAIN globals /\ globals' = Without(globals, j.what) /\ UNCHANGED own
     \/ j.kind = "import" /\ globals' = Imported(j) /\ UNCHANGED own

-----------------------------------------------------------------------------
(* What is done with the answers *)

Still == UNCHANGED <<server, items, managed, applied, asked, events, failures>>

Done(j) ==
  /\ j.stage = "done" /\ jobs' = jobs \ {j} /\ Still /\ UNCHANGED pendingDelete
  /\ json' = IF json = j.id THEN None ELSE json
  /\ form' = IF j.kind = "create" THEN [form EXCEPT !.open = FALSE] ELSE form
  /\ IF j.kind \in {"toggle", "unpublish", "import"} THEN Refresh(j.id) ELSE Load("items", j.id, FALSE)

Failed(j) ==
  /\ jobs' = jobs \ {j} /\ UNCHANGED <<loads, view>> /\ UNCHANGED <<server, items, managed, applied, asked, events>>
  /\ past' = [past EXCEPT !.missed = @ \/ j.stage = "done"]
  /\ form' = IF form.busy = j.id THEN [form EXCEPT !.busy = None] ELSE form
  /\ json' = IF json = j.id THEN None ELSE json
  /\ pendingDelete' = IF j.kind = "delete" THEN None ELSE pendingDelete

Refuse(j) ==
  /\ j.stage = "sent" /\ Failed(j) /\ UNCHANGED failures
  /\ \/ j.kind = "delete" /\ j.what \notin DOMAIN own
     \/ j.kind = "create" /\ j.what \in DOMAIN own
     \/ j.kind \in {"toggle", "unpublish"} /\ j.what \notin DOMAIN globals

JobFails(j) == failures < MaxFailures /\ failures' = failures + 1 /\ Failed(j)

-----------------------------------------------------------------------------
Init ==
  /\ place \in Places /\ own = [s \in Own |-> 0] /\ globals = [s \in Globals |-> [active |-> TRUE, stamp |-> 0]]
  /\ items = {} /\ managed = <<>> /\ view = [loading |-> TRUE, error |-> FALSE]
  /\ form = [open |-> FALSE, busy |-> None] /\ pendingDelete = None /\ json = None
  /\ applied = {} /\ asked = None /\ jobs = {} /\ events = 0 /\ failures = 0
  /\ loads = {[list |-> l, number |-> 1, for |-> None, next |-> FALSE, got |-> None] : l \in Lists}
  /\ past = [begun |-> 1, newest |-> [l \in {"items", "managed"} |-> 0], missed |-> FALSE]

Next ==
  \/ \E l \in loads : AnswerList(l) \/ Land(l) \/ LoadFails(l)
  \/ \E p \in items : OnDelete(p) \/ HandleDelete(p) \/ HandleApply(p)
  \/ \E s \in DOMAIN managed : Del(s) \/ Toggle(s)
  \/ \E ss \in SUBSET Slugs \ {{}}, replace \in BOOLEAN : Import(ss, replace)
  \/ \E yes \in BOOLEAN : Answer(yes)
  \/ ToggleForm
  \/ \E s \in Slugs : HandleCreate(s)
  \/ \E j \in jobs : Serve(j) \/ Done(j) \/ Refuse(j) \/ JobFails(j)

Spec == Init /\ [][Next]_vars

-----------------------------------------------------------------------------
(* Properties *)

\* With nothing under way what is listed is what the server has, in both lists, nothing is
\* said to be loading or being deleted, and no form waits.
PresetsAgree ==
  jobs = {} /\ loads = {} =>
    /\ ~view.loading /\ form.busy = None /\ pendingDelete = None /\ json = None
    /\ past.missed \/ (items = Usable /\ (place = "page" => managed = globals))

=============================================================================
