------------------------------ MODULE MCPages ------------------------------
(***************************************************************************)
(* The pages of a browser, of which it shows one: the overlay in OBS, or   *)
(* one of the pages of an account.  What a page keeps has the same name    *)
(* here as there; what the page shown does not keep is None, or stays as   *)
(* it began.                                                               *)
(***************************************************************************)
EXTENDS OverlayPage, AccountLists, TLC

CONSTANTS
  b1, b2,                   \* boards
  Squads, Images, Links,    \* the library: teams, icons, and addresses of logos elsewhere,
  Stocked, Worn, Space,        \* the icons at first, what each team wears, how many there may be
  k1, k2, x1,               \* teams, and a logo from elsewhere
  s1,                       \* the group of all teams
  People, Staff, Members,   \* accounts that are administered: all, and admins and users at first
  me,                       \* the admin whose page it is
  p1, p2,                   \* presets
  Enlisted,                 \* accounts that there are at first, of those that sign in
  Windows, Holders, Items,  \* tabs of a browser, accounts that sign in to it, and settings
  guest,
  Steps                     \* bound on what is done in the library and the browser

VARIABLES
  mounted,
  icons, logos, shown, library, picker, batch,   \* Library
  users, open, session, listed, label, tempCred,   \* Users
  place, own, globals, items, managed, form, pendingDelete, applied,   \* Presets
  accounts, sessions, admin, cookie, path, reads,   \* Session
  local, marker, tabs, who, link, settings, inbox, saved, memoryId, behind, loose,   \* Browser
  current, enabled, seen, sentinel, requesting, locks, orphans, missed,   \* Screen
  state, room, tab, showControls, timer, ran, currentSet, prev, pending, connected, offline, grace, byHand, crossed,   \* Hud
  there, remembered, offered, selectedGroupId, loaded, roster, load, fetch, writes, banner, raced,   \* Options
  ctx   \* Users and Session

Dressed == (k1 :> 1) @@ (k2 :> x1)

\* What the reports tell of the first four matches of a list.
About == [m \in 1..4 |-> [board |-> IF m = 4 THEN b2 ELSE b1, mode |-> IF m = 2 THEN "beach" ELSE "indoor",
                           day |-> IF m = 1 THEN "mon" ELSE "tue", length |-> m \div 2]]

Library == INSTANCE TeamLibrary
  WITH Teams <- Squads, Icons <- Images, External <- Links, Held <- Stocked, Worn <- Worn, Quota <- Space,
       MaxEvents <- Steps, MaxFailures <- Mishaps

Users == INSTANCE AdminUsers
  WITH Accounts <- People, Admins <- Staff, Plain <- Members, Me <- me, MaxEvents <- FewSteps, MaxFailures <- Mishaps

Presets == INSTANCE PresetLists
  WITH Slugs <- {p1, p2}, Own <- {p1, p2}, Globals <- {p1, p2}, Places <- {"page", "picker"},
       MaxEvents <- 2, MaxFailures <- 1

Session == INSTANCE AccountSession
  WITH Accounts <- Holders, Existing <- Enlisted, MaxEvents <- FewSteps, MaxFailures <- Mishaps

Browser == INSTANCE BrowserTabs
  WITH Tabs <- Windows, Accounts <- Holders, Guest <- guest, Keys <- Items, MaxEvents <- Steps, MaxFailures <- Mishaps

Screen == INSTANCE WakeLock WITH MaxEvents <- 6, MaxFailures <- 1

Hud == INSTANCE OperatorHud
  WITH Modes <- {"indoor"}, Limits <- {3}, Targets <- {2, 3}, Scores <- {<<0, 0>>, <<1, 2>>}, MaxEvents <- 3

Options == INSTANCE ConfigOptions
  WITH Groups <- Circles, All <- s1, MaxEvents <- 4, MaxFailures <- 1

ASSUME PagesAssumption ==
  /\ Library!LibraryAssumption /\ Users!AdminUsersAssumption
  /\ Presets!PresetListsAssumption /\ Session!AccountSessionAssumption
  /\ Browser!BrowserAssumption /\ Screen!WakeLockAssumption /\ Hud!HudAssumption /\ Options!OptionsAssumption

-----------------------------------------------------------------------------
(* What a page keeps that another does not *)

OfReports == <<archive, overlays, ctl, rows, total, days, selected, loading, failed, lists, dayLists, job>>
OfOverlays == <<table, list, page>>
OfLibrary == <<icons, logos, shown, library, picker, batch>>
OfTeams == <<members, named, universe, forms>>
OfCatalog == <<used, catalog, ticked, naming>>
OfUsers == <<users, open, session, listed, label, tempCred>>
OfPresets == <<place, own, globals, items, managed, form, pendingDelete, applied>>
OfSession == <<accounts, sessions, admin, cookie, path, reads>>
OfBrowser == <<local, marker, tabs, who, link, settings, inbox, saved, memoryId, behind, loose>>
shared == <<cards, busy, asked, jobs, loads, editor, section, teams, groups, view, json, ctx>>
OfScreen == <<current, enabled, seen, sentinel, requesting, locks, orphans, missed>>
OfHud == <<state, room, tab, showControls, timer, ran, currentSet, prev, pending, connected, offline, grace,
           byHand, crossed>>
OfOptions == <<there, remembered, offered, selectedGroupId, loaded, roster, load, fetch, writes, banner, raced>>

NoReports ==
  /\ archive = None /\ overlays = None /\ ctl = None /\ rows = None /\ total = None /\ days = None
  /\ selected = None /\ loading = None /\ failed = None /\ lists = None /\ dayLists = None
  /\ job = None
NoOverlays == table = None /\ list = None /\ page = None
NoLibrary == icons = None /\ logos = None /\ shown = None /\ library = None /\ picker = None /\ batch = None
NoTeams == members = None /\ named = None /\ universe = None /\ forms = None
NoCatalog == used = None /\ catalog = None /\ ticked = None /\ naming = None
NoUsers == users = None /\ open = None /\ session = None /\ listed = None /\ label = None /\ tempCred = None
NoPresets ==
  /\ place = None /\ own = None /\ globals = None /\ items = None /\ managed = None /\ form = None
  /\ pendingDelete = None /\ applied = None
NoBrowser ==
  /\ local = None /\ marker = None /\ tabs = None /\ who = None /\ link = None /\ settings = None
  /\ inbox = None /\ saved = None /\ memoryId = None /\ behind = None /\ loose = None
NoScreen ==
  /\ current = None /\ enabled = None /\ seen = None /\ sentinel = None /\ requesting = None
  /\ locks = None /\ orphans = None /\ missed = None
NoHud ==
  /\ state = None /\ room = None /\ tab = None /\ showControls = None /\ timer = None /\ ran = None
  /\ currentSet = None /\ prev = None /\ pending = None /\ connected = None /\ offline = None
  /\ grace = None /\ byHand = None /\ crossed = None
NoOptions ==
  /\ there = None /\ remembered = None /\ offered = None /\ selectedGroupId = None /\ loaded = None
  /\ roster = None /\ load = None /\ fetch = None /\ writes = None /\ banner = None /\ raced = None
NoSession == accounts = None /\ sessions = None /\ admin = None /\ cookie = None /\ path = None /\ reads = None

\* What several pages keep, each on its own.
NoneShared ==
  /\ cards = None /\ busy = None /\ asked = None /\ jobs = None /\ loads = None /\ editor = None
  /\ section = None /\ teams = None /\ groups = None /\ view = None /\ json = None /\ ctx = None

NoAccount ==
  /\ NoReports /\ NoOverlays /\ NoLibrary /\ NoTeams /\ NoCatalog /\ NoUsers /\ NoPresets /\ NoSession
  /\ NoBrowser /\ NoScreen /\ NoHud /\ NoOptions /\ NoneShared /\ events = None /\ failures = None /\ past = None

AccountInit ==
  \/ /\ mounted = "reports" /\ Reports!Init
     /\ NoOverlays /\ NoLibrary /\ NoTeams /\ NoCatalog /\ NoUsers /\ NoPresets /\ NoSession /\ NoBrowser /\ NoScreen /\ NoHud /\ NoOptions
     /\ cards = None /\ busy = None /\ asked = None /\ jobs = None /\ loads = None /\ editor = None
     /\ section = None /\ teams = None /\ groups = None /\ view = None /\ json = None /\ ctx = None
  \/ /\ mounted = "overlays" /\ Overlays!Init
     /\ NoReports /\ NoLibrary /\ NoTeams /\ NoCatalog /\ NoUsers /\ NoPresets /\ NoSession /\ NoBrowser /\ NoScreen /\ NoHud /\ NoOptions
     /\ editor = None /\ section = None /\ teams = None /\ groups = None /\ view = None /\ json = None
     /\ ctx = None
  \/ /\ mounted = "library" /\ Library!Init
     /\ NoReports /\ NoOverlays /\ NoTeams /\ NoCatalog /\ NoUsers /\ NoPresets /\ NoSession /\ NoBrowser /\ NoScreen /\ NoHud /\ NoOptions
     /\ cards = None /\ busy = None /\ teams = None /\ groups = None /\ view = None /\ json = None
     /\ ctx = None
  \/ /\ mounted = "teams" /\ TeamPage!Init
     /\ NoReports /\ NoOverlays /\ NoLibrary /\ NoCatalog /\ NoUsers /\ NoPresets /\ NoSession /\ NoBrowser /\ NoScreen /\ NoHud /\ NoOptions
     /\ busy = None /\ section = None /\ view = None /\ json = None /\ ctx = None
  \/ /\ mounted = "catalog" /\ Catalog!Init
     /\ NoReports /\ NoOverlays /\ NoLibrary /\ NoTeams /\ NoUsers /\ NoPresets /\ NoSession /\ NoBrowser /\ NoScreen /\ NoHud /\ NoOptions
     /\ busy = None /\ ctx = None
  \/ /\ mounted = "users" /\ Users!Init
     /\ NoReports /\ NoOverlays /\ NoLibrary /\ NoTeams /\ NoCatalog /\ NoPresets /\ NoSession /\ NoBrowser /\ NoScreen /\ NoHud /\ NoOptions
     /\ cards = None /\ editor = None /\ section = None /\ teams = None /\ groups = None /\ view = None
     /\ json = None
  \/ /\ mounted = "presets" /\ Presets!Init
     /\ NoReports /\ NoOverlays /\ NoLibrary /\ NoTeams /\ NoCatalog /\ NoUsers /\ NoSession /\ NoBrowser /\ NoScreen /\ NoHud /\ NoOptions
     /\ cards = None /\ busy = None /\ editor = None /\ section = None /\ teams = None /\ groups = None
     /\ ctx = None
  \/ /\ mounted = "session" /\ Session!Init
     /\ NoReports /\ NoOverlays /\ NoLibrary /\ NoTeams /\ NoCatalog /\ NoUsers /\ NoPresets /\ NoBrowser /\ NoScreen /\ NoHud /\ NoOptions
     /\ cards = None /\ asked = None /\ loads = None /\ editor = None /\ section = None /\ teams = None
     /\ groups = None /\ view = None /\ json = None
  \/ /\ mounted = "browser" /\ Browser!Init
     /\ NoReports /\ NoOverlays /\ NoLibrary /\ NoTeams /\ NoCatalog /\ NoUsers /\ NoPresets /\ NoSession /\ NoScreen /\ NoHud /\ NoOptions
     /\ NoneShared /\ past = None
  \/ /\ mounted = "screen" /\ Screen!Init
     /\ NoReports /\ NoOverlays /\ NoLibrary /\ NoTeams /\ NoCatalog /\ NoUsers /\ NoPresets /\ NoSession /\ NoBrowser /\ NoHud /\ NoOptions
     /\ NoneShared /\ past = None
  \/ /\ mounted = "board" /\ Hud!Init
     /\ NoReports /\ NoOverlays /\ NoLibrary /\ NoTeams /\ NoCatalog /\ NoUsers /\ NoPresets /\ NoSession /\ NoBrowser /\ NoScreen
     /\ NoOptions /\ NoneShared /\ failures = None /\ past = None
  \/ /\ mounted = "config" /\ Options!Init
     /\ NoReports /\ NoOverlays /\ NoLibrary /\ NoTeams /\ NoCatalog /\ NoUsers /\ NoPresets /\ NoSession /\ NoBrowser /\ NoScreen
     /\ NoHud /\ NoneShared /\ past = None

PagesInit ==
  /\ PageInit
  /\ \/ mounted = "overlay" /\ NoAccount
     \/ AccountInit

AccountNext ==
  \/ /\ mounted = "reports" /\ Reports!Next
     /\ UNCHANGED <<mounted, OfHud, OfOptions, OfBrowser, OfScreen, OfOverlays, OfLibrary, OfTeams, OfCatalog, OfUsers, OfPresets, OfSession,
                     cards, busy, asked, jobs, loads, editor, section, teams, groups, view, json, ctx>>
  \/ /\ mounted = "overlays" /\ Overlays!Next
     /\ UNCHANGED <<mounted, OfHud, OfOptions, OfBrowser, OfScreen, OfReports, OfLibrary, OfTeams, OfCatalog, OfUsers, OfPresets, OfSession,
                     editor, section, teams, groups, view, json, ctx>>
  \/ /\ mounted = "library" /\ Library!Next
     /\ UNCHANGED <<mounted, OfHud, OfOptions, OfBrowser, OfScreen, OfReports, OfOverlays, OfTeams, OfCatalog, OfUsers, OfPresets, OfSession,
                     cards, busy, teams, groups, view, json, ctx>>
  \/ /\ mounted = "teams" /\ TeamPage!Next
     /\ UNCHANGED <<mounted, OfHud, OfOptions, OfBrowser, OfScreen, OfReports, OfOverlays, OfLibrary, OfCatalog, OfUsers, OfPresets, OfSession,
                     busy, section, view, json, ctx>>
  \/ /\ mounted = "catalog" /\ Catalog!Next
     /\ UNCHANGED <<mounted, OfHud, OfOptions, OfBrowser, OfScreen, OfReports, OfOverlays, OfLibrary, OfTeams, OfUsers, OfPresets, OfSession,
                     busy, ctx>>
  \/ /\ mounted = "users" /\ Users!Next
     /\ UNCHANGED <<mounted, OfHud, OfOptions, OfBrowser, OfScreen, OfReports, OfOverlays, OfLibrary, OfTeams, OfCatalog, OfPresets, OfSession,
                     cards, editor, section, teams, groups, view, json>>
  \/ /\ mounted = "presets" /\ Presets!Next
     /\ UNCHANGED <<mounted, OfHud, OfOptions, OfBrowser, OfScreen, OfReports, OfOverlays, OfLibrary, OfTeams, OfCatalog, OfUsers, OfSession,
                     cards, busy, editor, section, teams, groups, ctx>>
  \/ /\ mounted = "session" /\ Session!Next
     /\ UNCHANGED <<mounted, OfHud, OfOptions, OfBrowser, OfScreen, OfReports, OfOverlays, OfLibrary, OfTeams, OfCatalog, OfUsers, OfPresets,
                     cards, asked, loads, editor, section, teams, groups, view, json>>
  \/ /\ mounted = "browser" /\ Browser!Next
     /\ UNCHANGED <<mounted, OfHud, OfOptions, OfScreen, OfReports, OfOverlays, OfLibrary, OfTeams, OfCatalog, OfUsers, OfPresets,
                     OfSession, shared, past>>
  \/ /\ mounted = "screen" /\ Screen!Next
     /\ UNCHANGED <<mounted, OfHud, OfOptions, OfBrowser, OfReports, OfOverlays, OfLibrary, OfTeams, OfCatalog, OfUsers, OfPresets,
                     OfSession, shared, past>>
  \/ /\ mounted = "board" /\ Hud!Next
     /\ UNCHANGED <<mounted, OfOptions, OfBrowser, OfScreen, OfReports, OfOverlays, OfLibrary, OfTeams, OfCatalog, OfUsers, OfPresets,
                     OfSession, shared, failures, past>>
  \/ /\ mounted = "config" /\ Options!Next
     /\ UNCHANGED <<mounted, OfHud, OfBrowser, OfScreen, OfReports, OfOverlays, OfLibrary, OfTeams, OfCatalog, OfUsers, OfPresets,
                     OfSession, shared, past>>

account == <<OfReports, OfOverlays, OfLibrary, OfTeams, OfCatalog, OfUsers, OfPresets, OfSession, OfBrowser, OfScreen,
             OfHud, OfOptions, shared, events, failures, past>>

PagesNext ==
  \/ mounted = "overlay" /\ PageNext /\ UNCHANGED <<mounted, account>>
  \/ AccountNext /\ UNCHANGED pageVars

PagesSpec == PagesInit /\ [][PagesNext]_<<mounted, pageVars, account>>

-----------------------------------------------------------------------------
(* Properties, each of the pages it is about; they are stated in their modules *)

\* Every list shows what the server has once nothing is under way, whatever was
\* superseded, refused or deleted before, a tab at rest takes itself for the
\* account of its cookie, and a board's bar, alert and settings are of the state
\* it was last given, apart from the cases that each page names.
PagesAgree ==
  /\ mounted = "reports" => Reports!ReportsAgree
  /\ mounted = "overlays" => Overlays!OverlaysAgree
  /\ mounted = "library" => Library!LibraryAgrees
  /\ mounted = "teams" => TeamPage!GroupsAgree
  /\ mounted = "catalog" => Catalog!CatalogAgrees
  /\ mounted = "users" => Users!UsersAgree
  /\ mounted = "presets" => Presets!PresetsAgree
  /\ mounted = "session" => Session!ContextAgrees
  /\ mounted = "browser" => Browser!SettingsAgree
  /\ mounted = "screen" => Screen!ScreenIsKept
  /\ mounted = "board" => Hud!ControlsInReach /\ Hud!AlertsAreCurrent
  /\ mounted = "config" => Options!OptionsAgree

\* What an operation is begun on is what is meant: a deletion takes reports of the
\* board, type and day chosen, a tick is of the team it was made for, an edit of a
\* name or of a group starts from the list as it is.
ChoicesAreCurrent ==
  /\ mounted = "reports" => Reports!SelectionInScope
  /\ mounted = "overlays" => Overlays!RenameStartsFromTheList
  /\ mounted = "teams" => TeamPage!FreeCardsAreFresh
  /\ mounted = "catalog" => Catalog!TicksStayOnTheirTeam

\* What is saved holds together: a logo that a team wears is there, whatever the library
\* has deleted (icons_service.py, delete_icon); the instance keeps an admin, and a password
\* that is handed over is the account's (auth/service.py, admin_users.py).
RecordsHold ==
  /\ mounted = "library" => Library!LogosAreThere
  /\ mounted = "users" => Users!AnAdminRemains /\ Users!CredentialsAreCurrent
  /\ mounted = "browser" => Browser!ScopesStayApart /\ Browser!IdsStayApart

\* What a step may never do: light the panel of a team that has won nothing, let go of an
\* edit because of a filter, or sign out a tab whose cookie is somebody's.
NoStepMisleads ==
  [][ /\ mounted = "overlay" => AlertsFollowTheTeam
      /\ mounted = "catalog" => Catalog!FilterKeepsTheEditor
      /\ mounted = "session" => Session!LoginHolds ]_<<mounted, pageVars, account>>

=============================================================================
