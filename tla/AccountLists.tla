----------------------------- MODULE AccountLists -----------------------------
(***************************************************************************)
(* The pages of an account whose operations start from what they list:     *)
(* the reports, the overlays, the groups of teams and the catalog.  A      *)
(* browser shows one at a time, so what they keep has the same name here   *)
(* as there, and what several keep is of the one that is shown.            *)
(***************************************************************************)
EXTENDS Integers, Sequences, FiniteSets

CONSTANTS
  None,
  Courts, Kinds, Dates,     \* the reports: boards, modes and days there are,
  Played, Facts, Opened,    \* matches and what is known of them, the board of the address,
  ReportRows, Batch,        \* rows of a page, and of a deletion
  Streams, Notes, Running,  \* the overlays: names there can be and are at first, descriptions,
  ListRows, Tools,          \* rows of a listing's page, and how many make a toolbar
  National, Amateur,        \* teams of the catalog, and those the account can make,
  Leagues, Circles,         \* groups published, and those an account or an admin can make,
  Enrolled, Founded, Joined,\* members of every league, and the account's teams and groups at first
  TeamNames, Registered,    \* names of the catalog's teams, and those there are at first
  Announced, Filters,       \* groups published at first, and how many teams make a filter
  FewSteps,                 \* bound on what is done on a page
  Mishaps                   \* bound on what fails

VARIABLES
  archive, overlays, ctl, rows, total, days, selected, loading, failed, lists, dayLists, job,   \* Reports
  table, list, page, busy,   \* Overlays
  members, named, universe, forms,   \* Teams
  used, catalog, ticked, naming, section, view, json,   \* Catalog
  teams, groups, editor,   \* both of them
  cards, asked, jobs, loads,   \* all but Reports
  events, failures, past

Reports == INSTANCE ReportsPage
  WITH Boards <- Courts, Modes <- Kinds, Days <- Dates, Matches <- Played, Info <- Facts, Linked <- Opened,
       PageSize <- ReportRows, Chunk <- Batch, MaxEvents <- FewSteps, MaxFailures <- Mishaps

Overlays == INSTANCE OverlaysPage
  WITH Oids <- Streams, Texts <- Notes, Owned <- Running, PageSize <- ListRows, ToolsThreshold <- Tools,
       MaxEvents <- FewSteps, MaxFailures <- Mishaps

TeamPage == INSTANCE TeamsPage
  WITH Globals <- National, Customs <- Amateur, Shared <- Leagues, Privates <- Circles, Intrinsic <- Enrolled,
       Made <- Founded, Mine <- Joined, FILTER_THRESHOLD <- Filters, MaxEvents <- FewSteps, MaxFailures <- Mishaps

Catalog == INSTANCE AdminTeams
  WITH Names <- TeamNames, Catalog <- Registered, GroupIds <- Circles, Published <- Announced,
       FILTER_THRESHOLD <- Filters, MaxEvents <- FewSteps, MaxFailures <- Mishaps

ASSUME ListsAssumption ==
  /\ Reports!ReportsAssumption /\ Overlays!OverlaysAssumption
  /\ TeamPage!TeamsAssumption /\ Catalog!AdminTeamsAssumption

=============================================================================
