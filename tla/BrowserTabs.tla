----------------------------- MODULE BrowserTabs -----------------------------
(***************************************************************************)
(* What the tabs of one browser share and keep (frontend                   *)
(* storage/ScopedStorage.tsx, hooks/useSettings.tsx, api/clientIdentity).  *)
(* The settings are items of localStorage, under the scope of whoever the  *)
(* tab is for: an account, or the guest of a link and of nobody.  The      *)
(* items from before there were accounts are the guest's, and move to the  *)
(* first account that reads or writes.  Each tab shows what it last read.  *)
(*                                                                         *)
(* A tab's identity for presence and the log is in its sessionStorage,     *)
(* which a duplicate of the tab is given a copy of.                        *)
(***************************************************************************)
EXTENDS Naturals

CONSTANTS
  Tabs,
  Accounts,     \* storage namespaces of accounts
  Guest,
  Keys,         \* settings
  MaxEvents,    \* bound on what is done
  MaxFailures,  \* bound on writes the browser refuses (no space)
  None

BrowserAssumption ==
  /\ Guest \notin Accounts /\ None \notin Nat
  /\ MaxEvents \in Nat /\ MaxFailures \in Nat

VARIABLES
  local,    \* localStorage: of each scope and setting the write it is of, None without an item
  marker,   \* localStorage: the migration marker
  tabs,     \* of each tab: "none", "shown", or "kept" by the browser for a way back
  who,      \* the account it takes itself to be signed in as, or the guest
  link,     \* it is at a credential link, or another's public one
  settings, \* what it shows, None for the default
  inbox,    \* scopes of which it has yet to hear that they have changed
  saved,    \* its sessionStorage: id, and whether it is claimed
  memoryId, \* the id it goes by
  events, failures,
  behind,   \* history: the tabs that show what could not be saved or were not told
  loose     \* history: a tab was duplicated whose claim had been released

shared == <<local, marker>>
view == <<who, link, settings, inbox>>
identity == <<saved, memoryId>>
vars == <<shared, tabs, view, identity, events, failures, behind, loose>>

Scopes == Accounts \cup {Guest}
NoItems == [k \in Keys |-> None]

\* resolveRouteStorageScope
Scope(t) == IF link[t] THEN Guest ELSE who[t]

Shown == {t \in Tabs : tabs[t] = "shown"}

-----------------------------------------------------------------------------
(* Items *)

\* What an account has not got it takes over from the guest, of the settings in K.
Filled(scope, K) ==
  [local EXCEPT ![scope] = [k \in Keys |-> IF @[k] = None /\ k \in K THEN local[Guest][k] ELSE @[k]]]

Outcome(after, marked, failed) == [items |-> after, marker |-> marked, failed |-> failed]

\* migrateLegacyStorage, with the items and marker it leaves: a write that is refused ends
\* it, before the guest's items are removed or, of the marker, after.
Migrated(scope) ==
  LET moved == [Filled(scope, Keys) EXCEPT ![Guest] = NoItems] IN
  IF scope = Guest \/ marker THEN {Outcome(local, marker, FALSE)}
  ELSE {Outcome(moved, TRUE, FALSE), Outcome(moved, FALSE, TRUE)}
       \cup {Outcome(Filled(scope, K), FALSE, TRUE) : K \in SUBSET Keys}

\* The tabs that are shown are told by a storage event, one that is kept is not.
Told(t, after) ==
  [u \in Tabs |-> IF u \in Shown \ {t} THEN inbox[u] \cup {s \in Scopes : after[s] # local[s]} ELSE inbox[u]]

Untold(after) == {u \in Tabs : tabs[u] = "kept" /\ after[Scope(u)] # local[Scope(u)]}

Fails(failed) ==
  /\ failed => failures < MaxFailures
  /\ failures' = IF failed THEN failures + 1 ELSE failures

\* readAll, when a tab comes to be for a scope or hears of a change of it.
ReadAll(t, scope, told) ==
  \E m \in Migrated(scope) :
    /\ Fails(m.failed)
    /\ local' = m.items /\ marker' = m.marker
    /\ settings' = [settings EXCEPT ![t] = m.items[scope]]
    /\ inbox' = [Told(t, m.items) EXCEPT ![t] = told]
    /\ behind' = (behind \cup Untold(m.items)) \ {t}

Event == events < MaxEvents /\ events' = events + 1

\* setSetting: the page shows the new value whether or not it could be written; what a
\* migration that had failed before brings now, it does not.
SetSetting(t, k) ==
  LET scope == Scope(t) new == [by |-> scope, n |-> events + 1] IN
  /\ t \in Shown /\ Event /\ (link[t] \/ who[t] # Guest)
  /\ settings' = [settings EXCEPT ![t][k] = new]
  /\ \E m \in Migrated(scope), written \in BOOLEAN :
       LET after == IF written THEN [m.items EXCEPT ![scope][k] = new] ELSE m.items IN
       /\ Fails(m.failed \/ ~written)
       /\ local' = after /\ marker' = m.marker
       /\ inbox' = Told(t, after)
       /\ behind' = behind \cup Untold(after) \cup
                     (IF written /\ m.items[scope] = local[scope] THEN {} ELSE {t})
  /\ UNCHANGED <<tabs, who, link, identity, loose>>

\* A change of another scope is none of the tab's.
Hear(t) ==
  \E s \in inbox[t] :
    /\ t \in Shown
    /\ IF s = Scope(t) THEN ReadAll(t, s, inbox[t] \ {s})
       ELSE /\ inbox' = [inbox EXCEPT ![t] = @ \ {s}]
            /\ UNCHANGED <<shared, settings, failures, behind>>
    /\ UNCHANGED <<tabs, who, link, identity, events, loose>>

\* Signing in or out, or following a link: for another scope everything is read again.
Route(t, to, user) ==
  LET scope == IF to THEN Guest ELSE user IN
  /\ t \in Shown /\ Event /\ <<to, user>> # <<link[t], who[t]>>
  /\ link' = [link EXCEPT ![t] = to] /\ who' = [who EXCEPT ![t] = user]
  /\ IF scope = Scope(t) THEN UNCHANGED <<shared, settings, inbox, failures, behind>>
     ELSE ReadAll(t, scope, {})
  /\ UNCHANGED <<tabs, identity, loose>>

-----------------------------------------------------------------------------
(* Tabs and their identities *)

NoSession == [id |-> None, claimed |-> FALSE]

\* getClientId: the stored id, unless a tab that is alive has it.
Id(session) == IF session.id # None /\ ~session.claimed THEN session.id ELSE events + 1

\* A page is loaded in t, which finds that sessionStorage.
Loaded(t, session, to, user) ==
  /\ Event
  /\ tabs' = [tabs EXCEPT ![t] = "shown"]
  /\ memoryId' = [memoryId EXCEPT ![t] = Id(session)]
  /\ saved' = [saved EXCEPT ![t] = [id |-> Id(session), claimed |-> TRUE]]
  /\ link' = [link EXCEPT ![t] = to] /\ who' = [who EXCEPT ![t] = user]
  /\ ReadAll(t, IF to THEN Guest ELSE user, {})

Open(t, to, user) == tabs[t] = "none" /\ Loaded(t, NoSession, to, user) /\ UNCHANGED loose

\* The copy is of the tab's sessionStorage, its claim too.
Duplicate(t, u) ==
  /\ tabs[t] # "none" /\ tabs[u] = "none"
  /\ Loaded(u, saved[t], link[t], who[t])
  /\ loose' = (loose \/ ~saved[t].claimed)

\* releaseClaimOnUnload: a page that goes lets go of its claim, one that crashes does not.
Released(t) == [saved[t] EXCEPT !.claimed = FALSE]

Reload(t) == /\ tabs[t] # "none"
             /\ \E session \in {Released(t), saved[t]} : Loaded(t, session, link[t], who[t])
             /\ UNCHANGED loose

\* Kept by the browser when the tab goes elsewhere, and shown again as it was.
Leave(t) ==
  /\ t \in Shown /\ Event
  /\ tabs' = [tabs EXCEPT ![t] = "kept"]
  /\ saved' = [saved EXCEPT ![t] = Released(t)]
  /\ inbox' = [inbox EXCEPT ![t] = {}]
  /\ behind' = IF Scope(t) \in inbox[t] THEN behind \cup {t} ELSE behind
  /\ UNCHANGED <<shared, who, link, settings, memoryId, failures, loose>>

Return(t) ==
  /\ tabs[t] = "kept" /\ tabs' = [tabs EXCEPT ![t] = "shown"]
  /\ UNCHANGED <<shared, view, identity, events, failures, behind, loose>>

Close(t) ==
  /\ t \in Shown /\ tabs' = [tabs EXCEPT ![t] = "none"]
  /\ saved' = [saved EXCEPT ![t] = NoSession] /\ memoryId' = [memoryId EXCEPT ![t] = None]
  /\ inbox' = [inbox EXCEPT ![t] = {}]
  /\ UNCHANGED <<shared, who, link, settings, events, failures, behind, loose>>

-----------------------------------------------------------------------------
\* The guest has every setting from before there were accounts.
Init ==
  /\ local = [s \in Scopes |-> IF s = Guest THEN [k \in Keys |-> [by |-> Guest, n |-> 0]] ELSE NoItems]
  /\ marker = FALSE
  /\ tabs = [t \in Tabs |-> "none"]
  /\ who = [t \in Tabs |-> Guest] /\ link = [t \in Tabs |-> FALSE]
  /\ settings = [t \in Tabs |-> NoItems] /\ inbox = [t \in Tabs |-> {}]
  /\ saved = [t \in Tabs |-> NoSession] /\ memoryId = [t \in Tabs |-> None]
  /\ events = 0 /\ failures = 0 /\ behind = {} /\ loose = FALSE

Next ==
  \E t \in Tabs :
    \/ \E k \in Keys : SetSetting(t, k)
    \/ Hear(t)
    \/ \E to \in BOOLEAN, user \in Scopes : Route(t, to, user) \/ Open(t, to, user)
    \/ \E u \in Tabs : Duplicate(t, u)
    \/ Reload(t) \/ Leave(t) \/ Return(t) \/ Close(t)

Spec == Init /\ [][Next]_vars

-----------------------------------------------------------------------------
(* Properties *)

\* A tab that has heard of every change shows what is stored for whom it is for, unless a
\* write of its own was refused or it was kept by the browser while another tab wrote.
SettingsAgree ==
  \A t \in Shown : Scope(t) \notin inbox[t] /\ t \notin behind => settings[t] = local[Scope(t)]

HasGuests(stored, a) == \E k \in Keys : stored[a][k] # None /\ stored[a][k].by = Guest

\* No account gets a setting of another's.  What guests set goes to no more than one account,
\* as long as no write is refused (ScopedStorage.tsx, migrateLegacyStorage).
ScopesStayApart ==
  /\ \A s \in Scopes, k \in Keys : local[s][k] # None => local[s][k].by \in {s, Guest}
  /\ failures = 0 => \A a, b \in Accounts : HasGuests(local, a) /\ HasGuests(local, b) => a = b

\* Two tabs that are shown never go by the same identity, unless one was duplicated while
\* its claim was released (clientIdentity.ts, getClientId).
IdsStayApart ==
  loose \/ \A t, u \in Shown : t # u => memoryId[t] # memoryId[u]
=============================================================================
