---------------------------- MODULE PagesProofs ----------------------------
(***************************************************************************)
(* What the records behind an account's pages keep, and what the pages may *)
(* be used for, whatever the teams, icons, accounts, boards, tabs and      *)
(* settings, and however many operations, failures and tabs there are: no  *)
(* team wears an icon that is gone, the instance keeps an admin, a         *)
(* password handed over is the account's, the tabs of a browser share      *)
(* neither settings nor identities, and an operation is begun on what is   *)
(* meant.                                                                  *)
(***************************************************************************)
EXTENDS MCPages, ListProofs, FiniteSetTheorems, TLAPS

-----------------------------------------------------------------------------
(* The library: what the team wears is an icon there is, or a deleted one that *)
(* a draft still named when it was saved.                                      *)

LibraryPast ==
  past = [begun |-> past.begun, newest |-> past.newest, missed |-> past.missed,
          used |-> past.used, revived |-> past.revived]

LibraryInv == LibraryPast /\ Library!LogosAreThere /\ DOMAIN logos = Squads

LEMMA LibraryBegins == ASSUME Library!Init PROVE LibraryInv
<1>1. LibraryPast
  BY DEF Library!Init, LibraryPast
<1>2. logos = Worn /\ Library!Exists = Stocked
  BY DEF Library!Init, Library!Exists
<1>3. Worn \in [Squads -> Stocked \cup Links \cup {None}] /\ None \notin Images /\ Images \cap Links = {}
  BY PagesAssumption DEF Library!LibraryAssumption
<1>4. DOMAIN logos = Squads /\ \A t \in Squads : logos[t] \in Stocked \cup Links \cup {None}
  BY <1>2, <1>3
<1> QED
  BY <1>1, <1>2, <1>3, <1>4 DEF LibraryInv, Library!LogosAreThere, Library!Hosted

LEMMA LibraryRests ==
  ASSUME LibraryInv, UNCHANGED <<icons, logos>>, LibraryPast', past'.revived = past.revived
  PROVE  LibraryInv'
BY DEF LibraryInv, Library!LogosAreThere, Library!Hosted, Library!Exists

\* More icons, and teams that wear those there are or as before.
LEMMA LibraryGrows ==
  ASSUME LibraryInv, DOMAIN icons \subseteq DOMAIN icons', LibraryPast', past'.revived = past.revived,
         DOMAIN logos' = Squads,
         \A t \in Squads : logos'[t] \in DOMAIN icons' \cup {logos[t]}
  PROVE  LibraryInv'
BY DEF LibraryInv, Library!LogosAreThere, Library!Hosted, Library!Exists

LEMMA LibraryPastKept ==
  ASSUME LibraryInv, UNCHANGED past
  PROVE  LibraryPast' /\ past'.revived = past.revived
BY DEF LibraryInv, LibraryPast

LEMMA LibraryPastMissed ==
  ASSUME LibraryInv, NEW m, past' = [past EXCEPT !.missed = m]
  PROVE  LibraryPast' /\ past'.revived = past.revived
BY DEF LibraryInv, LibraryPast

LEMMA LibraryPastBegun ==
  ASSUME LibraryInv, NEW W, Library!Begin(W)
  PROVE  LibraryPast' /\ past'.revived = past.revived
BY DEF LibraryInv, LibraryPast, Library!Begin

LEMMA LibraryPastSeen ==
  ASSUME LibraryInv, NEW l, Library!Seen(l)
  PROVE  LibraryPast' /\ past'.revived = past.revived
BY DEF LibraryInv, LibraryPast, Library!Seen

LEMMA LibraryPastUsed ==
  ASSUME LibraryInv, NEW U, past' = [past EXCEPT !.used = U]
  PROVE  LibraryPast' /\ past'.revived = past.revived
BY DEF LibraryInv, LibraryPast

LEMMA LibraryServes ==
  ASSUME LibraryInv, Library!Server
  PROVE  LibraryInv'
<1>1. ASSUME NEW j \in jobs, Library!ServeSave(j) PROVE LibraryInv'
  <2>1. /\ icons' = icons /\ logos' = [logos EXCEPT ![j.what] = Library!Written(@, j.value)]
        /\ past' = [past EXCEPT !.revived = @ \cup ({j.value} \cap (Images \ DOMAIN icons))]
    BY <1>1 DEF Library!ServeSave, Library!Exists
  <2>2. LibraryPast' /\ past'.revived = past.revived \cup ({j.value} \cap (Images \ DOMAIN icons))
    BY <2>1 DEF LibraryInv, LibraryPast
  <2>3. DOMAIN logos' = Squads
    BY <2>1 DEF LibraryInv
  <2>4. ASSUME NEW t \in Squads PROVE logos'[t] \in {logos[t], j.value}
    BY <2>1, <2>4 DEF LibraryInv, Library!Written
  <2> QED
    BY <2>1, <2>2, <2>3, <2>4 DEF LibraryInv, Library!LogosAreThere, Library!Hosted, Library!Exists
<1>2. ASSUME NEW j \in jobs, Library!ServeUpload(j) PROVE LibraryInv'
  <2>1. icons' = Library!Added /\ logos' = logos /\ LibraryPast' /\ past'.revived = past.revived
    BY <1>2, LibraryPastUsed DEF Library!ServeUpload
  <2>2. DOMAIN icons \subseteq DOMAIN icons'
    BY <2>1 DEF Library!Added, Library!Exists
  <2> QED
    BY <2>1, <2>2, LibraryGrows DEF LibraryInv
<1>3. ASSUME NEW j \in jobs, Library!ServeRename(j) PROVE LibraryInv'
  <2>1. DOMAIN icons' = DOMAIN icons /\ logos' = logos /\ UNCHANGED past
    BY <1>3 DEF Library!ServeRename
  <2> QED
    BY <2>1, LibraryGrows, LibraryPastKept DEF LibraryInv
<1>4. ASSUME NEW j \in jobs, Library!ServeDelete(j) PROVE LibraryInv'
  <2>1. /\ icons' = [k \in DOMAIN icons \ {j.what} |-> icons[k]]
        /\ logos' = [t \in Squads |-> IF logos[t] = j.what THEN None ELSE logos[t]]
        /\ UNCHANGED past
    BY <1>4 DEF Library!ServeDelete, Library!Remove, Library!Exists
  <2>2. LibraryPast' /\ past'.revived = past.revived
    BY <2>1, LibraryPastKept
  <2>3. None \notin Images
    BY PagesAssumption DEF Library!LibraryAssumption
  <2>4. DOMAIN icons' = DOMAIN icons \ {j.what}
    BY <2>1
  <2>5. DOMAIN logos' = Squads /\ \A t \in Squads : logos'[t] = IF logos[t] = j.what THEN None ELSE logos[t]
    BY <2>1
  <2> QED
    BY <2>2, <2>3, <2>4, <2>5 DEF LibraryInv, Library!LogosAreThere, Library!Hosted, Library!Exists
<1>5. ASSUME NEW j \in jobs, NEW t \in Squads, Library!Convert(j, t) PROVE LibraryInv'
  <2>1. /\ icons' = Library!Added /\ logos' = [logos EXCEPT ![t] = Library!Fresh]
        /\ LibraryPast' /\ past'.revived = past.revived
    BY <1>5, LibraryPastUsed DEF Library!Convert
  <2>2. DOMAIN icons' = DOMAIN icons \cup {Library!Fresh}
    BY <2>1 DEF Library!Added, Library!Exists
  <2>3. DOMAIN logos' = Squads /\ \A u \in Squads : logos'[u] \in {Library!Fresh, logos[u]}
    BY <2>1 DEF LibraryInv
  <2> QED
    BY <2>1, <2>2, <2>3, LibraryGrows
<1>6. ASSUME UNCHANGED <<icons, logos, past>> PROVE LibraryInv'
  BY <1>6, LibraryRests, LibraryPastKept
<1>7. ASSUME NEW j \in jobs, Library!BeginImport(j) \/ Library!EndImport(j) PROVE UNCHANGED <<icons, logos, past>>
  BY <1>7 DEF Library!BeginImport, Library!EndImport
<1>8. ASSUME NEW j \in jobs, NEW t \in Squads, Library!PassOver(j, t) \/ Library!ConvertFails(j, t)
      PROVE  UNCHANGED <<icons, logos, past>>
  BY <1>8 DEF Library!PassOver, Library!ConvertFails
<1>9. ASSUME NEW l \in loads, Library!Answer(l) PROVE UNCHANGED <<icons, logos, past>>
  BY <1>9 DEF Library!Answer
<1> QED
  BY <1>1, <1>2, <1>3, <1>4, <1>5, <1>6, <1>7, <1>8, <1>9 DEF Library!Server

LEMMA LibraryAnswers ==
  ASSUME LibraryInv, Library!Network
  PROVE  LibraryInv'
<1>1. ASSUME NEW l \in loads, Library!Land(l) PROVE LibraryInv'
  BY <1>1, LibraryRests, LibraryPastSeen DEF Library!Land
<1>2. ASSUME NEW l \in loads, Library!LoadFails(l) PROVE LibraryInv'
  BY <1>2, LibraryRests, LibraryPastMissed DEF Library!LoadFails
<1>3. ASSUME NEW j \in jobs, Library!Done(j) PROVE LibraryInv'
  BY <1>3, LibraryRests, LibraryPastBegun DEF Library!Done
<1>4. ASSUME NEW j \in jobs, Library!Failed(j) PROVE LibraryInv'
  BY <1>4, LibraryRests, LibraryPastMissed DEF Library!Failed
<1> QED
  BY <1>1, <1>2, <1>3, <1>4 DEF Library!Network, Library!Refuse, Library!JobFails

LEMMA LibraryIsWorked ==
  ASSUME LibraryInv, Library!Operator
  PROVE  LibraryInv'
<1>1. CASE Library!Acts /\ UNCHANGED past
  BY <1>1, LibraryRests, LibraryPastKept DEF Library!Acts
<1>2. CASE Library!OpenPicker
  BY <1>2, LibraryRests, LibraryPastBegun DEF Library!OpenPicker, Library!OnPage, Library!Acts
<1>3. ASSUME NEW yes \in BOOLEAN, Library!Reply(yes) PROVE LibraryInv'
  BY <1>3, LibraryRests, LibraryPastKept DEF Library!Reply
<1>4. ASSUME NEW t \in Squads, Library!ToggleEdit(t) PROVE Library!Acts /\ UNCHANGED past
  BY <1>4 DEF Library!ToggleEdit, Library!OnPage, Library!Quiet
<1>5. CASE Library!TypeLogo \/ Library!SaveTeam \/ Library!PickIcon \/ Library!ClosePicker
  <2>1. Library!Acts /\ UNCHANGED past
    BY <1>5 DEF Library!TypeLogo, Library!SaveTeam, Library!PickIcon, Library!ClosePicker, Library!OnPage, Library!Quiet
  <2> QED
    BY <2>1, <1>1
<1>6. CASE Library!ChooseFile \/ Library!Upload \/ Library!DropFile \/ Library!StartRename \/ Library!Rename \/ Library!DeleteIcon
  <2>1. Library!Acts /\ UNCHANGED past
    BY <1>6 DEF Library!ChooseFile, Library!Upload, Library!DropFile, Library!StartRename, Library!Rename,
                Library!DeleteIcon, Library!OnPage, Library!Quiet
  <2> QED
    BY <2>1, <1>1
<1>7. CASE Library!OpenBatch \/ Library!ToggleBatch \/ Library!RunBatch \/ Library!CloseBatch
  <2>1. Library!Acts /\ UNCHANGED past
    BY <1>7 DEF Library!OpenBatch, Library!ToggleBatch, Library!RunBatch, Library!CloseBatch, Library!OnPage, Library!Quiet
  <2> QED
    BY <2>1, <1>1
<1> QED
  BY <1>1, <1>2, <1>3, <1>4, <1>5, <1>6, <1>7 DEF Library!Operator

LEMMA LibraryKeeps == ASSUME LibraryInv, Library!Next PROVE LibraryInv'
BY LibraryServes, LibraryAnswers, LibraryIsWorked DEF Library!Next

-----------------------------------------------------------------------------
(* The browser: settings stay with whom they are of, but for those from before *)
(* there were accounts, which go to one; and tabs go by identities of their own. *)

Names == Holders \cup {guest}

StoredApart(stored) ==
  /\ DOMAIN stored = Names
  /\ \A s \in Names : DOMAIN stored[s] = Items
  /\ \A s \in Names, k \in Items : stored[s][k] # None => stored[s][k].by \in {s, guest}

\* Nothing of the guest's is an account's before the marker is set, and then it is one's.
GivenOnce(stored, marked) ==
  /\ ~marked => \A a \in Holders : ~Browser!HasGuests(stored, a)
  /\ \A a, b \in Holders : Browser!HasGuests(stored, a) /\ Browser!HasGuests(stored, b) => a = b

ItemsInv ==
  /\ StoredApart(local) /\ failures \in Nat
  /\ failures = 0 => GivenOnce(local, marker)

WhoInv == DOMAIN who = Windows /\ \A t \in Windows : who[t] \in Names

\* Every tab, shown or kept, has the identity that its session has stored.
IdentitiesInv ==
  /\ events \in Nat /\ loose \in BOOLEAN /\ DOMAIN tabs = Windows
  /\ DOMAIN memoryId = Windows /\ saved \in [Windows -> [id : Nat \cup {None}, claimed : BOOLEAN]]
  /\ \A t \in Windows :
       tabs[t] # "none" => memoryId[t] \in 0..events /\ saved[t].id = memoryId[t]
  /\ ~loose => \A t, u \in Windows :
       t # u /\ tabs[t] # "none" /\ tabs[u] # "none" => memoryId[t] # memoryId[u]

BrowserInv == ItemsInv /\ WhoInv /\ IdentitiesInv

LEMMA BrowserBegins == ASSUME Browser!Init PROVE BrowserInv
<1>1. guest \notin Holders
  BY PagesAssumption DEF Browser!BrowserAssumption
<1>2. /\ DOMAIN local = Names
      /\ \A s \in Names : local[s] = IF s = guest THEN [k \in Items |-> [by |-> guest, n |-> 0]] ELSE [k \in Items |-> None]
      /\ failures = 0
  BY DEF Browser!Init, Browser!Scopes, Browser!NoItems, Names
<1>3. StoredApart(local)
  BY <1>2 DEF StoredApart
<1>4. \A a \in Holders : ~Browser!HasGuests(local, a)
  BY <1>1, <1>2 DEF Browser!HasGuests, Names
<1>5. ItemsInv
  BY <1>2, <1>3, <1>4 DEF ItemsInv, GivenOnce
<1>6. WhoInv
  BY DEF Browser!Init, WhoInv, Names
<1>7. IdentitiesInv
  BY DEF Browser!Init, IdentitiesInv, Browser!NoSession
<1> QED
  BY <1>5, <1>6, <1>7 DEF BrowserInv

\* What a migration leaves, whether or not it is refused on the way.
LEMMA MigrationKeeps ==
  ASSUME ItemsInv, NEW s \in Names, NEW m \in Browser!Migrated(s)
  PROVE  /\ StoredApart(m.items)
         /\ m.failed \in BOOLEAN
         /\ failures = 0 /\ ~m.failed => GivenOnce(m.items, m.marker)
<1>1. guest \notin Holders
  BY PagesAssumption DEF Browser!BrowserAssumption
<1> DEFINE filled(K) == Browser!Filled(s, K)
           moved == [filled(Items) EXCEPT ![guest] = Browser!NoItems]
<1>2. ASSUME NEW K \in SUBSET Items
      PROVE  /\ StoredApart(filled(K)) /\ DOMAIN filled(K) = Names
             /\ \A a \in Names \ {s} : filled(K)[a] = local[a]
             /\ filled(K)[s] = [k \in Items |-> IF local[s][k] = None /\ k \in K THEN local[guest][k] ELSE local[s][k]]
  <2>1. /\ DOMAIN filled(K) = Names
        /\ \A a \in Names \ {s} : filled(K)[a] = local[a]
        /\ filled(K)[s] = [k \in Items |-> IF local[s][k] = None /\ k \in K THEN local[guest][k] ELSE local[s][k]]
    BY DEF Browser!Filled, ItemsInv, StoredApart
  <2>2. \A k \in Items : filled(K)[s][k] \in {local[guest][k], local[s][k]}
    BY <2>1
  <2> HIDE DEF filled
  <2>3. guest \in Names
    BY DEF Names
  <2>4. StoredApart(filled(K))
    BY <2>1, <2>2, <2>3 DEF StoredApart, ItemsInv
  <2> QED
    BY <2>1, <2>4
<1>3. CASE s = guest \/ marker
  <2>1. m = [items |-> local, marker |-> marker, failed |-> FALSE]
    BY <1>3 DEF Browser!Migrated, Browser!Outcome
  <2> QED
    BY <2>1 DEF ItemsInv
<1>4. CASE s # guest /\ ~marker
  <2>1. \/ m = [items |-> moved, marker |-> TRUE, failed |-> FALSE]
        \/ m = [items |-> moved, marker |-> FALSE, failed |-> TRUE]
        \/ \E K \in SUBSET Items : m = [items |-> filled(K), marker |-> FALSE, failed |-> TRUE]
    BY <1>4 DEF Browser!Migrated, Browser!Outcome
  <2>2. /\ DOMAIN moved = Names /\ moved[guest] = [k \in Items |-> None]
        /\ \A a \in Names \ {guest} : moved[a] = filled(Items)[a]
    <3>1. DOMAIN filled(Items) = Names /\ guest \in Names
      BY <1>2 DEF Names
    <3> HIDE DEF filled
    <3> QED
      BY <3>1 DEF Browser!NoItems
  <2>3. StoredApart(moved)
    <3>1. StoredApart(filled(Items))
      BY <1>2
    <3> HIDE DEF moved, filled
    <3> QED
      BY <2>2, <3>1 DEF StoredApart
  <2>4. ASSUME failures = 0 PROVE GivenOnce(moved, TRUE)
    <3>1. \A a \in Holders \ {s} : moved[a] = local[a]
      <4>1. \A a \in Holders : a # guest /\ a \in Names
        BY <1>1 DEF Names
      <4>2. \A a \in Names \ {s} : filled(Items)[a] = local[a]
        <5>1. Items \in SUBSET Items
          OBVIOUS
        <5> HIDE DEF filled
        <5> QED
          BY <1>2, <5>1
      <4> HIDE DEF moved, filled
      <4> QED
        BY <2>2, <4>1, <4>2
    <3>2. \A a \in Holders : ~Browser!HasGuests(local, a)
      BY <1>4, <2>4 DEF ItemsInv, GivenOnce
    <3> HIDE DEF moved
    <3>3. \A a \in Holders \ {s} : ~Browser!HasGuests(moved, a)
      BY <3>1, <3>2 DEF Browser!HasGuests
    <3> QED
      BY <3>3 DEF GivenOnce
  <2> HIDE DEF moved, filled
  <2>5. CASE m = [items |-> moved, marker |-> TRUE, failed |-> FALSE]
    <3>1. m.items = moved /\ m.marker = TRUE /\ m.failed = FALSE
      BY <2>5
    <3> QED
      BY <2>3, <2>4, <3>1
  <2>6. CASE m = [items |-> moved, marker |-> FALSE, failed |-> TRUE]
    <3>1. m.items = moved /\ m.failed = TRUE
      BY <2>6
    <3> QED
      BY <2>3, <3>1
  <2>7. ASSUME NEW K \in SUBSET Items, m = [items |-> filled(K), marker |-> FALSE, failed |-> TRUE]
        PROVE  StoredApart(m.items) /\ m.failed = TRUE
    <3>1. m.items = filled(K) /\ m.failed = TRUE
      BY <2>7
    <3> QED
      BY <1>2, <3>1
  <2> QED
    BY <2>1, <2>5, <2>6, <2>7
<1> QED
  BY <1>3, <1>4

LEMMA BrowserReads ==
  ASSUME ItemsInv, NEW t, NEW s \in Names, NEW told, Browser!ReadAll(t, s, told)
  PROVE  ItemsInv'
<1>1. PICK m \in Browser!Migrated(s) : /\ Browser!Fails(m.failed)
                                      /\ local' = m.items /\ marker' = m.marker
  BY DEF Browser!ReadAll
<1>2. failures' = IF m.failed THEN failures + 1 ELSE failures
  BY <1>1 DEF Browser!Fails
<1>3. failures \in Nat
  BY DEF ItemsInv
<1>4. /\ StoredApart(m.items) /\ m.failed \in BOOLEAN
      /\ failures = 0 /\ ~m.failed => GivenOnce(m.items, m.marker)
  BY MigrationKeeps
<1>5. failures' \in Nat /\ (failures' = 0 => failures = 0 /\ ~m.failed)
  BY <1>2, <1>3, <1>4
<1>6. StoredApart(local')
  BY <1>1, <1>4
<1>7. failures' = 0 => GivenOnce(local', marker')
  BY <1>1, <1>4, <1>5
<1> QED
  BY <1>5, <1>6, <1>7 DEF ItemsInv, StoredApart, GivenOnce, Browser!HasGuests

\* The setting that is written is of whom the tab is for.
LEMMA BrowserSets ==
  ASSUME BrowserInv, NEW t \in Windows, NEW k \in Items, Browser!SetSetting(t, k)
  PROVE  ItemsInv'
<1> DEFINE s == Browser!Scope(t)
           new == [by |-> s, n |-> events + 1]
<1>1. s \in Names
  BY DEF Browser!Scope, BrowserInv, WhoInv, Names
<1>2. PICK m \in Browser!Migrated(s), written \in BOOLEAN :
        /\ Browser!Fails(m.failed \/ ~written)
        /\ local' = IF written THEN [m.items EXCEPT ![s][k] = new] ELSE m.items
        /\ marker' = m.marker
  BY DEF Browser!SetSetting
<1>3. failures \in Nat /\ ItemsInv
  BY DEF BrowserInv, ItemsInv
<1> HIDE DEF s
<1>4. /\ StoredApart(m.items) /\ m.failed \in BOOLEAN
      /\ failures = 0 /\ ~m.failed => GivenOnce(m.items, m.marker)
  BY <1>1, <1>3, MigrationKeeps
<1>5. failures' = IF m.failed \/ ~written THEN failures + 1 ELSE failures
  BY <1>2 DEF Browser!Fails
<1>6. failures' \in Nat /\ (failures' = 0 => failures = 0 /\ ~m.failed)
  BY <1>3, <1>4, <1>5
<1>7. CASE ~written
  <2>1. local' = m.items
    BY <1>2, <1>7
  <2>2. StoredApart(local') /\ (failures' = 0 => GivenOnce(local', marker'))
    BY <1>2, <1>4, <1>6, <2>1
  <2> QED
    BY <1>6, <2>2 DEF ItemsInv, StoredApart, GivenOnce, Browser!HasGuests
<1>8. CASE written
  <2>1. local' = [m.items EXCEPT ![s][k] = new]
    BY <1>2, <1>8
  <2>2. /\ DOMAIN local' = Names /\ \A a \in Names \ {s} : local'[a] = m.items[a]
        /\ DOMAIN local'[s] = Items /\ local'[s][k] = new
        /\ \A i \in Items \ {k} : local'[s][i] = m.items[s][i]
    BY <1>1, <1>4, <2>1 DEF StoredApart
  <2>3. new.by = s
    OBVIOUS
  <2> HIDE DEF new
  <2>4. StoredApart(local')
    BY <1>1, <1>4, <2>2, <2>3 DEF StoredApart
  <2>5. \A a \in Holders : Browser!HasGuests(local', a) => Browser!HasGuests(m.items, a)
    <3>1. guest \notin Holders
      BY PagesAssumption DEF Browser!BrowserAssumption
    <3>2. \A a \in Holders : a \in Names /\ a # guest
      BY <3>1 DEF Names
    <3> QED
      BY <2>2, <2>3, <3>2 DEF Browser!HasGuests
  <2>6. failures' = 0 => GivenOnce(local', marker')
    BY <1>2, <1>4, <1>6, <2>5 DEF GivenOnce
  <2> QED
    BY <1>6, <2>4, <2>6 DEF ItemsInv, StoredApart, GivenOnce, Browser!HasGuests
<1> QED
  BY <1>7, <1>8

\* A page that is loaded takes the stored identity if it is its own, or else a new one.
LEMMA BrowserLoads ==
  ASSUME BrowserInv, NEW t \in Windows, NEW kept \in [id : Nat \cup {None}, claimed : BOOLEAN],
         NEW to, NEW user \in Names, Browser!Loaded(t, kept, to, user),
         loose' \in BOOLEAN, loose => loose', kept.id # None => kept.id \in 0..events,
         ~loose' /\ kept.id # None /\ ~kept.claimed => tabs[t] # "none" /\ kept.id = memoryId[t]
  PROVE  BrowserInv'
<1> DEFINE id == Browser!Id(kept)
<1>1. /\ events' = events + 1 /\ tabs' = [tabs EXCEPT ![t] = "shown"]
      /\ memoryId' = [memoryId EXCEPT ![t] = id]
      /\ saved' = [saved EXCEPT ![t] = [id |-> id, claimed |-> TRUE]]
      /\ who' = [who EXCEPT ![t] = user]
  BY DEF Browser!Loaded, Browser!Event
<1>2. PICK s \in Names : Browser!ReadAll(t, s, {})
  BY DEF Browser!Loaded, Names
<1>3. ItemsInv'
  BY <1>2, BrowserReads DEF BrowserInv
<1>4. WhoInv'
  BY <1>1 DEF BrowserInv, WhoInv
<1>5. IF kept.id # None /\ ~kept.claimed THEN id = kept.id ELSE id = events + 1
  BY DEF Browser!Id
<1> HIDE DEF id
<1>6. events \in Nat /\ None \notin Nat
  BY PagesAssumption DEF Browser!BrowserAssumption, BrowserInv, IdentitiesInv
<1>7. id \in 0..events'
  BY <1>1, <1>5, <1>6
<1>8. /\ DOMAIN tabs' = Windows /\ DOMAIN memoryId' = Windows
      /\ saved' \in [Windows -> [id : Nat \cup {None}, claimed : BOOLEAN]]
  BY <1>1, <1>6, <1>7 DEF BrowserInv, IdentitiesInv
<1>9. /\ tabs'[t] = "shown" /\ memoryId'[t] = id /\ saved'[t].id = id
      /\ \A u \in Windows \ {t} : tabs'[u] = tabs[u] /\ memoryId'[u] = memoryId[u] /\ saved'[u] = saved[u]
  BY <1>1 DEF BrowserInv, IdentitiesInv
<1>10. ASSUME NEW u \in Windows, tabs'[u] # "none" PROVE memoryId'[u] \in 0..events' /\ saved'[u].id = memoryId'[u]
  <2>1. CASE u = t
    BY <1>7, <1>9, <2>1
  <2>2. CASE u # t
    <3>1. memoryId'[u] \in 0..events /\ saved'[u].id = memoryId'[u]
      BY <1>9, <1>10, <2>2 DEF BrowserInv, IdentitiesInv
    <3> QED
      BY <1>1, <1>6, <3>1
  <2> QED
    BY <2>1, <2>2
<1>11. ASSUME ~loose', NEW u \in Windows \ {t}, tabs'[u] # "none" PROVE memoryId'[u] # id
  <2>1. ~loose /\ tabs[u] # "none" /\ memoryId'[u] = memoryId[u] /\ memoryId[u] \in 0..events
    BY <1>9, <1>11 DEF BrowserInv, IdentitiesInv
  <2>2. CASE kept.id # None /\ ~kept.claimed
    <3>1. tabs[t] # "none" /\ id = memoryId[t]
      BY <1>5, <1>11, <2>2
    <3> QED
      BY <2>1, <3>1 DEF BrowserInv, IdentitiesInv
  <2>3. CASE ~(kept.id # None /\ ~kept.claimed)
    BY <1>5, <1>6, <2>1, <2>3
  <2> QED
    BY <2>2, <2>3
<1>12. ASSUME ~loose', NEW u \in Windows, NEW v \in Windows, u # v, tabs'[u] # "none", tabs'[v] # "none"
       PROVE  memoryId'[u] # memoryId'[v]
  <2>1. CASE u = t \/ v = t
    BY <1>9, <1>11, <1>12, <2>1
  <2>2. CASE u # t /\ v # t
    BY <1>9, <1>12, <2>2 DEF BrowserInv, IdentitiesInv
  <2> QED
    BY <2>1, <2>2
<1>13. IdentitiesInv'
  BY <1>1, <1>6, <1>8, <1>10, <1>12 DEF IdentitiesInv
<1> QED
  BY <1>3, <1>4, <1>13 DEF BrowserInv

LEMMA BrowserKeeps == ASSUME BrowserInv, Browser!Next PROVE BrowserInv'
<1>1. PICK t \in Windows :
        \/ \E k \in Items : Browser!SetSetting(t, k)
        \/ Browser!Hear(t)
        \/ \E to \in BOOLEAN, user \in Names : Browser!Route(t, to, user) \/ Browser!Open(t, to, user)
        \/ \E u \in Windows : Browser!Duplicate(t, u)
        \/ Browser!Reload(t) \/ Browser!Leave(t) \/ Browser!Return(t) \/ Browser!Close(t)
  BY DEF Browser!Next, Browser!Scopes, Names
<1>2. /\ events \in Nat /\ None \notin Nat /\ failures \in Nat /\ ItemsInv /\ loose \in BOOLEAN
      /\ Browser!Scope(t) \in Names /\ who[t] \in Names
  BY PagesAssumption DEF Browser!BrowserAssumption, BrowserInv, IdentitiesInv, ItemsInv, WhoInv, Browser!Scope, Names
<1>3. ASSUME events' \in {events, events + 1}, UNCHANGED <<tabs, memoryId, saved, loose>> PROVE IdentitiesInv'
  BY <1>2, <1>3 DEF BrowserInv, IdentitiesInv
<1>4. ASSUME NEW k \in Items, Browser!SetSetting(t, k) PROVE BrowserInv'
  <2>1. UNCHANGED <<tabs, memoryId, saved, loose, who>> /\ events' = events + 1
    BY <1>4 DEF Browser!SetSetting, Browser!Event, Browser!identity
  <2> QED
    BY <1>3, <1>4, <2>1, BrowserSets DEF BrowserInv, WhoInv
<1>5. CASE Browser!Hear(t)
  <2>1. UNCHANGED <<tabs, memoryId, saved, loose, who, events>>
    BY <1>5 DEF Browser!Hear, Browser!identity
  <2>2. ItemsInv'
    <3>1. CASE UNCHANGED <<local, marker, failures>>
      BY <3>1, <1>2 DEF ItemsInv, StoredApart, GivenOnce, Browser!HasGuests
    <3>2. ASSUME NEW s \in inbox[t], s = Browser!Scope(t), Browser!ReadAll(t, s, inbox[t] \ {s}) PROVE ItemsInv'
      BY <3>2, <1>2, BrowserReads
    <3> QED
      BY <3>1, <3>2, <1>5 DEF Browser!Hear, Browser!shared
  <2> QED
    BY <1>3, <2>1, <2>2 DEF BrowserInv, WhoInv
<1>6. ASSUME NEW to \in BOOLEAN, NEW user \in Names, Browser!Route(t, to, user) PROVE BrowserInv'
  <2>1. UNCHANGED <<tabs, memoryId, saved, loose>> /\ events' = events + 1 /\ who' = [who EXCEPT ![t] = user]
    BY <1>6 DEF Browser!Route, Browser!Event, Browser!identity
  <2>2. ItemsInv'
    <3>1. CASE UNCHANGED <<local, marker, failures>>
      BY <3>1, <1>2 DEF ItemsInv, StoredApart, GivenOnce, Browser!HasGuests
    <3>2. ASSUME NEW s \in Names, Browser!ReadAll(t, s, {}) PROVE ItemsInv'
      BY <3>2, <1>2, BrowserReads
    <3>3. (IF to THEN guest ELSE user) \in Names
      BY DEF Names
    <3> QED
      BY <3>1, <3>2, <3>3, <1>6 DEF Browser!Route, Browser!shared
  <2>3. WhoInv'
    BY <2>1 DEF BrowserInv, WhoInv
  <2> QED
    BY <1>3, <2>1, <2>2, <2>3 DEF BrowserInv
<1>7. ASSUME NEW to \in BOOLEAN, NEW user \in Names, Browser!Open(t, to, user) PROVE BrowserInv'
  <2> DEFINE kept == [id |-> None, claimed |-> FALSE]
  <2>1. Browser!Loaded(t, kept, to, user) /\ loose' = loose
    BY <1>7 DEF Browser!Open, Browser!NoSession
  <2>2. kept \in [id : Nat \cup {None}, claimed : BOOLEAN] /\ kept.id = None
    OBVIOUS
  <2> HIDE DEF kept
  <2> QED
    BY <1>2, <2>1, <2>2, BrowserLoads
<1>8. ASSUME NEW u \in Windows, Browser!Duplicate(t, u) PROVE BrowserInv'
  <2>1. /\ Browser!Loaded(u, saved[t], link[t], who[t]) /\ loose' = (loose \/ ~saved[t].claimed)
        /\ tabs[t] # "none"
    BY <1>8 DEF Browser!Duplicate
  <2>2. saved[t] \in [id : Nat \cup {None}, claimed : BOOLEAN] /\ saved[t].id \in 0..events
    BY <2>1 DEF BrowserInv, IdentitiesInv
  <2>3. loose' \in BOOLEAN /\ (loose => loose') /\ (~loose' => saved[t].claimed)
    BY <1>2, <2>1
  <2> QED
    BY <1>2, <2>1, <2>2, <2>3, BrowserLoads
<1>9. CASE Browser!Reload(t)
  <2>1. PICK kept \in {Browser!Released(t), saved[t]} : Browser!Loaded(t, kept, link[t], who[t])
    BY <1>9 DEF Browser!Reload
  <2>2. loose' = loose /\ tabs[t] # "none"
    BY <1>9 DEF Browser!Reload
  <2>3. saved[t] \in [id : Nat \cup {None}, claimed : BOOLEAN] /\ saved[t].id = memoryId[t] /\ memoryId[t] \in 0..events
    BY <2>2 DEF BrowserInv, IdentitiesInv
  <2>4. kept \in [id : Nat \cup {None}, claimed : BOOLEAN] /\ kept.id = saved[t].id
    BY <2>3 DEF Browser!Released
  <2> QED
    BY <1>2, <2>1, <2>2, <2>3, <2>4, BrowserLoads
<1>10. ASSUME UNCHANGED <<local, marker, failures, who, loose>>, events' \in {events, events + 1}, IdentitiesInv'
       PROVE  BrowserInv'
  BY <1>2, <1>10 DEF BrowserInv, WhoInv, ItemsInv, StoredApart, GivenOnce, Browser!HasGuests
<1>11. CASE Browser!Leave(t)
  <2>1. /\ tabs[t] # "none" /\ tabs' = [tabs EXCEPT ![t] = "kept"] /\ events' = events + 1
        /\ saved' = [saved EXCEPT ![t] = [saved[t] EXCEPT !.claimed = FALSE]]
        /\ UNCHANGED <<local, marker, failures, who, loose, memoryId>>
    BY <1>11 DEF Browser!Leave, Browser!Shown, Browser!Event, Browser!Released, Browser!shared
  <2>2. saved[t] \in [id : Nat \cup {None}, claimed : BOOLEAN]
    BY DEF BrowserInv, IdentitiesInv
  <2>3. [saved[t] EXCEPT !.claimed = FALSE] \in [id : Nat \cup {None}, claimed : BOOLEAN]
        /\ [saved[t] EXCEPT !.claimed = FALSE].id = saved[t].id
    BY <2>2
  <2>4. IdentitiesInv'
    BY <1>2, <2>1, <2>3 DEF BrowserInv, IdentitiesInv
  <2> QED
    BY <1>10, <2>1, <2>4
<1>12. CASE Browser!Return(t)
  <2>1. /\ tabs[t] # "none" /\ tabs' = [tabs EXCEPT ![t] = "shown"]
        /\ UNCHANGED <<local, marker, failures, who, loose, memoryId, saved, events>>
    BY <1>12 DEF Browser!Return, Browser!shared, Browser!view, Browser!identity
  <2>2. IdentitiesInv'
    BY <1>2, <2>1 DEF BrowserInv, IdentitiesInv
  <2> QED
    BY <1>10, <2>1, <2>2
<1>13. CASE Browser!Close(t)
  <2>1. /\ tabs' = [tabs EXCEPT ![t] = "none"] /\ memoryId' = [memoryId EXCEPT ![t] = None]
        /\ saved' = [saved EXCEPT ![t] = [id |-> None, claimed |-> FALSE]]
        /\ UNCHANGED <<local, marker, failures, who, loose, events>>
    BY <1>13 DEF Browser!Close, Browser!NoSession, Browser!shared
  <2>2. IdentitiesInv'
    BY <1>2, <2>1 DEF BrowserInv, IdentitiesInv
  <2> QED
    BY <1>10, <2>1, <2>2
<1> QED
  BY <1>1, <1>4, <1>5, <1>6, <1>7, <1>8, <1>9, <1>11, <1>12, <1>13

LEMMA BrowserShows == ASSUME BrowserInv PROVE Browser!ScopesStayApart /\ Browser!IdsStayApart
<1>1. Browser!IdsStayApart
  BY DEF BrowserInv, IdentitiesInv, Browser!IdsStayApart, Browser!Shown
<1>2. Browser!Scopes = Names
  BY DEF Browser!Scopes, Names
<1>3. Browser!ScopesStayApart
  BY <1>2 DEF BrowserInv, ItemsInv, StoredApart, GivenOnce, Browser!ScopesStayApart
<1> QED
  BY <1>1, <1>3

-----------------------------------------------------------------------------
(* The accounts: an admin remains, and a password on the page is the account's. *)

UserSet == [admin : BOOLEAN, active : BOOLEAN, password : Nat, must : BOOLEAN]
Table(us) == DOMAIN us \subseteq People /\ us \in [DOMAIN us -> UserSet]

JobKinds == {"create", "reset", "role", "active", "delete", "registration"}
JobSet == [kind : JobKinds, who : People \cup {None}, value : BOOLEAN \cup {None}, by : Staff,
           id : Nat \ {0}, stage : {"sent", "checked", "done"}]

\* The other admin only takes away; what is checked before it is written takes away.
JobIsSound(j, upto) ==
  /\ j \in JobSet /\ j.id <= upto
  /\ j.kind \in {"create", "role", "active"} => j.value \in BOOLEAN
  /\ j.kind = "create" => j.who \in People
  /\ j.stage = "checked" => Users!Removes(j)
  /\ j.by # me => j.kind \in {"role", "delete"}

LoadIsSound(l, upto) ==
  /\ l = [number |-> l.number, for |-> l.for, kind |-> l.kind, users |-> l.users, open |-> l.open]
  /\ l.for \in 0..upto
  /\ l.users = None \/ Table(l.users)

UsersPast ==
  /\ past = [begun |-> past.begun, newest |-> past.newest, missed |-> past.missed,
             elsewhere |-> past.elsewhere, overlapped |-> past.overlapped]
  /\ past.missed \in BOOLEAN /\ past.overlapped \in BOOLEAN

ShapesInv ==
  /\ Table(users) /\ Table(listed) /\ events \in Nat /\ UsersPast
  /\ \A j \in jobs : JobIsSound(j, events)
  /\ \A l \in loads : LoadIsSound(l, events)
  /\ asked # None => JobIsSound(asked, events) /\ asked.by = me /\ asked.stage = "sent" /\ asked.kind \notin {"create", "reset"}

\* Whoever has been found not to be the last admin still has another beside them.
AdminInv ==
  ~past.overlapped =>
    /\ Users!SomeoneAdministers
    /\ \A j \in jobs : j.stage = "checked" => \E a \in Users!Usable(users) : a # j.who

\* The page does one thing at a time: one job, or the read that follows it.
BusyInv ==
  /\ \A j \in jobs : j.by = me <=> busy = j.id
  /\ busy = None \/ busy \in 1..events
  /\ \A j, k \in jobs : j.by = me /\ k.by = me => j = k
  /\ \A j \in jobs, l \in loads : j.by = me => l.for # j.id
  /\ asked # None => /\ busy = None
                     /\ \A j \in jobs : j.id # asked.id
                     /\ \A l \in loads : l.for # asked.id

\* The password of a user is the one on the page, or one whose answer is on its way.
PasswordInv ==
  /\ \A j \in jobs : j.kind = "create" => tempCred = None
  /\ \A j \in jobs : j.kind \in {"create", "reset"} /\ j.stage = "done" /\ j.who \in DOMAIN users =>
       users[j.who].password = j.id
  /\ tempCred # None /\ ~past.missed /\ tempCred.user \in DOMAIN users =>
       \/ users[tempCred.user].password = tempCred.password
       \/ \E j \in jobs : j.kind = "reset" /\ j.stage = "done" /\ j.who = tempCred.user

UsersInv == ShapesInv /\ AdminInv /\ BusyInv /\ PasswordInv

LEMMA UsersConstants == None \notin Nat /\ None \notin People /\ me \in Staff
BY PagesAssumption DEF Users!AdminUsersAssumption

LEMMA UsersBegins == ASSUME Users!Init PROVE UsersInv
<1>1. /\ Staff \cup Members \subseteq People /\ me \in Staff
  BY PagesAssumption DEF Users!AdminUsersAssumption
<1>2. /\ users = [a \in Staff \cup Members |-> [admin |-> a \in Staff, active |-> TRUE, password |-> 0, must |-> FALSE]]
      /\ listed = users /\ jobs = {} /\ loads = {} /\ asked = None /\ tempCred = None /\ events = 0 /\ busy = None
      /\ past = [begun |-> 1, newest |-> 1, missed |-> FALSE, elsewhere |-> FALSE, overlapped |-> FALSE]
  BY DEF Users!Init
<1>3. \A a \in Staff \cup Members :
        [admin |-> a \in Staff, active |-> TRUE, password |-> 0, must |-> FALSE] \in UserSet
  BY DEF UserSet
<1>4. DOMAIN users = Staff \cup Members /\ users \in [Staff \cup Members -> UserSet]
  BY <1>2, <1>3
<1>5. Table(users)
  BY <1>1, <1>4 DEF Table
<1>6. me \in Users!Usable(users)
  BY <1>1, <1>2 DEF Users!Usable
<1>7. ShapesInv
  BY <1>2, <1>5 DEF ShapesInv, UsersPast
<1>8. AdminInv
  BY <1>2, <1>6 DEF AdminInv, Users!SomeoneAdministers
<1>9. BusyInv /\ PasswordInv
  BY <1>2 DEF BusyInv, PasswordInv
<1> QED
  BY <1>7, <1>8, <1>9 DEF UsersInv

\* What is remembered may only get more of what was missed.
PastGoesOn == UsersPast' /\ past'.overlapped = past.overlapped /\ (past.missed => past'.missed)

LEMMA PastRests == ASSUME UsersInv, UNCHANGED past PROVE PastGoesOn
BY DEF UsersInv, ShapesInv, PastGoesOn, UsersPast

LEMMA PastMisses ==
  ASSUME UsersInv, NEW m \in BOOLEAN, past' = [past EXCEPT !.missed = @ \/ m]
  PROVE  PastGoesOn /\ (m => past'.missed)
BY DEF UsersInv, ShapesInv, PastGoesOn, UsersPast

LEMMA PastReadsLate ==
  ASSUME UsersInv, NEW n, past' = [past EXCEPT !.newest = IF @ < n THEN n ELSE @, !.missed = @ \/ n < past.newest]
  PROVE  PastGoesOn
BY DEF UsersInv, ShapesInv, PastGoesOn, UsersPast

LEMMA PastBegins ==
  ASSUME UsersInv, NEW b, past' = [past EXCEPT !.begun = b]
  PROVE  PastGoesOn
BY DEF UsersInv, ShapesInv, PastGoesOn, UsersPast

\* Reads come, go and are answered; those that go may free the page.
LEMMA UsersRead ==
  ASSUME UsersInv, UNCHANGED <<users, jobs, tempCred, asked, events>>, Table(listed'), PastGoesOn,
         \A l \in loads' : LoadIsSound(l, events) /\ (l.for = 0 \/ \E m \in loads : m.for = l.for),
         busy' = busy \/ \E l \in loads : busy' = Users!Freed(l.for)
  PROVE  UsersInv'
<1>1. ShapesInv'
  BY DEF UsersInv, ShapesInv, PastGoesOn, JobIsSound, LoadIsSound, Table
<1>2. AdminInv'
  BY DEF UsersInv, AdminInv, PastGoesOn, Users!SomeoneAdministers, Users!Usable
<1>3. \A j \in jobs : j.id \in Nat /\ j.id # 0
  BY DEF UsersInv, ShapesInv, JobIsSound, JobSet
<1>4. asked # None => asked.id # 0
  BY DEF UsersInv, ShapesInv, JobIsSound, JobSet
<1>5. \A j \in jobs : j.by = me <=> busy' = j.id
  BY <1>3, UsersConstants DEF UsersInv, BusyInv, Users!Freed
<1>6. /\ asked # None => busy' = None
      /\ busy' = None \/ busy' \in 1..events
  BY DEF UsersInv, BusyInv, Users!Freed
<1>7. BusyInv'
  BY <1>3, <1>4, <1>5, <1>6 DEF UsersInv, BusyInv
<1>8. PasswordInv'
  BY DEF UsersInv, PasswordInv, PastGoesOn
<1> QED
  BY <1>1, <1>2, <1>7, <1>8 DEF UsersInv

LEMMA UsersReads ==
  ASSUME UsersInv, NEW l \in loads,
         \/ Users!AnswerUsers(l) \/ Users!AnswerOpen(l) \/ Users!Land(l)
         \/ Users!RefreshLands(l) \/ Users!LoadRefused(l) \/ Users!LoadFails(l)
  PROVE  UsersInv'
<1>1. /\ Table(users) /\ Table(listed) /\ events \in Nat
      /\ \A m \in loads : LoadIsSound(m, events)
  BY DEF UsersInv, ShapesInv
<1>2. CASE Users!AnswerUsers(l)
  <2>1. /\ loads' = (loads \ {l}) \cup {[l EXCEPT !.users = users]}
        /\ UNCHANGED <<users, jobs, tempCred, asked, events, listed, past, busy>>
    BY <1>2 DEF Users!AnswerUsers, Users!server, Users!page
  <2>2. LoadIsSound([l EXCEPT !.users = users], events) /\ [l EXCEPT !.users = users].for = l.for
    BY <1>1 DEF LoadIsSound
  <2>3. Table(listed') /\ PastGoesOn
    BY <1>1, <2>1, PastRests
  <2> QED
    BY <1>1, <2>1, <2>2, <2>3, UsersRead
<1>3. CASE Users!AnswerOpen(l)
  <2>1. /\ loads' = (loads \ {l}) \cup {[l EXCEPT !.open = open]}
        /\ UNCHANGED <<users, jobs, tempCred, asked, events, listed, past, busy>>
    BY <1>3 DEF Users!AnswerOpen, Users!server, Users!page
  <2>2. LoadIsSound([l EXCEPT !.open = open], events) /\ [l EXCEPT !.open = open].for = l.for
    BY <1>1 DEF LoadIsSound
  <2>3. Table(listed') /\ PastGoesOn
    BY <1>1, <2>1, PastRests
  <2> QED
    BY <1>1, <2>1, <2>2, <2>3, UsersRead
<1>4. CASE Users!Land(l)
  <2>1. /\ loads' = loads \ {l} /\ listed' = l.users /\ l.users # None /\ busy' = Users!Freed(l.for)
        /\ UNCHANGED <<users, jobs, tempCred, asked, events>>
    BY <1>4 DEF Users!Land, Users!server
  <2>2. Table(listed')
    BY <1>1, <2>1 DEF LoadIsSound
  <2>3. PastGoesOn
    BY <1>4, PastReadsLate DEF Users!Land
  <2> QED
    BY <1>1, <2>1, <2>2, <2>3, UsersRead
<1>5. CASE Users!RefreshLands(l)
  <2> DEFINE next == [number |-> past.begun + 1, for |-> 0, kind |-> "load", users |-> None, open |-> None]
  <2>1. /\ loads' \subseteq (loads \ {l}) \cup {next} /\ busy' = Users!Freed(l.for)
        /\ UNCHANGED <<users, jobs, tempCred, asked, events, listed>>
        /\ \/ past' = [past EXCEPT !.begun = @ + 1] \/ UNCHANGED past
    BY <1>5 DEF Users!RefreshLands, Users!server
  <2>2. LoadIsSound(next, events) /\ next.for = 0
    BY <1>1 DEF LoadIsSound
  <2>3. PastGoesOn
    BY <2>1, PastRests, PastBegins
  <2> HIDE DEF next
  <2>4. Table(listed')
    BY <1>1, <2>1
  <2> QED
    BY <1>1, <2>1, <2>2, <2>3, <2>4, UsersRead
<1>6. CASE Users!LoadRefused(l)
  <2>1. /\ loads' = loads \ {l} /\ busy' = Users!Freed(l.for)
        /\ UNCHANGED <<users, jobs, tempCred, asked, events, listed, past>>
    BY <1>6 DEF Users!LoadRefused, Users!server
  <2>2. Table(listed') /\ PastGoesOn
    BY <1>1, <2>1, PastRests
  <2> QED
    BY <1>1, <2>1, <2>2, UsersRead
<1>7. CASE Users!LoadFails(l)
  <2>1. /\ loads' = loads \ {l} /\ busy' = Users!Freed(l.for) /\ past' = [past EXCEPT !.missed = TRUE]
        /\ UNCHANGED <<users, jobs, tempCred, asked, events, listed>>
    BY <1>7 DEF Users!LoadFails, Users!server
  <2>2. PastGoesOn
    BY <2>1 DEF UsersInv, ShapesInv, PastGoesOn, UsersPast
  <2>3. Table(listed')
    BY <1>1, <2>1
  <2> QED
    BY <1>1, <2>1, <2>2, <2>3, UsersRead
<1> QED
  BY <1>2, <1>3, <1>4, <1>5, <1>6, <1>7

\* What is begun: a job of a number that no other has, the page's own if it is free.
LEMMA UsersBegin ==
  ASSUME UsersInv, NEW j \in JobSet, UNCHANGED <<users, past, loads, listed>>, jobs' = jobs \cup {j},
         asked' \in {asked, None},
         JobIsSound(j, events'), j.stage = "sent", events' \in {events, events + 1},
         asked' # None => j.id # asked.id,
         \A k \in jobs : k.id # j.id,
         \A l \in loads : l.for # j.id,
         IF j.by = me THEN busy = None /\ busy' = j.id /\ asked' = None ELSE busy' = busy /\ busy # j.id,
         tempCred' \in {None, tempCred}, j.kind = "create" => tempCred' = None
  PROVE  UsersInv'
<1>1. events \in Nat /\ events' \in Nat /\ events <= events'
  BY DEF UsersInv, ShapesInv
<1>2. \A k \in jobs : JobIsSound(k, events')
  BY <1>1 DEF UsersInv, ShapesInv, JobIsSound, JobSet, Users!Removes
<1>3. \A l \in loads : LoadIsSound(l, events')
  BY <1>1 DEF UsersInv, ShapesInv, LoadIsSound, Table
<1>4. asked' # None => asked' = asked /\ JobIsSound(asked, events')
  BY <1>1 DEF UsersInv, ShapesInv, JobIsSound, JobSet, Users!Removes
<1>5. ShapesInv'
  BY <1>1, <1>2, <1>3, <1>4 DEF UsersInv, ShapesInv, UsersPast, Table
<1>6. AdminInv'
  BY DEF UsersInv, AdminInv, Users!SomeoneAdministers, Users!Usable
<1>7. BusyInv'
  <2> j.id \in 1..events' /\ (busy = None \/ busy \in 1..events')
    BY <1>1 DEF UsersInv, BusyInv, JobIsSound, JobSet
  <2>1. CASE j.by = me
    <3>1. \A k \in jobs : k.by # me /\ k.id # busy'
      BY <2>1, UsersConstants DEF UsersInv, ShapesInv, BusyInv, JobIsSound, JobSet
    <3> QED
      BY <2>1, <3>1 DEF UsersInv, BusyInv
  <2>2. CASE j.by # me
    BY <2>2 DEF UsersInv, BusyInv
  <2> QED
    BY <2>1, <2>2
<1>8. PasswordInv'
  BY DEF UsersInv, PasswordInv
<1> QED
  BY <1>5, <1>6, <1>7, <1>8 DEF UsersInv

\* A number that nothing has: the next.
LEMMA UsersNumber ==
  ASSUME UsersInv
  PROVE  /\ events \in Nat
         /\ \A k \in jobs : k.id # events + 1
         /\ \A l \in loads : l.for # events + 1
         /\ asked # None => asked.id # events + 1
         /\ \A k \in jobs : k.by = me => busy # None
         /\ busy # events + 1
BY UsersConstants DEF UsersInv, ShapesInv, JobIsSound, JobSet, LoadIsSound, BusyInv

LEMMA UsersAsk ==
  ASSUME UsersInv, NEW j, JobIsSound(j, events'), j.stage = "sent", j.by = me, j.kind \notin {"create", "reset"},
         j.id = events + 1, events' = events + 1, busy = None, asked' = j,
         UNCHANGED <<users, listed, past, jobs, loads, busy, tempCred>>
  PROVE  UsersInv'
<1>1. events \in Nat /\ events' \in Nat /\ events <= events'
  BY DEF UsersInv, ShapesInv
<1>2. \A k \in jobs : JobIsSound(k, events')
  BY <1>1 DEF UsersInv, ShapesInv, JobIsSound, JobSet, Users!Removes
<1>3. \A l \in loads : LoadIsSound(l, events')
  BY <1>1 DEF UsersInv, ShapesInv, LoadIsSound, Table
<1>4. ShapesInv'
  BY <1>1, <1>2, <1>3 DEF UsersInv, ShapesInv, UsersPast, Table, JobIsSound
<1>5. AdminInv' /\ PasswordInv'
  BY DEF UsersInv, AdminInv, PasswordInv, Users!SomeoneAdministers, Users!Usable
<1>6. BusyInv'
  BY UsersNumber DEF UsersInv, BusyInv
<1> QED
  BY <1>4, <1>5, <1>6 DEF UsersInv

\* The job that an operation of the page or of the other admin sends.
LEMMA UsersJob ==
  ASSUME UsersInv, events' = events + 1, NEW kind \in JobKinds, NEW whom \in People \cup {None},
         NEW value \in BOOLEAN \cup {None}, NEW by \in Staff,
         kind \in {"create", "role", "active"} => value \in BOOLEAN, kind = "create" => whom \in People,
         by # me => kind \in {"role", "delete"}
  PROVE  LET j == Users!Job(kind, whom, value, by) IN
         /\ JobIsSound(j, events') /\ j \in JobSet /\ j.stage = "sent" /\ j.id = events + 1
         /\ j.by = by /\ j.kind = kind
<1> DEFINE j == [kind |-> kind, who |-> whom, value |-> value, by |-> by, id |-> events + 1, stage |-> "sent"]
<1>1. events \in Nat /\ events + 1 \in Nat \ {0}
  BY DEF UsersInv, ShapesInv
<1>2. j \in JobSet
  BY <1>1 DEF JobSet
<1>3. Users!Job(kind, whom, value, by) = j
  BY DEF Users!Job
<1>4. JobIsSound(j, events')
  BY <1>1, <1>2 DEF JobIsSound
<1> QED
  BY <1>2, <1>3, <1>4

LEMMA UsersRun ==
  ASSUME UsersInv, NEW kind \in JobKinds, NEW whom \in People \cup {None}, NEW value \in BOOLEAN \cup {None},
         kind \in {"create", "role", "active"} => value \in BOOLEAN, kind = "create" => whom \in People,
         Users!Acts, Users!OnPage, busy = None, asked' = asked,
         jobs' = jobs \cup {Users!Job(kind, whom, value, me)}, busy' = Users!Job(kind, whom, value, me).id,
         tempCred' \in {None, tempCred}, kind = "create" => tempCred' = None
  PROVE  UsersInv'
<1> DEFINE j == Users!Job(kind, whom, value, me)
<1>1. /\ events' = events + 1 /\ asked = None
      /\ UNCHANGED <<users, listed, loads, past>>
  BY DEF Users!Acts, Users!OnPage, Users!server
<1>2. /\ JobIsSound(j, events') /\ j \in JobSet /\ j.stage = "sent" /\ j.id = events + 1 /\ j.by = me /\ j.kind = kind
  BY <1>1, UsersJob, UsersConstants DEF Users!Job
<1>3. jobs' = jobs \cup {j} /\ busy' = j.id
  OBVIOUS
<1> HIDE DEF j
<1> QED
  BY <1>1, <1>2, <1>3, UsersNumber, UsersBegin

LEMMA UsersWorks ==
  ASSUME UsersInv,
         \/ \E a \in People : \E role \in BOOLEAN : Users!CreateUser(a, role)
         \/ \E a \in DOMAIN listed : Users!ResetPw(a) \/ Users!ToggleActive(a) \/ Users!ToggleRole(a) \/ Users!Delete(a)
         \/ Users!ToggleRegistration
         \/ \E yes \in BOOLEAN : Users!Answer(yes)
         \/ \E o \in Staff, a \in People, kind \in {"role", "delete"} : Users!Elsewhere(o, kind, a)
  PROVE  UsersInv'
<1>0. me \in Staff /\ Table(listed) /\ events \in Nat
  BY UsersConstants DEF UsersInv, ShapesInv
<1>1. ASSUME NEW kind \in JobKinds \ {"create"}, NEW whom \in People \cup {None}, NEW value \in BOOLEAN \cup {None},
             kind \in {"role", "active"} => value \in BOOLEAN, Users!Run(Users!Job(kind, whom, value, me))
      PROVE  UsersInv'
  BY <1>1, UsersRun DEF Users!Run
<1>2. ASSUME NEW kind \in JobKinds \ {"create", "reset"}, NEW whom \in People \cup {None}, NEW value \in BOOLEAN \cup {None},
             kind \in {"role", "active"} => value \in BOOLEAN, Users!Ask(Users!Job(kind, whom, value, me))
      PROVE  UsersInv'
  <2> DEFINE j == Users!Job(kind, whom, value, me)
  <2>1. /\ events' = events + 1 /\ busy = None /\ asked' = j
        /\ UNCHANGED <<users, listed, past, jobs, loads, busy, tempCred>>
    BY <1>2 DEF Users!Ask, Users!Acts, Users!server
  <2>2. /\ JobIsSound(j, events') /\ j.stage = "sent" /\ j.id = events + 1 /\ j.by = me /\ j.kind = kind
    BY <1>0, <1>2, <2>1, UsersJob DEF Users!Job
  <2> HIDE DEF j
  <2> QED
    BY <1>2, <2>1, <2>2, UsersAsk
<1>3. ASSUME NEW a \in People, NEW role \in BOOLEAN, Users!CreateUser(a, role) PROVE UsersInv'
  <2>1. "create" \in JobKinds
    BY DEF JobKinds
  <2> QED
    BY <1>3, <2>1, UsersRun DEF Users!CreateUser
<1>4. ASSUME NEW a \in DOMAIN listed,
             Users!ResetPw(a) \/ Users!ToggleActive(a) \/ Users!ToggleRole(a) \/ Users!Delete(a)
      PROVE  UsersInv'
  <2>1. a \in People /\ listed[a].active \in BOOLEAN /\ listed[a].admin \in BOOLEAN
    BY <1>0 DEF Table, UserSet
  <2>2. {"reset", "active", "role", "delete"} \subseteq JobKinds \ {"create"}
    BY DEF JobKinds
  <2> QED
    BY <1>1, <1>2, <1>4, <2>1, <2>2 DEF Users!ResetPw, Users!ToggleActive, Users!ToggleRole, Users!Delete
<1>5. CASE Users!ToggleRegistration
  <2>1. "registration" \in JobKinds
    BY DEF JobKinds
  <2> QED
    BY <1>1, <1>2, <1>5, <2>1 DEF Users!ToggleRegistration
<1>6. ASSUME NEW yes \in BOOLEAN, Users!Answer(yes) PROVE UsersInv'
  <2>1. /\ asked # None /\ asked' = None /\ UNCHANGED <<users, listed, tempCred, loads, events, past>>
        /\ IF yes THEN jobs' = jobs \cup {asked} /\ busy' = asked.id ELSE UNCHANGED <<jobs, busy>>
    BY <1>6 DEF Users!Answer, Users!server
  <2>2. /\ JobIsSound(asked, events) /\ asked \in JobSet /\ asked.by = me /\ asked.stage = "sent"
        /\ asked.kind \notin {"create", "reset"}
        /\ busy = None /\ \A k \in jobs : k.id # asked.id
        /\ \A l \in loads : l.for # asked.id
    BY <2>1 DEF UsersInv, ShapesInv, BusyInv, JobIsSound
  <2>3. CASE ~yes
    <3>1. ShapesInv'
      BY <2>1, <2>3 DEF UsersInv, ShapesInv, UsersPast, JobIsSound, LoadIsSound, Table
    <3>2. AdminInv' /\ BusyInv' /\ PasswordInv'
      BY <2>1, <2>3 DEF UsersInv, AdminInv, BusyInv, PasswordInv, Users!SomeoneAdministers, Users!Usable
    <3> QED
      BY <3>1, <3>2 DEF UsersInv
  <2>4. CASE yes
    <3> DEFINE j == asked
    <3>1. PICK k \in JobSet : k = asked
      BY <2>2
    <3>2. JobIsSound(k, events')
      BY <2>1, <2>2, <3>1 DEF JobIsSound
    <3> QED
      BY <2>1, <2>2, <2>4, <3>1, <3>2, <1>0, UsersBegin
  <2> QED
    BY <2>3, <2>4
<1>7. ASSUME NEW o \in Staff, NEW a \in People, NEW kind \in {"role", "delete"}, Users!Elsewhere(o, kind, a)
      PROVE  UsersInv'
  <2> DEFINE j == Users!Job(kind, a, FALSE, o)
  <2>1. /\ o # me /\ events' = events + 1 /\ jobs' = jobs \cup {j}
        /\ UNCHANGED <<users, listed, past, loads, busy, tempCred, asked>>
    BY <1>7 DEF Users!Elsewhere, Users!Acts, Users!server
  <2>2. kind \in JobKinds
    BY DEF JobKinds
  <2>3. /\ JobIsSound(j, events') /\ j \in JobSet /\ j.stage = "sent" /\ j.id = events + 1 /\ j.by = o /\ j.kind = kind
    BY <1>7, <2>1, <2>2, UsersJob DEF Users!Job
  <2> HIDE DEF j
  <2>4. busy # j.id
    BY <2>3, UsersNumber
  <2> QED
    BY <1>0, <2>1, <2>3, <2>4, UsersNumber, UsersBegin
<1> QED
  BY <1>3, <1>4, <1>5, <1>6, <1>7

\* Only the page hands out passwords, one at a time.
LEMMA UsersAlone ==
  ASSUME UsersInv, NEW j \in jobs, NEW k \in jobs, j.kind \in {"create", "reset"}, k.kind \in {"create", "reset"}
  PROVE  j = k
<1>1. j.by = me /\ k.by = me
  BY DEF UsersInv, ShapesInv, JobIsSound
<1> QED
  BY <1>1 DEF UsersInv, BusyInv

\* A job of which the server has done its part is the same job.
LEMMA UsersGoes ==
  ASSUME UsersInv, NEW j \in jobs, NEW s \in {"checked", "done"}, s = "checked" => Users!Removes(j),
         Users!Goes(j, s), UNCHANGED <<listed, loads, asked, events, busy>>, Table(users'), UsersPast'
  PROVE  /\ ShapesInv' /\ BusyInv'
         /\ \E c \in jobs' : /\ jobs' = (jobs \ {j}) \cup {c}
                             /\ c.kind = j.kind /\ c.who = j.who /\ c.id = j.id /\ c.stage = s
<1> DEFINE c == [j EXCEPT !.stage = s]
<1>1. j \in JobSet /\ JobIsSound(j, events) /\ jobs' = (jobs \ {j}) \cup {c}
  BY DEF UsersInv, ShapesInv, JobIsSound, Users!Goes
<1>2. /\ c \in JobSet /\ c.kind = j.kind /\ c.who = j.who /\ c.value = j.value /\ c.by = j.by /\ c.id = j.id /\ c.stage = s
  BY <1>1 DEF JobSet
<1> HIDE DEF c
<1>3. JobIsSound(c, events)
  BY <1>1, <1>2 DEF JobIsSound, Users!Removes
<1>4. ShapesInv'
  BY <1>1, <1>3 DEF UsersInv, ShapesInv, JobIsSound, LoadIsSound, Table
<1>5. BusyInv'
  BY <1>1, <1>2 DEF UsersInv, BusyInv
<1> QED
  BY <1>1, <1>2, <1>4, <1>5

LEMMA UsersCheck == ASSUME UsersInv, NEW j \in jobs, Users!Check(j) PROVE UsersInv'
<1>1. /\ j.stage = "sent" /\ Users!Removes(j) /\ ~Users!LastAdmin(j.who) /\ Users!Goes(j, "checked")
      /\ UNCHANGED <<users, listed, loads, asked, events, busy, tempCred, past>>
  BY DEF Users!Check, Users!Alone, Users!server, Users!page
<1>2. Table(users') /\ UsersPast'
  BY <1>1 DEF UsersInv, ShapesInv, UsersPast, Table
<1>3. /\ ShapesInv' /\ BusyInv'
      /\ \E c \in jobs' : /\ jobs' = (jobs \ {j}) \cup {c}
                          /\ c.kind = j.kind /\ c.who = j.who /\ c.id = j.id /\ c.stage = "checked"
  BY <1>1, <1>2, UsersGoes
<1>4. PICK c \in jobs' : /\ jobs' = (jobs \ {j}) \cup {c}
                         /\ c.kind = j.kind /\ c.who = j.who /\ c.id = j.id /\ c.stage = "checked"
  BY <1>3
<1>5. AdminInv'
  <2>1. ASSUME ~past.overlapped PROVE \E a \in Users!Usable(users) : a # j.who
    BY <1>1, <2>1 DEF UsersInv, AdminInv, Users!SomeoneAdministers, Users!LastAdmin
  <2>2. Users!Usable(users') = Users!Usable(users)
    BY <1>1 DEF Users!Usable
  <2> QED
    BY <1>1, <1>4, <2>1, <2>2 DEF UsersInv, AdminInv, Users!SomeoneAdministers
<1>6. PasswordInv'
  BY <1>1, <1>4 DEF UsersInv, PasswordInv
<1> QED
  BY <1>3, <1>5, <1>6 DEF UsersInv

\* What a job writes to the accounts: its own, and of that, what it is about.
LEMMA WriteKeepsOthers ==
  ASSUME UsersInv, NEW j \in jobs, Users!Write(j)
  PROVE  /\ Table(users')
         /\ \A a \in DOMAIN users \ {j.who} : a \in DOMAIN users' /\ users'[a] = users[a]
         /\ DOMAIN users' \subseteq DOMAIN users \cup {j.who}
         /\ j.who \in DOMAIN users \cap DOMAIN users' =>
              /\ j.kind # "reset" => users'[j.who].password = users[j.who].password
              /\ ~Users!Removes(j) => /\ users[j.who].admin => users'[j.who].admin
                                      /\ users[j.who].active => users'[j.who].active
         /\ j.kind \in {"create", "reset"} => j.who \in DOMAIN users' /\ users'[j.who].password = j.id
         /\ j.kind = "create" => j.who \notin DOMAIN users
         /\ ~Users!Removes(j) => DOMAIN users \subseteq DOMAIN users'
         /\ j.who \notin DOMAIN users /\ j.who \in DOMAIN users' => j.kind = "create"
<1>1. /\ Table(users) /\ j \in JobSet /\ JobIsSound(j, events)
      /\ j.id \in Nat
  BY DEF UsersInv, ShapesInv, JobIsSound, JobSet
<1>2. CASE j.kind = "create" /\ j.who \notin DOMAIN users
           /\ users' = Users!With(users, j.who, [admin |-> j.value, active |-> TRUE, password |-> j.id, must |-> TRUE])
  <2> DEFINE u == [admin |-> j.value, active |-> TRUE, password |-> j.id, must |-> TRUE]
  <2>1. u \in UserSet /\ u.password = j.id
    BY <1>1, <1>2 DEF UserSet, JobIsSound
  <2>2. j.who \in People
    <3>1. j.kind = "create" => j.who \in People
      BY <1>1 DEF JobIsSound
    <3> QED
      BY <1>2, <3>1
  <2> HIDE DEF u
  <2>3. users' = [y \in DOMAIN users \cup {j.who} |-> IF y = j.who THEN u ELSE users[y]]
    BY <1>2 DEF Users!With, u
  <2>4. /\ DOMAIN users' = DOMAIN users \cup {j.who} /\ users'[j.who] = u
        /\ \A a \in DOMAIN users : users'[a] = users[a]
    BY <1>2, <2>3
  <2>5. Table(users')
    BY <1>1, <2>1, <2>2, <2>3 DEF Table
  <2> QED
    BY <1>2, <2>1, <2>4, <2>5 DEF Users!Removes
<1>3. CASE j.kind = "reset" /\ j.who \in DOMAIN users
           /\ users' = [users EXCEPT ![j.who].password = j.id, ![j.who].must = TRUE]
  <2>1. users[j.who] \in UserSet
    BY <1>1, <1>3 DEF Table
  <2>2. /\ [users[j.who] EXCEPT !.password = j.id, !.must = TRUE] \in UserSet
        /\ [users[j.who] EXCEPT !.password = j.id, !.must = TRUE].password = j.id
        /\ [users[j.who] EXCEPT !.password = j.id, !.must = TRUE].admin = users[j.who].admin
        /\ [users[j.who] EXCEPT !.password = j.id, !.must = TRUE].active = users[j.who].active
    BY <1>1, <2>1 DEF UserSet
  <2>3. users' = [users EXCEPT ![j.who] = [users[j.who] EXCEPT !.password = j.id, !.must = TRUE]]
    BY <1>3
  <2>4. /\ Table(users') /\ DOMAIN users' = DOMAIN users
        /\ users'[j.who] = [users[j.who] EXCEPT !.password = j.id, !.must = TRUE]
        /\ \A a \in DOMAIN users \ {j.who} : users'[a] = users[a]
    BY <1>1, <1>3, <2>2, <2>3 DEF Table
  <2> QED
    BY <1>3, <2>2, <2>4
<1>4. CASE j.kind = "role" /\ j.who \in DOMAIN users /\ users' = [users EXCEPT ![j.who].admin = j.value]
  <2>1. users[j.who] \in UserSet /\ j.value \in BOOLEAN /\ (~Users!Removes(j) => j.value)
    BY <1>1, <1>4 DEF Table, JobIsSound, Users!Removes
  <2>2. /\ [users[j.who] EXCEPT !.admin = j.value] \in UserSet
        /\ [users[j.who] EXCEPT !.admin = j.value].password = users[j.who].password
        /\ [users[j.who] EXCEPT !.admin = j.value].admin = j.value
        /\ [users[j.who] EXCEPT !.admin = j.value].active = users[j.who].active
    BY <2>1 DEF UserSet
  <2>3. /\ Table(users') /\ DOMAIN users' = DOMAIN users
        /\ users'[j.who] = [users[j.who] EXCEPT !.admin = j.value]
        /\ \A a \in DOMAIN users \ {j.who} : users'[a] = users[a]
    BY <1>1, <1>4, <2>2 DEF Table
  <2> QED
    BY <1>4, <2>1, <2>2, <2>3
<1>5. CASE j.kind = "active" /\ j.who \in DOMAIN users /\ users' = [users EXCEPT ![j.who].active = j.value]
  <2>1. users[j.who] \in UserSet /\ j.value \in BOOLEAN /\ (~Users!Removes(j) => j.value)
    BY <1>1, <1>5 DEF Table, JobIsSound, Users!Removes
  <2>2. /\ [users[j.who] EXCEPT !.active = j.value] \in UserSet
        /\ [users[j.who] EXCEPT !.active = j.value].password = users[j.who].password
        /\ [users[j.who] EXCEPT !.active = j.value].admin = users[j.who].admin
        /\ [users[j.who] EXCEPT !.active = j.value].active = j.value
    BY <2>1 DEF UserSet
  <2>3. /\ Table(users') /\ DOMAIN users' = DOMAIN users
        /\ users'[j.who] = [users[j.who] EXCEPT !.active = j.value]
        /\ \A a \in DOMAIN users \ {j.who} : users'[a] = users[a]
    BY <1>1, <1>5, <2>2 DEF Table
  <2> QED
    BY <1>5, <2>1, <2>2, <2>3
<1>6. CASE j.kind = "delete" /\ users' = Users!Without(users, j.who)
  <2>1. DOMAIN users' = DOMAIN users \ {j.who} /\ users' = [y \in DOMAIN users \ {j.who} |-> users[y]]
    BY <1>6 DEF Users!Without
  <2>2. Table(users') /\ \A a \in DOMAIN users \ {j.who} : users'[a] = users[a]
    BY <1>1, <2>1 DEF Table
  <2> QED
    BY <1>6, <2>1, <2>2 DEF Users!Removes
<1>7. CASE j.kind = "registration" /\ users' = users
  BY <1>1, <1>7
<1>8. \/ j.kind = "create" /\ j.who \notin DOMAIN users
         /\ users' = Users!With(users, j.who, [admin |-> j.value, active |-> TRUE, password |-> j.id, must |-> TRUE])
      \/ j.kind = "reset" /\ j.who \in DOMAIN users
         /\ users' = [users EXCEPT ![j.who].password = j.id, ![j.who].must = TRUE]
      \/ j.kind = "role" /\ j.who \in DOMAIN users /\ users' = [users EXCEPT ![j.who].admin = j.value]
      \/ j.kind = "active" /\ j.who \in DOMAIN users /\ users' = [users EXCEPT ![j.who].active = j.value]
      \/ j.kind = "delete" /\ users' = Users!Without(users, j.who)
      \/ j.kind = "registration" /\ users' = users
  BY DEF Users!Write, Users!There
<1> QED
  BY <1>2, <1>3, <1>4, <1>5, <1>6, <1>7, <1>8

LEMMA UsersWrite == ASSUME UsersInv, NEW j \in jobs, Users!Write(j) PROVE UsersInv'
<1>1. /\ Users!Goes(j, "done") /\ (Users!Removes(j) => j.stage = "checked")
      /\ UNCHANGED <<listed, loads, asked, events, busy, tempCred>>
  BY DEF Users!Write, Users!Alone, Users!page
<1> DEFINE over == Users!Removes(j) /\ \E k \in jobs \ {j} : k.stage = "checked"
<1>2. /\ UsersPast' /\ past'.missed = past.missed
      /\ past'.overlapped = (past.overlapped \/ over)
  <2>1. past' = [past EXCEPT !.elsewhere = @ \/ j.by # me, !.overlapped = @ \/ over]
    BY DEF Users!Write
  <2>2. over \in BOOLEAN
    OBVIOUS
  <2> HIDE DEF over
  <2> QED
    BY <2>1, <2>2 DEF UsersInv, ShapesInv, UsersPast
<1>3. Table(users')
  BY WriteKeepsOthers
<1>4. /\ ShapesInv' /\ BusyInv'
      /\ \E c \in jobs' : /\ jobs' = (jobs \ {j}) \cup {c}
                          /\ c.kind = j.kind /\ c.who = j.who /\ c.id = j.id /\ c.stage = "done"
  BY <1>1, <1>2, <1>3, UsersGoes
<1>5. PICK c \in jobs' : /\ jobs' = (jobs \ {j}) \cup {c}
                         /\ c.kind = j.kind /\ c.who = j.who /\ c.id = j.id /\ c.stage = "done"
  BY <1>4
<1>6. AdminInv'
  <2> SUFFICES ASSUME ~past'.overlapped
               PROVE  /\ Users!Usable(users') # {}
                      /\ \A k \in jobs' : k.stage = "checked" => \E a \in Users!Usable(users') : a # k.who
    BY DEF AdminInv, Users!SomeoneAdministers
  <2>1. ~past.overlapped /\ ~over
    BY <1>2
  <2>2. /\ Users!Usable(users) # {}
        /\ \A k \in jobs : k.stage = "checked" => \E a \in Users!Usable(users) : a # k.who
    BY <2>1 DEF UsersInv, AdminInv, Users!SomeoneAdministers
  <2>3. \A a \in Users!Usable(users) : a # j.who => a \in Users!Usable(users')
    BY WriteKeepsOthers DEF Users!Usable
  <2>4. CASE Users!Removes(j)
    <3>1. \E a \in Users!Usable(users) : a # j.who
      BY <1>1, <2>2, <2>4
    <3>2. \A k \in jobs' : k.stage # "checked"
      BY <1>5, <2>1, <2>4
    <3> QED
      BY <2>3, <3>1, <3>2
  <2>5. CASE ~Users!Removes(j)
    <3>1. Users!Usable(users) \subseteq Users!Usable(users')
      BY <2>3, <2>5, WriteKeepsOthers DEF Users!Usable
    <3>2. \A k \in jobs' : k.stage = "checked" => k \in jobs
      BY <1>5
    <3> QED
      BY <2>2, <3>1, <3>2
  <2> QED
    BY <2>4, <2>5
<1>7. PasswordInv'
  <2>1. \A k \in jobs' : k.kind = "create" => tempCred' = None
    BY <1>1, <1>5 DEF UsersInv, PasswordInv
  <2>2. \A k \in jobs \ {j} : k.kind \in {"create", "reset"} /\ j.kind \in {"create", "reset"} => FALSE
    BY UsersAlone
  <2>3. ASSUME NEW k \in jobs', k.kind \in {"create", "reset"}, k.stage = "done", k.who \in DOMAIN users'
        PROVE  users'[k.who].password = k.id
    <3>1. CASE k = c
      BY <1>5, <2>3, <3>1, WriteKeepsOthers
    <3>2. CASE k # c
      <4>1. k \in jobs \ {j} /\ j.kind \notin {"create", "reset"}
        BY <1>5, <2>2, <2>3, <3>2
      <4>2. k.who \in DOMAIN users
        BY <2>3, <4>1, WriteKeepsOthers
      <4>3. users'[k.who].password = users[k.who].password
        BY <2>3, <4>1, <4>2, WriteKeepsOthers
      <4> QED
        BY <2>3, <4>1, <4>2, <4>3 DEF UsersInv, PasswordInv
    <3> QED
      BY <3>1, <3>2
  <2>4. ASSUME tempCred' # None, ~past'.missed, tempCred'.user \in DOMAIN users'
        PROVE  \/ users'[tempCred'.user].password = tempCred'.password
               \/ \E k \in jobs' : k.kind = "reset" /\ k.stage = "done" /\ k.who = tempCred'.user
    <3>1. tempCred' = tempCred /\ tempCred # None /\ ~past.missed
      BY <1>1, <1>2, <2>4
    <3>2. j.kind # "create"
      BY <3>1 DEF UsersInv, PasswordInv
    <3>3. tempCred.user \in DOMAIN users
      BY <2>4, <3>1, <3>2, WriteKeepsOthers
    <3>4. CASE j.kind = "reset" /\ j.who = tempCred.user
      BY <1>5, <3>1, <3>4
    <3>5. CASE ~(j.kind = "reset" /\ j.who = tempCred.user)
      <4>1. users'[tempCred.user].password = users[tempCred.user].password
        BY <2>4, <3>1, <3>3, <3>5, WriteKeepsOthers
      <4>2. CASE users[tempCred.user].password = tempCred.password
        BY <3>1, <4>1, <4>2
      <4>3. ASSUME NEW k \in jobs, k.kind = "reset", k.stage = "done", k.who = tempCred.user
            PROVE  k \in jobs' \/ k = j
        BY <1>5
      <4> QED
        BY <1>5, <3>1, <3>3, <4>2, <4>3 DEF UsersInv, PasswordInv
    <3> QED
      BY <3>4, <3>5
  <2> QED
    BY <2>1, <2>3, <2>4 DEF PasswordInv
<1> QED
  BY <1>4, <1>6, <1>7 DEF UsersInv

\* The end of a job, with what its answer shows and what is read after it.
LEMMA UsersEnd ==
  ASSUME UsersInv, NEW j \in jobs, jobs' = jobs \ {j}, UNCHANGED <<users, listed, asked, events>>, PastGoesOn,
         \A l \in loads' : l \in loads \/ (LoadIsSound(l, events) /\ l.for = j.id /\ j.by = me /\ busy' = busy),
         busy' = busy \/ busy' = Users!Freed(j.id),
         \/ /\ tempCred' = tempCred
            /\ j.kind = "reset" /\ j.stage = "done" => past'.missed
         \/ j.kind \in {"create", "reset"} /\ j.stage = "done" /\ tempCred' = Users!Credential(j)
  PROVE  UsersInv'
<1>1. j.id \in 1..events /\ events \in Nat
  BY DEF UsersInv, ShapesInv, JobIsSound, JobSet
<1>2. ShapesInv'
  BY DEF UsersInv, ShapesInv, PastGoesOn
<1>3. AdminInv'
  BY DEF UsersInv, AdminInv, PastGoesOn, Users!SomeoneAdministers, Users!Usable
<1>4. busy' = busy \/ (busy = j.id /\ busy' = None)
  BY DEF Users!Freed
<1>5. \A k \in jobs' : k.by = me <=> busy' = k.id
  <2>1. CASE busy' = busy
    BY <2>1 DEF UsersInv, BusyInv
  <2>2. CASE busy = j.id /\ busy' = None
    <3>1. j.by = me /\ \A k \in jobs' : k.by # me
      BY <2>2 DEF UsersInv, BusyInv
    <3>2. \A k \in jobs' : k.id # None
      BY UsersConstants DEF UsersInv, ShapesInv, JobIsSound, JobSet
    <3> QED
      BY <2>2, <3>1, <3>2
  <2> QED
    BY <1>4, <2>1, <2>2
<1>6. \A k \in jobs', l \in loads' : k.by = me => l.for # k.id
  <2>1. \A k \in jobs' : j.by = me => k.by # me
    BY DEF UsersInv, BusyInv
  <2> QED
    BY <2>1 DEF UsersInv, BusyInv
<1>7. BusyInv'
  BY <1>4, <1>5, <1>6, UsersConstants, <1>1 DEF UsersInv, BusyInv
<1>8. PasswordInv'
  <2>1. CASE tempCred' = tempCred /\ (j.kind = "reset" /\ j.stage = "done" => past'.missed)
    BY <2>1 DEF UsersInv, PasswordInv, PastGoesOn
  <2>2. CASE j.kind \in {"create", "reset"} /\ j.stage = "done" /\ tempCred' = Users!Credential(j)
    <3>1. tempCred'.user = j.who /\ tempCred'.password = j.id
      BY <2>2 DEF Users!Credential
    <3>2. \A k \in jobs' : k.kind \notin {"create", "reset"}
      BY <2>2, UsersAlone
    <3> QED
      BY <2>2, <3>1, <3>2 DEF UsersInv, PasswordInv
  <2> QED
    BY <2>1, <2>2
<1> QED
  BY <1>2, <1>3, <1>7, <1>8 DEF UsersInv

LEMMA UsersAnswers ==
  ASSUME UsersInv, NEW j \in jobs,
         Users!Done(j) \/ Users!DoneElsewhere(j) \/ Users!Refuse(j) \/ Users!Vanished(j) \/ Users!JobFails(j)
  PROVE  UsersInv'
<1>1. JobIsSound(j, events) /\ j \in JobSet /\ events \in Nat /\ j.id \in 1..events
  BY DEF UsersInv, ShapesInv, JobIsSound, JobSet
<1>2. ASSUME Users!Load(j.id) PROVE PastGoesOn /\ \A l \in loads' : l \in loads \/ (LoadIsSound(l, events) /\ l.for = j.id)
  <2> DEFINE next == [number |-> past.begun + 1, for |-> j.id, kind |-> "load", users |-> None, open |-> None]
  <2>1. loads' = loads \cup {next} /\ past' = [past EXCEPT !.begun = @ + 1]
    BY <1>2 DEF Users!Load
  <2>2. LoadIsSound(next, events) /\ next.for = j.id
    BY <1>1 DEF LoadIsSound
  <2> HIDE DEF next
  <2> QED
    BY <2>1, <2>2, PastBegins
<1>3. ASSUME Users!Refresh(j.id) PROVE PastGoesOn /\ \A l \in loads' : l \in loads \/ (LoadIsSound(l, events) /\ l.for = j.id)
  <2> DEFINE next == [number |-> 0, for |-> j.id, kind |-> "refresh", users |-> None, open |-> None]
  <2>1. loads' = loads \cup {next} /\ UNCHANGED past
    BY <1>3 DEF Users!Refresh
  <2>2. LoadIsSound(next, events) /\ next.for = j.id
    BY <1>1 DEF LoadIsSound
  <2> HIDE DEF next
  <2> QED
    BY <2>1, <2>2, PastRests
<1>4. CASE Users!Done(j)
  <2>1. /\ j.stage = "done" /\ j.by = me /\ jobs' = jobs \ {j}
        /\ Users!CredentialDone(j) \/ Users!ChangeDone(j) \/ Users!RegistrationDone(j)
    BY <1>4 DEF Users!Done
  <2>2. UNCHANGED <<users, listed, asked, events>>
    BY <2>1 DEF Users!CredentialDone, Users!ChangeDone, Users!RegistrationDone, Users!Still, Users!server
  <2>3. CASE Users!CredentialDone(j)
    <3>1. /\ j.kind \in {"create", "reset"} /\ tempCred' = Users!Credential(j) /\ Users!Load(j.id) /\ busy' = busy
      BY <2>3 DEF Users!CredentialDone
    <3> QED
      BY <1>2, <2>1, <2>2, <3>1, UsersEnd
  <2>4. CASE Users!ChangeDone(j)
    <3>1. Users!Load(j.id) \/ Users!Refresh(j.id)
      BY <2>4 DEF Users!ChangeDone
    <3>2. j.kind # "reset" /\ tempCred' = tempCred /\ busy' = busy
      BY <2>4 DEF Users!ChangeDone
    <3> QED
      BY <1>2, <1>3, <2>1, <2>2, <3>1, <3>2, UsersEnd
  <2>5. CASE Users!RegistrationDone(j)
    <3>1. /\ j.kind # "reset" /\ tempCred' = tempCred /\ busy' = Users!Freed(j.id) /\ loads' = loads
          /\ past' = [past EXCEPT !.begun = @ + 1, !.newest = past.begun + 1]
      BY <2>5 DEF Users!RegistrationDone
    <3>2. PastGoesOn
      BY <3>1 DEF UsersInv, ShapesInv, PastGoesOn, UsersPast
    <3> QED
      BY <2>1, <2>2, <3>1, <3>2, UsersEnd
  <2> QED
    BY <2>1, <2>3, <2>4, <2>5
<1>5. CASE Users!DoneElsewhere(j)
  <2>1. /\ j.by # me /\ jobs' = jobs \ {j} /\ UNCHANGED <<users, listed, asked, events, tempCred, busy, loads, past>>
    BY <1>5 DEF Users!DoneElsewhere, Users!Still, Users!server
  <2>2. j.kind # "reset"
    BY <1>1, <2>1 DEF JobIsSound
  <2>3. PastGoesOn
    BY <2>1, PastRests
  <2> QED
    BY <2>1, <2>2, <2>3, UsersEnd
<1>6. ASSUME Users!Failed(j) PROVE UsersInv'
  <2>1. jobs' = jobs \ {j} /\ UNCHANGED <<users, listed, asked, events, tempCred>>
    BY <1>6 DEF Users!Failed, Users!server
  <2>2. CASE j.kind = "registration"
    <3>1. Users!Load(j.id) /\ busy' = busy /\ j.by = me
      BY <1>1, <1>6, <2>2 DEF Users!Failed, JobIsSound
    <3> QED
      BY <1>2, <2>1, <2>2, <3>1, UsersEnd
  <2>3. CASE j.kind # "registration"
    <3> DEFINE lost == j.stage = "done" /\ j.by = me
    <3>1. busy' = Users!Freed(j.id) /\ loads' = loads /\ past' = [past EXCEPT !.missed = @ \/ lost] /\ lost \in BOOLEAN
      BY <1>6, <2>3 DEF Users!Failed
    <3>2. j.kind = "reset" /\ j.stage = "done" => lost
      BY <1>1 DEF JobIsSound
    <3> HIDE DEF lost
    <3>3. PastGoesOn /\ (lost => past'.missed)
      BY <3>1, PastMisses
    <3> QED
      BY <2>1, <3>1, <3>2, <3>3, UsersEnd
  <2> QED
    BY <2>2, <2>3
<1> QED
  BY <1>4, <1>5, <1>6 DEF Users!Refuse, Users!Vanished, Users!JobFails

LEMMA UsersKeeps == ASSUME UsersInv, Users!Next PROVE UsersInv'
BY UsersReads, UsersWorks, UsersCheck, UsersWrite, UsersAnswers DEF Users!Next

LEMMA UsersShow == ASSUME UsersInv PROVE Users!AnAdminRemains /\ Users!CredentialsAreCurrent
<1>1. Users!AnAdminRemains
  BY DEF UsersInv, AdminInv, Users!AnAdminRemains
<1>2. busy = None => \A j \in jobs : j.kind # "reset"
  BY UsersConstants DEF UsersInv, ShapesInv, BusyInv, JobIsSound, JobSet
<1>3. Users!CredentialsAreCurrent
  BY <1>2 DEF UsersInv, PasswordInv, Users!CredentialsAreCurrent
<1> QED
  BY <1>1, <1>3

-----------------------------------------------------------------------------
(* The pages: one is shown, and what it keeps changes as it says. *)

RecordsInv ==
  /\ mounted = "library" => LibraryInv
  /\ mounted = "users" => UsersInv
  /\ mounted = "browser" => BrowserInv

LEMMA RecordsRest ==
  ASSUME RecordsInv, UNCHANGED <<mounted, account>>
  PROVE  RecordsInv'
<1>1. mounted' = mounted
  OBVIOUS
<1>2. mounted = "library" => LibraryInv'
  BY DEF RecordsInv, LibraryInv, LibraryPast, Library!LogosAreThere, Library!Hosted, Library!Exists, account, OfLibrary
<1>3. mounted = "browser" => BrowserInv'
  BY DEF RecordsInv, BrowserInv, ItemsInv, WhoInv, IdentitiesInv, StoredApart, GivenOnce, Browser!HasGuests, account, OfBrowser
<1>4. mounted = "users" => UsersInv'
  <2>1. UNCHANGED <<users, listed, tempCred, jobs, loads, busy, asked, events, past>>
    BY DEF account, OfUsers, shared
  <2> SUFFICES ASSUME UsersInv PROVE UsersInv'
    BY DEF RecordsInv
  <2>2. ShapesInv'
    BY <2>1 DEF UsersInv, ShapesInv, UsersPast, Table
  <2>3. AdminInv' /\ BusyInv' /\ PasswordInv'
    BY <2>1 DEF UsersInv, AdminInv, BusyInv, PasswordInv, Users!SomeoneAdministers, Users!Usable
  <2> QED
    BY <2>2, <2>3 DEF UsersInv
<1> QED
  BY <1>1, <1>2, <1>3, <1>4 DEF RecordsInv

\* A team wears icons that are there, somebody can administer the instance, a password handed
\* over is the account's, and tabs share neither the settings of other accounts nor an identity
\* (icons_service.py, auth/service.py, admin_users.py, ScopedStorage.tsx, clientIdentity.ts),
\* for any teams, icons, accounts, tabs, settings, operations and failures.
THEOREM TheRecordsHold == PagesSpec => []RecordsHold
<1>1. PagesInit => RecordsInv
  BY LibraryBegins, UsersBegins, BrowserBegins DEF PagesInit, AccountInit, RecordsInv
<1>2. RecordsInv /\ [PagesNext]_<<mounted, pageVars, account>> => RecordsInv'
  <2> SUFFICES ASSUME RecordsInv, [PagesNext]_<<mounted, pageVars, account>>
               PROVE  RecordsInv'
    OBVIOUS
  <2>1. CASE UNCHANGED <<mounted, account>>
    BY <2>1, RecordsRest
  <2>2. CASE AccountNext
    <3>1. mounted' = mounted
      BY <2>2 DEF AccountNext
    <3>2. mounted = "library" => LibraryInv'
      BY <2>2, LibraryKeeps DEF AccountNext, RecordsInv
    <3>3. mounted = "users" => UsersInv'
      BY <2>2, UsersKeeps DEF AccountNext, RecordsInv
    <3>4. mounted = "browser" => BrowserInv'
      BY <2>2, BrowserKeeps DEF AccountNext, RecordsInv
    <3> QED
      BY <3>1, <3>2, <3>3, <3>4 DEF RecordsInv
  <2> QED
    BY <2>1, <2>2 DEF PagesNext
<1>3. RecordsInv => RecordsHold
  BY UsersShow, BrowserShows DEF RecordsInv, RecordsHold, LibraryInv
<1> QED
  BY <1>1, <1>2, <1>3, PTL DEF PagesSpec

-----------------------------------------------------------------------------
(* Who a tab is signed in as: an answer that says nobody was nobody's, and a token     *)
(* that is nobody's once is so from then on, for no token is issued twice.             *)

SessionPast ==
  /\ past = [begun |-> past.begun, newest |-> past.newest, missed |-> past.missed, moved |-> past.moved, late |-> past.late]
  /\ past.late \in BOOLEAN

IsContext(c) == c = [user |-> c.user, must |-> c.must, profile |-> c.profile, bootstrap |-> c.bootstrap]
IsErrand(j) == j = [kind |-> j.kind, who |-> j.who, token |-> j.token, id |-> j.id, got |-> j.got]
IsReading(r) == r = [token |-> r.token, number |-> r.number, for |-> r.for, to |-> r.to, got |-> r.got]

\* A token that no request is still to begin a session under.
Issued(t) == t = None \/ (t \in Nat /\ t <= events /\ \A j \in jobs : j.got = None => j.id # t)

\* What came back is of a token that was nobody's if it says so.
ReadingTells(r) == r.got # None => IsContext(r.got) /\ (r.got.user = None => Session!Resolve(r.token) = None)
ErrandTells(j) ==
  j.got # None => /\ Issued(j.got.cookie)
                  /\ j.kind = "work" /\ j.got.status = 401 => Session!Resolve(j.token) = None

ErrandsInv ==
  /\ \A j \in jobs : IsErrand(j) /\ j.id \in Nat /\ j.id <= events /\ Issued(j.token) /\ ErrandTells(j)
  /\ \A j, k \in jobs : j.id = k.id => j = k
ReadingsInv == \A r \in reads : IsReading(r) /\ Issued(r.token) /\ ReadingTells(r)

SessionInv ==
  /\ SessionPast /\ events \in Nat /\ (IsContext(ctx) \/ (ctx = None /\ jobs = {}))
  /\ Issued(cookie) /\ \A t \in DOMAIN sessions : Issued(t)
  /\ ErrandsInv /\ ReadingsInv

LEMMA NoAnswerIsNone ==
  /\ None \notin Nat
  /\ \A s \in {200, 400, 401, 409, 410}, c \in Nat \cup {None}, p \in {"/", "/change-password", "/login", None} :
       [status |-> s, cookie |-> c, to |-> p] # None
BY PagesAssumption DEF Session!AccountSessionAssumption, Session!Answers

LEMMA SessionBegins == ASSUME Session!Init PROVE SessionInv
<1>1. SessionPast /\ events = 0 /\ ctx = None /\ jobs = {}
  BY DEF Session!Init, SessionPast
<1>2. cookie \in {None, 0} /\ DOMAIN sessions \subseteq {0}
  BY DEF Session!Init, Session!With
<1>3. \A r \in reads : r = [token |-> cookie, number |-> 1, for |-> None, to |-> None, got |-> None]
  BY DEF Session!Init
<1>4. ReadingsInv
  BY <1>1, <1>2, <1>3 DEF ReadingsInv, IsReading, Issued, ReadingTells
<1> QED
  BY <1>1, <1>2, <1>4 DEF SessionInv, ErrandsInv, Issued

\* A step that takes nothing back of what was issued, and gives nobody's token to nobody.
StaysIssued == \A t : Issued(t) => Issued(t)'
StaysOut == \A t : Issued(t) /\ Session!Resolve(t) = None => Session!Resolve(t)' = None

LEMMA ErrandsStay ==
  ASSUME SessionInv, StaysIssued, StaysOut, NEW j \in jobs
  PROVE  Issued(j.token)' /\ ErrandTells(j)'
BY DEF SessionInv, ErrandsInv, StaysIssued, StaysOut, ErrandTells

LEMMA ReadingsStay ==
  ASSUME SessionInv, StaysIssued, StaysOut, NEW r \in reads
  PROVE  IsReading(r) /\ Issued(r.token)' /\ ReadingTells(r)'
BY DEF SessionInv, ReadingsInv, StaysIssued, StaysOut, ReadingTells

\* Requests that end, and at most one of the next number that begins.
LEMMA FewerErrands ==
  ASSUME SessionInv, events' \in Nat, events <= events', sessions' = sessions,
         jobs' \subseteq jobs \/ (events' = events + 1 /\ \E kind, whom, token : Issued(token) /\
           jobs' \subseteq jobs \cup {[kind |-> kind, who |-> whom, token |-> token, id |-> events + 1, got |-> None]})
  PROVE  StaysIssued /\ StaysOut /\ ErrandsInv'
<1>1. StaysOut
  BY DEF StaysOut, Session!Resolve
<1>2. \A k \in jobs' : k \in jobs \/ (k.id = events + 1 /\ events' = events + 1)
  OBVIOUS
<1>3. StaysIssued
  <2> SUFFICES ASSUME NEW t, Issued(t) PROVE Issued(t)'
    BY DEF StaysIssued
  <2> QED
    BY <1>2 DEF Issued, SessionInv
<1>4. ASSUME NEW k \in jobs', k \in jobs
      PROVE  IsErrand(k) /\ k.id \in Nat /\ k.id <= events' /\ Issued(k.token)' /\ ErrandTells(k)'
  BY <1>1, <1>3, <1>4, ErrandsStay DEF SessionInv, ErrandsInv
<1>5. ASSUME NEW k \in jobs', k \notin jobs
      PROVE  IsErrand(k) /\ k.id = events + 1 /\ events' = events + 1 /\ Issued(k.token)' /\ ErrandTells(k)'
  <2>1. PICK kind, whom, token : Issued(token) /\ k = [kind |-> kind, who |-> whom, token |-> token, id |-> events + 1, got |-> None]
    BY <1>5
  <2>2. Issued(k.token)
    BY <2>1
  <2>3. events' = events + 1
    BY <1>5
  <2>4. k.got = None /\ IsErrand(k) /\ k.id = events + 1
    BY <2>1 DEF IsErrand
  <2> QED
    BY <1>3, <2>2, <2>3, <2>4 DEF StaysIssued, ErrandTells
<1>6. \A k, m \in jobs' : k.id = m.id => k = m
  <2> SUFFICES ASSUME NEW k \in jobs', NEW m \in jobs', k.id = m.id PROVE k = m
    OBVIOUS
  <2>1. CASE k \in jobs /\ m \in jobs
    BY <2>1 DEF SessionInv, ErrandsInv
  <2>2. CASE k \notin jobs /\ m \notin jobs
    BY <2>2
  <2>3. CASE (k \in jobs /\ m \notin jobs) \/ (k \notin jobs /\ m \in jobs)
    BY <2>3, <1>5 DEF SessionInv, ErrandsInv
  <2> QED
    BY <2>1, <2>2, <2>3
<1> QED
  BY <1>1, <1>3, <1>4, <1>5, <1>6 DEF ErrandsInv, SessionInv

\* The readings that go on, and one that begins.
LEMMA ReadingsGoOn ==
  ASSUME SessionInv, StaysIssued, StaysOut,
         reads' \subseteq reads \/ \E token, n, for, to : Issued(token)' /\
           reads' \subseteq reads \cup {[token |-> token, number |-> n, for |-> for, to |-> to, got |-> None]}
  PROVE  ReadingsInv'
<1> SUFFICES ASSUME NEW r \in reads' PROVE IsReading(r) /\ Issued(r.token)' /\ ReadingTells(r)'
  BY DEF ReadingsInv
<1>1. CASE r \in reads
  BY <1>1, ReadingsStay
<1>2. CASE r \notin reads
  <2>1. PICK token, n, for, to : Issued(token)' /\ r = [token |-> token, number |-> n, for |-> for, to |-> to, got |-> None]
    BY <1>2
  <2>2. r.token = token /\ r.got = None
    BY <2>1
  <2> QED
    BY <2>1, <2>2 DEF IsReading, ReadingTells
<1> QED
  BY <1>1, <1>2

\* What is done in the tab.
LEMMA SessionActs ==
  ASSUME SessionInv, UNCHANGED <<sessions, cookie, ctx, reads, past>>, events' = events + 1,
         jobs' = jobs \/ \E kind, whom : ctx # None /\ jobs' = jobs \cup {Session!Job(kind, whom)}
  PROVE  SessionInv'
<1>1. jobs' \subseteq jobs \/ \E kind, whom, token : Issued(token) /\
        jobs' \subseteq jobs \cup {[kind |-> kind, who |-> whom, token |-> token, id |-> events + 1, got |-> None]}
  <2>1. CASE jobs' = jobs
    BY <2>1
  <2>2. ASSUME NEW kind, NEW whom, jobs' = jobs \cup {Session!Job(kind, whom)}
        PROVE  Issued(cookie) /\ jobs' \subseteq jobs \cup {[kind |-> kind, who |-> whom, token |-> cookie, id |-> events + 1, got |-> None]}
    BY <2>2 DEF Session!Job, SessionInv
  <2> QED
    BY <2>1, <2>2
<1>2. events' \in Nat /\ events <= events'
  BY DEF SessionInv
<1>3. StaysIssued /\ StaysOut /\ ErrandsInv'
  BY <1>1, <1>2, FewerErrands
<1>4. ReadingsInv'
  BY <1>3, ReadingsGoOn
<1>5. SessionPast' /\ Issued(cookie)' /\ \A t \in DOMAIN sessions' : Issued(t)'
  BY <1>3 DEF SessionInv, SessionPast, StaysIssued
<1> QED
  BY <1>2, <1>3, <1>4, <1>5 DEF SessionInv, IsContext

LEMMA SessionSubmits ==
  ASSUME SessionInv, NEW p, NEW kind, NEW whom, Session!Submit(p, kind, whom) \/ Session!OnHome(kind)
  PROVE  SessionInv'
<1>1. UNCHANGED <<sessions, cookie, ctx, reads, past>> /\ events' = events + 1
  BY DEF Session!Submit, Session!OnHome, Session!Acts, Session!server
<1>2. \E k, w : ctx # None /\ jobs' = jobs \cup {Session!Job(k, w)}
  BY DEF Session!Submit, Session!OnHome
<1> QED
  BY <1>1, <1>2, SessionActs

\* What is done elsewhere: sessions end, and another begins under a token of its own.
LEMMA SessionElsewhere ==
  ASSUME SessionInv, Session!ElsewhereActs, Session!Moves,
         \/ cookie' = cookie /\ \E S : sessions' = Session!Only(sessions, S)
         \/ \E a : cookie' = Session!NextToken /\ sessions' = Session!With(sessions, Session!NextToken, a)
  PROVE  SessionInv'
<1>0. UNCHANGED <<ctx, jobs, reads>> /\ events' = events + 1 /\ events' \in Nat /\ past' = [past EXCEPT !.moved = past.begun]
  BY DEF Session!ElsewhereActs, Session!Moves, SessionInv
<1>1. SessionPast'
  BY <1>0 DEF SessionInv, SessionPast
<1>2. StaysIssued
  <2> SUFFICES ASSUME NEW t, Issued(t) PROVE Issued(t)'
    BY DEF StaysIssued
  <2> QED
    BY <1>0 DEF Issued, SessionInv
<1>3. PICK n \in Nat : n = events + 1
  BY <1>0
<1>7. Issued(n)'
  <2>1. \A j \in jobs : j.id # n
    BY <1>3 DEF SessionInv, ErrandsInv
  <2> QED
    BY <1>0, <1>3, <2>1 DEF Issued
<1>4. StaysOut /\ Issued(cookie)' /\ \A t \in DOMAIN sessions' : Issued(t)'
  <2>1. ASSUME cookie' = cookie, NEW S, sessions' = Session!Only(sessions, S)
        PROVE  StaysOut /\ Issued(cookie)' /\ \A t \in DOMAIN sessions' : Issued(t)'
    BY <1>2, <2>1 DEF StaysOut, StaysIssued, Session!Resolve, Session!Only, SessionInv
  <2>2. ASSUME NEW a, cookie' = Session!NextToken, sessions' = Session!With(sessions, Session!NextToken, a)
        PROVE  StaysOut /\ Issued(cookie)' /\ \A t \in DOMAIN sessions' : Issued(t)'
    <3>1. Session!NextToken = n
      BY <1>3 DEF Session!NextToken, SessionInv
    <3>2. \A t : Issued(t) => t # n
      BY <1>3, NoAnswerIsNone DEF Issued, SessionInv
    <3>3. \A t : t # n => Session!Resolve(t)' = Session!Resolve(t)
      BY <2>2, <3>1 DEF Session!With, Session!Resolve
    <3>4. Issued(cookie)' /\ \A t \in DOMAIN sessions' : Issued(t)'
      BY <1>2, <1>7, <2>2, <3>1 DEF Session!With, SessionInv, StaysIssued
    <3> QED
      BY <3>2, <3>3, <3>4 DEF StaysOut
  <2> QED
    BY <2>1, <2>2
<1>5. ErrandsInv'
  BY <1>0, <1>2, <1>4, ErrandsStay DEF SessionInv, ErrandsInv
<1>6. ReadingsInv'
  BY <1>0, <1>2, <1>4, ReadingsGoOn
<1> QED
  BY <1>0, <1>1, <1>4, <1>5, <1>6 DEF SessionInv, IsContext

\* What the server answers: a session may begin under the number of its request, which
\* nobody holds yet.
LEMMA SessionReplies ==
  ASSUME SessionInv, NEW j \in jobs, j.got = None,
         NEW status \in {200, 400, 401, 409, 410}, NEW token \in {None, j.id}, NEW to \in {"/", "/change-password", "/login", None},
         Session!Reply(j, status, token, to), Session!Alone, past' = past,
         j.kind = "work" /\ status = 401 => Session!Resolve(j.token) = None /\ sessions' = sessions,
         \/ \E S : sessions' = Session!Only(sessions, S)
         \/ sessions' = sessions
         \/ \E a : sessions' = Session!With(sessions, j.id, a)
  PROVE  SessionInv'
<1> DEFINE got == [status |-> status, cookie |-> token, to |-> to]
<1> DEFINE k == [j EXCEPT !.got = got]
<1>0. /\ UNCHANGED <<cookie, ctx, reads, events, past>> /\ jobs' = (jobs \ {j}) \cup {k}
      /\ IsErrand(j) /\ j.id \in Nat /\ j.id <= events /\ Issued(j.token)
  BY DEF Session!Alone, Session!Reply, SessionInv, ErrandsInv
<1>1. got # None
  BY <1>0, NoAnswerIsNone
<1>2. k.got = got /\ k.id = j.id /\ k.token = j.token /\ k.kind = j.kind /\ IsErrand(k)
  BY <1>0 DEF IsErrand
<1> HIDE DEF k
<1>3. StaysIssued
  <2> SUFFICES ASSUME NEW t, Issued(t) PROVE Issued(t)'
    BY DEF StaysIssued
  <2> QED
    BY <1>0, <1>1, <1>2 DEF Issued
<1>4. Issued(j.id)'
  <2>1. ASSUME NEW m \in jobs', m.got = None PROVE m.id # j.id
    <3>1. m \in jobs /\ m # j
      BY <1>0, <1>1, <1>2, <2>1
    <3> QED
      BY <3>1 DEF SessionInv, ErrandsInv
  <2> QED
    BY <1>0, <2>1 DEF Issued
<1>5. Issued(token)'
  BY <1>4 DEF Issued
<1>6. StaysOut /\ \A t \in DOMAIN sessions' : Issued(t)'
  <2>1. ASSUME NEW S, sessions' = Session!Only(sessions, S)
        PROVE  StaysOut /\ \A t \in DOMAIN sessions' : Issued(t)'
    BY <1>3, <2>1 DEF StaysOut, StaysIssued, Session!Resolve, Session!Only, SessionInv
  <2>2. CASE sessions' = sessions
    BY <1>3, <2>2 DEF StaysOut, StaysIssued, Session!Resolve, SessionInv
  <2>3. ASSUME NEW a, sessions' = Session!With(sessions, j.id, a)
        PROVE  StaysOut /\ \A t \in DOMAIN sessions' : Issued(t)'
    <3>1. \A t : Issued(t) => t # j.id
      BY <1>0, NoAnswerIsNone DEF Issued
    <3>2. \A t : t # j.id => Session!Resolve(t)' = Session!Resolve(t)
      BY <2>3 DEF Session!With, Session!Resolve
    <3>3. \A t \in DOMAIN sessions' : Issued(t)'
      BY <1>3, <1>4, <2>3 DEF Session!With, SessionInv, StaysIssued
    <3> QED
      BY <3>1, <3>2, <3>3 DEF StaysOut
  <2> QED
    BY <2>1, <2>2, <2>3
<1>7. ErrandsInv'
  <2>1. \A m \in jobs' : m = k \/ (m \in jobs /\ m # j)
    BY <1>0
  <2>2. Issued(k.token)' /\ ErrandTells(k)'
    <3>1. Issued(k.token)'
      BY <1>0, <1>2, <1>3 DEF StaysIssued
    <3>2. k.got.cookie = token /\ k.got.status = status
      BY <1>2
    <3>3. k.kind = "work" /\ status = 401 => Session!Resolve(k.token)' = None
      BY <1>0, <1>2, <1>6 DEF StaysOut
    <3> QED
      BY <1>5, <3>1, <3>2, <3>3 DEF ErrandTells
  <2>3. \A m \in jobs' : IsErrand(m) /\ m.id \in Nat /\ m.id <= events' /\ Issued(m.token)' /\ ErrandTells(m)'
    BY <1>0, <1>2, <1>3, <1>6, <2>1, <2>2, ErrandsStay DEF SessionInv, ErrandsInv
  <2>4. \A m, n \in jobs' : m.id = n.id => m = n
    BY <1>2, <2>1 DEF SessionInv, ErrandsInv
  <2> QED
    BY <2>3, <2>4 DEF ErrandsInv
<1>8. ReadingsInv'
  BY <1>0, <1>3, <1>6, ReadingsGoOn
<1> QED
  BY <1>0, <1>3, <1>6, <1>7, <1>8 DEF SessionInv, SessionPast, IsContext, StaysIssued

LEMMA SessionServes == ASSUME SessionInv, NEW j \in jobs, Session!Serve(j) \/ Session!Refuse(j) PROVE SessionInv'
<1>0. j.got = None /\ Session!Alone /\ past' = past
  BY DEF Session!Serve, Session!Refuse
<1>1. CASE Session!Start(j)
  <2>1. j.kind \in {"login", "register", "claim"} /\ \E a : sessions' = Session!With(sessions, j.id, a)
    BY <1>1 DEF Session!Start
  <2>2. PICK to \in {"/change-password", "/"} : Session!Reply(j, 200, j.id, to)
    BY <1>1 DEF Session!Start
  <2> QED
    BY <1>0, <2>1, <2>2, SessionReplies
<1>2. CASE Session!SignOut(j)
  <2>1. Session!Reply(j, 200, None, "/login") /\ \E S : sessions' = Session!Only(sessions, S)
    BY <1>2 DEF Session!SignOut
  <2> QED
    BY <1>0, <2>1, SessionReplies
<1>3. ASSUME NEW u, Session!Rotation(j, u) PROVE SessionInv'
  <2>1. PICK to \in {"/", None} : Session!Reply(j, 200, None, to)
    BY <1>3 DEF Session!Rotation
  <2>2. \E S : sessions' = Session!Only(sessions, S)
    BY <1>3 DEF Session!Rotation, Session!Rotate
  <2> QED
    BY <1>0, <2>1, <2>2, SessionReplies
<1>4. ASSUME NEW u, Session!Own(j, u) PROVE SessionInv'
  <2>1. PICK to \in {"/login", None} : Session!Reply(j, 200, None, to)
    BY <1>4 DEF Session!Own
  <2>2. sessions' = sessions \/ \E S : sessions' = Session!Only(sessions, S)
    BY <1>4 DEF Session!Own
  <2> QED
    BY <1>0, <2>1, <2>2, SessionReplies
<1>5. CASE Session!Refuse(j)
  <2>1. sessions' = sessions /\ Session!Reply(j, Session!Status(j), None, None)
    BY <1>5 DEF Session!Refuse, Session!server
  <2>2. Session!Status(j) \in {200, 400, 401, 409, 410}
    BY DEF Session!Status
  <2>3. j.kind = "work" /\ Session!Status(j) = 401 => Session!Resolve(j.token) = None
    BY DEF Session!Status
  <2> QED
    BY <1>0, <2>1, <2>2, <2>3, SessionReplies
<1> QED
  BY <1>1, <1>2, <1>3, <1>4, <1>5 DEF Session!Serve

\* What the tab does with an answer.
LEMMA SessionHears ==
  ASSUME SessionInv, NEW j \in jobs, UNCHANGED <<sessions, events>>, jobs' = jobs \ {j},
         SessionPast', IsContext(ctx'), cookie' = cookie \/ (j.got # None /\ cookie' = j.got.cookie),
         reads' = reads \/ \E token \in {cookie, cookie'} : \E n, for, to : reads' = reads \cup {[token |-> token, number |-> n, for |-> for, to |-> to, got |-> None]}
  PROVE  SessionInv'
<1>1. StaysIssued /\ StaysOut /\ ErrandsInv'
  <2>1. events' \in Nat /\ events <= events' /\ jobs' \subseteq jobs
    BY DEF SessionInv
  <2> QED
    BY <2>1, FewerErrands
<1>2. \A t \in {cookie, cookie'} : Issued(t)'
  <2>1. Issued(cookie) /\ (j.got # None => Issued(j.got.cookie))
    BY DEF SessionInv, ErrandsInv, ErrandTells
  <2> QED
    BY <1>1, <2>1 DEF StaysIssued
<1>3. ReadingsInv'
  BY <1>1, <1>2, ReadingsGoOn
<1>4. \A t \in DOMAIN sessions' : Issued(t)'
  BY <1>1 DEF SessionInv, StaysIssued
<1> QED
  BY <1>1, <1>2, <1>3, <1>4 DEF SessionInv, IsContext

LEMMA SessionDone == ASSUME SessionInv, NEW j \in jobs, Session!Done(j) PROVE SessionInv'
<1> DEFINE late == j.token # cookie
<1>1. /\ UNCHANGED <<sessions, events, ctx>> /\ jobs' = jobs \ {j} /\ j.got # None
      /\ cookie' = cookie \/ cookie' = j.got.cookie
  BY DEF Session!Done, Session!Kept, Session!server
<1>2. late \in BOOLEAN
  OBVIOUS
<1>3. \/ past' = [past EXCEPT !.begun = @ + 1, !.late = @ \/ late]
         /\ \E to : reads' = reads \cup {Session!Read(cookie', j.id, to)}
      \/ past' = [past EXCEPT !.late = @ \/ late] /\ reads' = reads
  BY DEF Session!Done, Session!Begin
<1> HIDE DEF late
<1>4. SessionPast'
  BY <1>2, <1>3 DEF SessionInv, SessionPast
<1>5. reads' = reads \/ \E token \in {cookie, cookie'} : \E n, for, to : reads' = reads \cup {[token |-> token, number |-> n, for |-> for, to |-> to, got |-> None]}
  BY <1>3 DEF Session!Read
<1>6. IsContext(ctx')
  BY <1>1 DEF SessionInv, IsContext
<1> QED
  BY <1>1, <1>4, <1>5, <1>6, SessionHears

LEMMA SessionRefused == ASSUME SessionInv, NEW j \in jobs, Session!Refused(j) PROVE SessionInv'
<1> DEFINE late == Session!Told(j) /\ j.token # cookie
<1>1. /\ UNCHANGED <<sessions, events, cookie, reads>> /\ jobs' = jobs \ {j} /\ past' = [past EXCEPT !.late = @ \/ late]
  BY DEF Session!Refused, Session!server
<1>2. late \in BOOLEAN
  BY DEF Session!Told
<1> HIDE DEF late
<1>3. SessionPast'
  BY <1>1, <1>2 DEF SessionInv, SessionPast
<1>4. IsContext(ctx')
  <2>1. ctx' \in {ctx, Session!NoOne(ctx.bootstrap), [ctx EXCEPT !.must = TRUE]}
    BY DEF Session!Refused
  <2>2. IsContext(Session!NoOne(ctx.bootstrap))
    BY DEF IsContext, Session!NoOne
  <2>3. IsContext(ctx)
    BY DEF SessionInv
  <2> QED
    BY <2>1, <2>2, <2>3 DEF IsContext
<1> QED
  BY <1>1, <1>3, <1>4, SessionHears

LEMMA SessionFails == ASSUME SessionInv, NEW j \in jobs, Session!JobFails(j) PROVE SessionInv'
<1> DEFINE miss == j.got # None
<1>1. UNCHANGED <<sessions, events, cookie, ctx>> /\ jobs' = jobs \ {j}
  BY DEF Session!JobFails, Session!server
<1>2. \/ past' = [past EXCEPT !.begun = @ + 1] /\ reads' = reads \cup {Session!Read(cookie, j.id, "/login")}
      \/ past' = [past EXCEPT !.missed = @ \/ miss] /\ reads' = reads
  BY DEF Session!JobFails
<1> HIDE DEF miss
<1>3. SessionPast'
  BY <1>2 DEF SessionInv, SessionPast
<1>4. reads' = reads \/ \E token \in {cookie, cookie'} : \E n, for, to : reads' = reads \cup {[token |-> token, number |-> n, for |-> for, to |-> to, got |-> None]}
  BY <1>2 DEF Session!Read
<1>5. IsContext(ctx')
  BY <1>1 DEF SessionInv, IsContext
<1> QED
  BY <1>1, <1>3, <1>4, <1>5, SessionHears

\* What is read, and what becomes of it.
LEMMA SessionReads ==
  ASSUME SessionInv, NEW r \in reads, Session!AnswerRead(r) \/ Session!Land(r) \/ Session!ReadFails(r)
  PROVE  SessionInv'
<1>0. UNCHANGED <<sessions, events, cookie, jobs>>
  BY DEF Session!AnswerRead, Session!Land, Session!ReadFails, Session!server
<1>1. StaysIssued /\ StaysOut /\ ErrandsInv'
  <2>1. events' \in Nat /\ events <= events' /\ jobs' \subseteq jobs
    BY <1>0 DEF SessionInv
  <2> QED
    BY <1>0, <2>1, FewerErrands
<1>2. Issued(cookie)' /\ \A t \in DOMAIN sessions' : Issued(t)'
  BY <1>0, <1>1 DEF SessionInv, StaysIssued
<1>3. CASE Session!AnswerRead(r)
  <2>1. ctx' = ctx /\ past' = past /\ reads' = (reads \ {r}) \cup {[r EXCEPT !.got = Session!Context(r.token)]}
    BY <1>3 DEF Session!AnswerRead
  <2>2. PICK k : k = [r EXCEPT !.got = Session!Context(r.token)]
    OBVIOUS
  <2>3. IsReading(k) /\ k.token = r.token /\ k.got = Session!Context(r.token) /\ Issued(r.token)
    BY <2>2 DEF SessionInv, ReadingsInv, IsReading
  <2>4. IsContext(k.got) /\ (k.got.user = None => Session!Resolve(k.token) = None)
    <3> DEFINE u == Session!Resolve(r.token)
               must == accounts[u].must
               profile == accounts[u].profile
               free == admin = None
    <3>1. Session!Context(r.token) = IF u = None THEN Session!NoOne(free)
                                     ELSE [user |-> u, must |-> must, profile |-> profile, bootstrap |-> free]
      BY DEF Session!Context
    <3> HIDE DEF u, must, profile, free
    <3>2. Session!Context(r.token).user = u /\ IsContext(Session!Context(r.token))
      <4>1. Session!NoOne(free) = [user |-> None, must |-> FALSE, profile |-> None, bootstrap |-> free]
        BY DEF Session!NoOne
      <4>2. PICK c : c = Session!Context(r.token)
        OBVIOUS
      <4>3. CASE u = None
        BY <3>1, <4>1, <4>2, <4>3 DEF IsContext
      <4>4. CASE u # None
        <5>1. c = [user |-> u, must |-> must, profile |-> profile, bootstrap |-> free]
          BY <3>1, <4>2, <4>4
        <5> QED
          BY <4>2, <5>1 DEF IsContext
      <4> QED
        BY <4>3, <4>4
    <3> QED
      BY <2>3, <3>2 DEF u
  <2>5. Issued(k.token)' /\ ReadingTells(k)'
    BY <1>0, <1>1, <2>3, <2>4 DEF StaysIssued, ReadingTells, Session!Resolve
  <2>6. ReadingsInv'
    BY <1>1, <2>1, <2>2, <2>3, <2>5, ReadingsStay DEF ReadingsInv
  <2> QED
    BY <1>0, <1>1, <1>2, <2>1, <2>6 DEF SessionInv, SessionPast, IsContext
<1>4. CASE Session!Land(r) \/ Session!ReadFails(r)
  <2>1. ReadingsInv'
    BY <1>1, <1>4, ReadingsGoOn DEF Session!Land, Session!ReadFails
  <2>2. IsContext(ctx')
    <3>1. CASE Session!Land(r)
      BY <3>1 DEF Session!Land, SessionInv, ReadingsInv, ReadingTells
    <3>2. CASE Session!ReadFails(r)
      <4>1. ctx' = Session!NoOne(FALSE) \/ (ctx' = ctx /\ ctx # None)
        BY <3>2 DEF Session!ReadFails
      <4> QED
        BY <4>1 DEF SessionInv, IsContext, Session!NoOne
    <3> QED
      BY <1>4, <3>1, <3>2
  <2>3. SessionPast'
    <3> DEFINE late == r.number < past.newest \/ r.token # cookie
               n == IF past.newest < r.number THEN r.number ELSE past.newest
    <3>1. late \in BOOLEAN
      OBVIOUS
    <3>2. past' = [past EXCEPT !.newest = n, !.late = @ \/ late] \/ past' = [past EXCEPT !.missed = TRUE]
      BY <1>4 DEF Session!Land, Session!ReadFails
    <3> HIDE DEF late, n
    <3> QED
      BY <3>1, <3>2 DEF SessionInv, SessionPast
  <2> QED
    BY <1>0, <1>1, <1>2, <2>1, <2>2, <2>3 DEF SessionInv
<1> QED
  BY <1>3, <1>4

LEMMA SessionKeeps == ASSUME SessionInv, Session!Next PROVE SessionInv'
<1>1. ASSUME NEW a \in Holders, Session!Login(a) \/ Session!Register(a) \/ Session!ClaimAdmin(a) PROVE SessionInv'
  BY <1>1, SessionSubmits DEF Session!Login, Session!Register, Session!ClaimAdmin
<1>2. ASSUME NEW a \in Holders, Session!OtherTab(a) PROVE SessionInv'
  BY <1>2, SessionElsewhere DEF Session!OtherTab
<1>3. ASSUME NEW a \in Holders, Session!AdminResets(a) PROVE SessionInv'
  <2>1. cookie' = cookie /\ Session!ElsewhereActs /\ Session!Moves /\ \E S : sessions' = Session!Only(sessions, S)
    BY <1>3 DEF Session!AdminResets
  <2> QED
    BY <2>1, SessionElsewhere
<1>4. ASSUME NEW k, Session!Expire(k) PROVE SessionInv'
  <2>1. cookie' = cookie /\ Session!ElsewhereActs /\ Session!Moves /\ \E S : sessions' = Session!Only(sessions, S)
    BY <1>4 DEF Session!Expire
  <2> QED
    BY <2>1, SessionElsewhere
<1>5. CASE Session!ChangePassword \/ Session!Logout \/ Session!DeleteMe \/ Session!SaveProfile \/ Session!SavePassword \/ Session!Work
  BY <1>5, SessionSubmits DEF Session!ChangePassword, Session!Logout, Session!DeleteMe, Session!SaveProfile, Session!SavePassword, Session!Work
<1>6. ASSUME NEW p, Session!Follow(p) PROVE SessionInv'
  BY <1>6, SessionActs DEF Session!Follow, Session!Acts, Session!server
<1> QED
  BY <1>1, <1>2, <1>3, <1>4, <1>5, <1>6, SessionReads, SessionServes, SessionDone, SessionRefused, SessionFails DEF Session!Next

\* Who is taken to be signed out is so, or what said so came late.
LEMMA LoginsHold == ASSUME SessionInv, Session!Next PROVE Session!LoginHolds
<1> SUFFICES ASSUME ctx # None, ctx.user # None, ctx'.user = None PROVE Session!Resolve(cookie) = None \/ past'.late
  BY DEF Session!LoginHolds
<1>1. IsContext(ctx)
  BY DEF SessionInv
<1>2. ASSUME NEW r \in reads, Session!Land(r) PROVE Session!Resolve(cookie) = None \/ past'.late
  <2>1. Session!Resolve(r.token) = None
    BY <1>2 DEF Session!Land, SessionInv, ReadingsInv, ReadingTells
  <2>2. r.token # cookie => past'.late
    BY <1>2 DEF Session!Land, SessionInv, SessionPast
  <2> QED
    BY <2>1, <2>2
<1>3. ASSUME NEW j \in jobs, Session!Refused(j) PROVE Session!Resolve(cookie) = None \/ past'.late
  <2>1. Session!Told(j) /\ j.got # None /\ j.got.status = 401
    BY <1>1, <1>3 DEF Session!Refused, IsContext
  <2>2. Session!Resolve(j.token) = None
    BY <2>1 DEF Session!Told, SessionInv, ErrandsInv, ErrandTells
  <2>3. j.token # cookie => past'.late
    BY <1>3, <2>1 DEF Session!Refused, SessionInv, SessionPast
  <2> QED
    BY <2>2, <2>3
<1>4. ASSUME ctx' = ctx PROVE FALSE
  BY <1>4
<1>5. ASSUME NEW j \in jobs, Session!Serve(j) \/ Session!Refuse(j) \/ Session!Done(j) \/ Session!JobFails(j) PROVE ctx' = ctx
  BY <1>5 DEF Session!Serve, Session!Refuse, Session!Done, Session!JobFails, Session!Alone
<1>6. ASSUME NEW r \in reads, Session!AnswerRead(r) \/ Session!ReadFails(r) PROVE ctx' = ctx
  BY <1>6 DEF Session!AnswerRead, Session!ReadFails
<1>7. ASSUME NEW p, NEW kind, NEW whom, Session!Submit(p, kind, whom) \/ Session!OnHome(kind) PROVE ctx' = ctx
  BY <1>7 DEF Session!Submit, Session!OnHome, Session!Acts
<1>8. ASSUME NEW a, Session!Login(a) \/ Session!Register(a) \/ Session!ClaimAdmin(a) PROVE ctx' = ctx
  BY <1>7, <1>8 DEF Session!Login, Session!Register, Session!ClaimAdmin
<1>9. ASSUME NEW a, Session!OtherTab(a) \/ Session!AdminResets(a) \/ Session!Expire(a) \/ Session!Follow(a) PROVE ctx' = ctx
  BY <1>9 DEF Session!OtherTab, Session!AdminResets, Session!Expire, Session!Follow, Session!ElsewhereActs, Session!Acts
<1>10. ASSUME Session!ChangePassword \/ Session!Logout \/ Session!DeleteMe \/ Session!SaveProfile \/ Session!SavePassword \/ Session!Work
       PROVE  ctx' = ctx
  BY <1>7, <1>10 DEF Session!ChangePassword, Session!Logout, Session!DeleteMe, Session!SaveProfile, Session!SavePassword, Session!Work
<1> QED
  BY <1>2, <1>3, <1>4, <1>5, <1>6, <1>8, <1>9, <1>10 DEF Session!Next

-----------------------------------------------------------------------------
(* The pages whose operations start from what they list *)

ChoicesInv ==
  /\ mounted = "reports" => ReportsInv
  /\ mounted = "overlays" => OverlaysInv
  /\ mounted = "teams" => TeamsInv
  /\ mounted = "catalog" => CatalogInv

LEMMA ChoicesRest ==
  ASSUME ChoicesInv, UNCHANGED <<mounted, account>>
  PROVE  ChoicesInv'
<1>1. mounted' = mounted
  OBVIOUS
<1>2. mounted = "reports" => ReportsInv'
  <2> SUFFICES ASSUME ReportsInv PROVE ReportsInv'
    BY DEF ChoicesInv
  <2>1. UNCHANGED <<past, ctl, job, selected, overlays>>
    BY DEF account, OfReports
  <2>2. ReportsPast' /\ ControlsInv' /\ DeletionGoesOn
    BY <2>1, DeletionRests DEF ReportsInv, ReportsPast, ControlsInv
  <2> QED
    BY <2>1, <2>2, ReportsGoOn
<1>3. mounted = "overlays" => OverlaysInv'
  <2> SUFFICES ASSUME OverlaysInv PROVE OverlaysInv'
    BY DEF ChoicesInv
  <2>1. UNCHANGED <<list, past, cards, page, loads>>
    BY DEF account, OfOverlays, shared
  <2>2. OverlaysControls' /\ AreCards(cards')
    BY <2>1 DEF OverlaysInv, OverlaysControls
  <2> QED
    BY <2>1, <2>2, OverlaysRest
<1>4. mounted = "teams" => TeamsInv'
  <2> SUFFICES ASSUME TeamsInv PROVE TeamsInv'
    BY DEF ChoicesInv
  <2>1. UNCHANGED <<members, named, groups, jobs, loads, past, events, cards, asked>>
    BY DEF account, OfTeams, shared
  <2>2. events \in Nat /\ AreGroupCards(cards)
    BY DEF TeamsInv, TeamsPast, TeamsShape
  <2>3. events' \in Nat /\ events <= events' /\ AreGroupCards(cards') /\ SameBusy(cards')
    BY <2>1, <2>2 DEF SameBusy
  <2> QED
    BY <2>1, <2>3, TeamsRest
<1>5. mounted = "catalog" => CatalogInv'
  <2> SUFFICES ASSUME CatalogInv PROVE CatalogInv'
    BY DEF ChoicesInv
  <2>1. UNCHANGED <<teams, used, catalog, loads, past, jobs, asked, view, editor, json, ticked>>
    BY DEF account, OfCatalog, shared
  <2>2. CatalogView' /\ CatalogTasks'
    BY <2>1 DEF CatalogInv, CatalogShape, CatalogView, CatalogTasks
  <2>3. (Catalog!Deleting => Catalog!Deleting') /\ (Changing => Changing')
    BY <2>1 DEF Catalog!Deleting, Changing
  <2> QED
    BY <2>1, <2>2, <2>3, CatalogStays
<1> QED
  BY <1>1, <1>2, <1>3, <1>4, <1>5 DEF ChoicesInv

LEMMA ChoicesBegin == ASSUME PagesInit PROVE ChoicesInv
BY ReportsBegins, OverlaysBegins, TeamsBegins, CatalogBegins DEF PagesInit, AccountInit, ChoicesInv

LEMMA ChoicesKeep ==
  ASSUME ChoicesInv, [PagesNext]_<<mounted, pageVars, account>>
  PROVE  ChoicesInv'
<1>1. CASE UNCHANGED <<mounted, account>>
  BY <1>1, ChoicesRest
<1>2. CASE AccountNext
  <2>1. mounted' = mounted
    BY <1>2 DEF AccountNext
  <2>2. mounted = "reports" => ReportsInv'
    BY <1>2, ReportsKeep DEF AccountNext, ChoicesInv
  <2>3. mounted = "overlays" => OverlaysInv'
    BY <1>2, OverlaysKeep DEF AccountNext, ChoicesInv
  <2>4. mounted = "teams" => TeamsInv'
    BY <1>2, TeamsKeep DEF AccountNext, ChoicesInv
  <2>5. mounted = "catalog" => CatalogInv'
    BY <1>2, CatalogKeep DEF AccountNext, ChoicesInv
  <2> QED
    BY <2>1, <2>2, <2>3, <2>4, <2>5 DEF ChoicesInv
<1> QED
  BY <1>1, <1>2 DEF PagesNext

\* A deletion takes reports of the scope they were chosen in, a description is renamed from the
\* one listed, a card that can be used shows its group as it is, and a tick stays on its team
\* (ReportsPage.tsx, OverlaysPage.tsx, TeamsPage.tsx, AdminTeamsPage.tsx), but for the cases the
\* pages name, for any matches, boards, groups, teams, operations and failures.
THEOREM ChoicesStayCurrent == PagesSpec => []ChoicesAreCurrent
<1>1. PagesInit => ChoicesInv
  BY ChoicesBegin
<1>2. ChoicesInv /\ [PagesNext]_<<mounted, pageVars, account>> => ChoicesInv'
  BY ChoicesKeep
<1>3. ChoicesInv => ChoicesAreCurrent
  BY OverlaysHold, TeamsHold, CatalogHolds DEF ChoicesInv, ChoicesAreCurrent, ReportsInv
<1> QED
  BY <1>1, <1>2, <1>3, PTL DEF PagesSpec

-----------------------------------------------------------------------------
(* What a step may never do. *)

StepsInv == PageInv /\ ChoicesInv /\ (mounted = "session" => SessionInv)

LEMMA StepsBegin == ASSUME PagesInit PROVE StepsInv
<1>1. PageInv
  BY PageStarts DEF PagesInit
<1>2. mounted = "session" => SessionInv
  <2> SUFFICES ASSUME mounted = "session" PROVE Session!Init
    BY SessionBegins
  <2> QED
    BY DEF PagesInit, AccountInit
<1> QED
  BY <1>1, <1>2, ChoicesBegin DEF StepsInv

LEMMA SessionRests ==
  ASSUME SessionInv, UNCHANGED <<OfSession, shared, events, failures, past>>
  PROVE  SessionInv'
<1>1. UNCHANGED <<sessions, cookie, ctx, jobs, reads, events, past>>
  BY DEF OfSession, shared
<1> QED
  BY <1>1 DEF SessionInv, SessionPast, ErrandsInv, ReadingsInv, Issued, IsErrand, IsReading, IsContext, ErrandTells, ReadingTells,
     Session!Resolve

LEMMA StepsKeep ==
  ASSUME StepsInv, [PagesNext]_<<mounted, pageVars, account>>
  PROVE  StepsInv'
<1>1. PageInv'
  <2>1. [PageNext]_pageVars
    BY DEF PagesNext
  <2> QED
    BY <2>1, PageSteps DEF StepsInv
<1>2. mounted' = mounted /\ (mounted = "session" => SessionInv')
  <2>1. CASE UNCHANGED <<mounted, account>>
    <3>1. UNCHANGED <<OfSession, shared, events, failures, past>>
      BY <2>1 DEF account
    <3> QED
      BY <2>1, <3>1, SessionRests DEF StepsInv
  <2>2. CASE AccountNext
    <3>1. mounted' = mounted
      BY <2>2 DEF AccountNext
    <3>2. mounted = "session" => Session!Next
      BY <2>2 DEF AccountNext
    <3> QED
      BY <3>1, <3>2, SessionKeeps DEF StepsInv
  <2> QED
    BY <2>1, <2>2 DEF PagesNext
<1> QED
  BY <1>1, <1>2, ChoicesKeep DEF StepsInv

LEMMA StepsAreTold ==
  ASSUME StepsInv, PagesNext
  PROVE  /\ mounted = "overlay" => AlertsFollowTheTeam
         /\ mounted = "catalog" => Catalog!FilterKeepsTheEditor
         /\ mounted = "session" => Session!LoginHolds
<1>1. ASSUME mounted = "overlay" PROVE AlertsFollowTheTeam
  <2>1. [PageNext]_pageVars
    BY DEF PagesNext
  <2> QED
    BY <2>1, AlertsAreOfTheDifference DEF StepsInv
<1>2. ASSUME mounted = "catalog" PROVE Catalog!FilterKeepsTheEditor
  <2>1. Catalog!Next
    BY <1>2 DEF PagesNext, AccountNext
  <2> QED
    BY <1>2, <2>1, FilterKeeps DEF StepsInv, ChoicesInv
<1>3. ASSUME mounted = "session" PROVE Session!LoginHolds
  <2>1. Session!Next
    BY <1>3 DEF PagesNext, AccountNext
  <2> QED
    BY <1>3, <2>1, LoginsHold DEF StepsInv
<1> QED
  BY <1>1, <1>2, <1>3

\* An alert is of the team that has just won, the row that is being edited stays whatever is typed
\* into the filter, and a tab is signed out only if its cookie is nobody's (app.js, AdminTeamsPage.tsx,
\* AuthContext.tsx), but for the cases the pages name, for any pushes, teams, accounts and failures.
THEOREM StepsDoNotMislead == PagesSpec => NoStepMisleads
<1>1. PagesInit => StepsInv
  BY StepsBegin
<1>2. StepsInv /\ [PagesNext]_<<mounted, pageVars, account>> => StepsInv'
  BY StepsKeep
<1>3. StepsInv /\ [PagesNext]_<<mounted, pageVars, account>> =>
        [ /\ mounted = "overlay" => AlertsFollowTheTeam
          /\ mounted = "catalog" => Catalog!FilterKeepsTheEditor
          /\ mounted = "session" => Session!LoginHolds ]_<<mounted, pageVars, account>>
  BY StepsAreTold
<1> QED
  BY <1>1, <1>2, <1>3, PTL DEF PagesSpec, NoStepMisleads
=============================================================================
