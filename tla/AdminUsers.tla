------------------------------ MODULE AdminUsers ------------------------------
(***************************************************************************)
(* The accounts as an admin manages them (frontend pages/AdminPage.tsx,    *)
(* hooks/useAsyncAction.ts; routes/admin_users.py, auth/service.py).  One  *)
(* action runs at a time on the page; another admin works elsewhere.  The  *)
(* server counts the admins, and writes the change afterwards.             *)
(***************************************************************************)
EXTENDS Naturals

CONSTANTS
  Accounts,     \* accounts there can be
  Admins,       \* those that are admins at first
  Plain,        \* those that are users at first
  Me,           \* the admin whose page this is
  MaxEvents,    \* bound on what admins do
  MaxFailures,  \* bound on requests that fail
  None

AdminUsersAssumption ==
  /\ Admins \cup Plain \subseteq Accounts /\ Admins \cap Plain = {} /\ Me \in Admins
  /\ None \notin Accounts \cup Nat /\ MaxEvents \in Nat /\ MaxFailures \in Nat

VARIABLES
  users,    \* server: of each account, admin, active, password, must_change
  open,     \* server: whether anyone may register
  session,  \* server: whether the page's session stands
  ctx,      \* what the page knows of its own account: "admin", "user" or "out"
  listed,   \* users, as listed
  label,    \* registrationOpen
  tempCred, \* the password on the page, and whose it is
  busy,     \* the action under way
  asked,    \* the action a dialog asks about
  jobs, loads, events, failures,
  past      \* history, see below

server == <<users, open, session>>
page == <<ctx, listed, label, tempCred, busy>>
vars == <<server, page, asked, jobs, loads, events, failures, past>>

\* past.begun, past.newest: reads begun, and the latest to have arrived, the answer of
\* the registration's switch being one.  past.missed: one
\* came after a later one or could not be read, or an answer was lost.  past.elsewhere:
\* the other admin has done something.  past.overlapped: a change was written that the
\* admins had been counted for before another one was.

Usable(us) == {a \in DOMAIN us : us[a].admin /\ us[a].active}
With(f, x, v) == [y \in DOMAIN f \cup {x} |-> IF y = x THEN v ELSE f[y]]
Without(f, x) == [y \in DOMAIN f \ {x} |-> f[y]]

-----------------------------------------------------------------------------
(* Reading the list *)

Load(for) ==
  /\ loads' = loads \cup {[number |-> past.begun + 1, for |-> for, kind |-> "load", users |-> None, open |-> None]}
  /\ past' = [past EXCEPT !.begun = @ + 1]

Refresh(for) ==
  /\ loads' = loads \cup {[number |-> 0, for |-> for, kind |-> "refresh", users |-> None, open |-> None]}
  /\ UNCHANGED past

\* Whether the session names an account that may act, and one that may administer.
Known == session /\ Me \in DOMAIN users /\ users[Me].active
Reads == Known /\ users[Me].admin

AnswerUsers(l) ==
  /\ l.kind = "load" /\ l.users = None /\ Reads
  /\ loads' = (loads \ {l}) \cup {[l EXCEPT !.users = users]}
  /\ UNCHANGED <<server, page, asked, jobs, events, failures, past>>

AnswerOpen(l) ==
  /\ l.kind = "load" /\ l.open = None /\ Reads
  /\ loads' = (loads \ {l}) \cup {[l EXCEPT !.open = open]}
  /\ UNCHANGED <<server, page, asked, jobs, events, failures, past>>

Freed(for) == IF busy = for THEN None ELSE busy

Land(l) ==
  /\ l.users # None /\ l.open # None /\ loads' = loads \ {l}
  /\ listed' = l.users /\ label' = l.open /\ busy' = Freed(l.for)
  /\ past' = [past EXCEPT !.newest = IF @ < l.number THEN l.number ELSE @,
                          !.missed = @ \/ l.number < past.newest]
  /\ UNCHANGED <<server, ctx, tempCred, asked, jobs, events, failures>>

\* What the server says of the session.
Standing == IF ~Known THEN "out" ELSE IF Reads THEN "admin" ELSE "user"

RefreshLands(l) ==
  /\ l.kind = "refresh" /\ ctx' = Standing
  /\ LET rest == loads \ {l} IN
     IF Standing = "admin"
     THEN /\ loads' = rest \cup {[number |-> past.begun + 1, for |-> 0, kind |-> "load", users |-> None, open |-> None]}
          /\ past' = [past EXCEPT !.begun = @ + 1]
     ELSE loads' = rest /\ UNCHANGED past
  /\ busy' = Freed(l.for)
  /\ UNCHANGED <<server, listed, label, tempCred, asked, jobs, events, failures>>

\* 401 clears the context; 403 is shown as an error.
LoadRefused(l) ==
  /\ l.kind = "load" /\ ~Reads /\ None \in {l.users, l.open}
  /\ loads' = loads \ {l} /\ busy' = Freed(l.for)
  /\ ctx' = IF Known THEN ctx ELSE "out"
  /\ UNCHANGED <<server, listed, label, tempCred, asked, jobs, events, failures, past>>

LoadFails(l) ==
  /\ failures < MaxFailures /\ failures' = failures + 1
  /\ loads' = loads \ {l} /\ busy' = Freed(l.for) /\ past' = [past EXCEPT !.missed = TRUE]
  /\ UNCHANGED <<server, ctx, listed, label, tempCred, asked, jobs, events>>

-----------------------------------------------------------------------------
(* What the admin does *)

Job(kind, who, value, by) ==
  [kind |-> kind, who |-> who, value |-> value, by |-> by, id |-> events + 1, stage |-> "sent"]

OnPage == ctx = "admin" /\ asked = None
Acts == events < MaxEvents /\ events' = events + 1 /\ UNCHANGED <<server, ctx, listed, label, loads, failures, past>>

\* useAsyncRunner: one pending flag for the whole page.
Run(j) == busy = None /\ OnPage /\ Acts /\ jobs' = jobs \cup {j} /\ busy' = j.id /\ UNCHANGED <<tempCred, asked>>
Ask(j) == busy = None /\ OnPage /\ Acts /\ asked' = j /\ UNCHANGED <<jobs, busy, tempCred>>

CreateUser(a, role) ==
  /\ busy = None /\ OnPage /\ Acts /\ tempCred' = None
  /\ LET j == Job("create", a, role, Me) IN jobs' = jobs \cup {j} /\ busy' = j.id
  /\ UNCHANGED asked

LockLastAdmin(a) == Usable(listed) = {a}

ResetPw(a) == Run(Job("reset", a, None, Me))

ToggleActive(a) == ~LockLastAdmin(a) /\ Run(Job("active", a, ~listed[a].active, Me))

ToggleRole(a) ==
  /\ ~LockLastAdmin(a)
  /\ LET j == Job("role", a, ~listed[a].admin, Me) IN
     IF a = Me /\ listed[a].admin THEN Ask(j) ELSE Run(j)

Delete(a) == ~LockLastAdmin(a) /\ Ask(Job("delete", a, None, Me))

ToggleRegistration ==
  LET j == Job("registration", None, ~label, Me) IN IF label THEN Run(j) ELSE Ask(j)

Answer(yes) ==
  /\ asked # None /\ asked' = None
  /\ IF yes THEN jobs' = jobs \cup {asked} /\ busy' = asked.id ELSE UNCHANGED <<jobs, busy>>
  /\ UNCHANGED <<server, ctx, listed, label, tempCred, loads, events, failures, past>>

\* The other admin, on a page of their own, of which only the requests matter here.
Elsewhere(o, kind, a) ==
  /\ o # Me /\ o \in Usable(users) /\ Acts /\ jobs' = jobs \cup {Job(kind, a, FALSE, o)}
  /\ UNCHANGED <<tempCred, busy, asked>>

-----------------------------------------------------------------------------
(* What the server does *)

Allowed(j) == IF j.by = Me THEN Reads ELSE j.by \in Usable(users)
There(j) == j.who \in DOMAIN users
Removes(j) == j.kind = "delete" \/ (j.kind \in {"role", "active"} /\ ~j.value)
LastAdmin(a) == Usable(users) = {a}

Goes(j, stage) == jobs' = (jobs \ {j}) \cup {[j EXCEPT !.stage = stage]}
Alone == UNCHANGED <<page, asked, loads, events, failures>>

\* Mutant: the last admin can be deactivated
CheckLoose(j) ==
  /\ j.stage = "sent" /\ Removes(j) /\ Allowed(j) /\ There(j) /\ (j.kind # "active" => ~LastAdmin(j.who))
  /\ Goes(j, "checked") /\ UNCHANGED <<server, past>> /\ Alone

\* is_last_active_admin counts the admins before anything is written.
Check(j) ==
  /\ j.stage = "sent" /\ Removes(j) /\ Allowed(j) /\ There(j) /\ ~LastAdmin(j.who)
  /\ Goes(j, "checked") /\ UNCHANGED <<server, past>> /\ Alone

Write(j) ==
  /\ IF Removes(j) THEN j.stage = "checked" ELSE j.stage = "sent" /\ Allowed(j)
  /\ Goes(j, "done") /\ Alone
  /\ \/ /\ j.kind = "create" /\ ~There(j) /\ UNCHANGED <<open, session>>
        /\ users' = With(users, j.who, [admin |-> j.value, active |-> TRUE, password |-> j.id, must |-> TRUE])
     \/ /\ There(j) /\ j.kind = "reset" /\ UNCHANGED open
        /\ users' = [users EXCEPT ![j.who].password = j.id, ![j.who].must = TRUE]
        /\ session' = (session /\ j.who # Me)
     \/ /\ There(j) /\ UNCHANGED <<open, session>>
        /\ users' = CASE j.kind = "role"   -> [users EXCEPT ![j.who].admin = j.value]
                      [] j.kind = "active" -> [users EXCEPT ![j.who].active = j.value]
                      [] OTHER -> users
        /\ j.kind \in {"role", "active"}
     \/ /\ There(j) /\ j.kind = "delete" /\ users' = Without(users, j.who)
        /\ session' = (session /\ j.who # Me) /\ UNCHANGED open
     \/ j.kind = "registration" /\ open' = j.value /\ UNCHANGED <<users, session>>
  /\ past' = [past EXCEPT !.elsewhere = @ \/ j.by # Me,
       !.overlapped = @ \/ (Removes(j) /\ \E k \in jobs \ {j} : k.stage = "checked")]

-----------------------------------------------------------------------------
(* What the page does with the answers *)

Credential(j) == [user |-> j.who, password |-> j.id]
Still == UNCHANGED <<server, ctx, listed, asked, events, failures>>

\* The password is shown, then the list read, all within the one action.
CredentialDone(j) ==
  /\ j.kind \in {"create", "reset"} /\ tempCred' = Credential(j) /\ Load(j.id)
  /\ UNCHANGED <<label, busy>> /\ Still

ChangeDone(j) ==
  /\ j.kind \in {"role", "active", "delete"}
  /\ IF j.who = Me /\ j.kind # "active" THEN Refresh(j.id) ELSE Load(j.id)
  /\ UNCHANGED <<label, tempCred, busy>> /\ Still

RegistrationDone(j) ==
  /\ j.kind = "registration" /\ label' = j.value /\ busy' = Freed(j.id)
  /\ past' = [past EXCEPT !.begun = @ + 1, !.newest = past.begun + 1]
  /\ UNCHANGED <<loads, tempCred>> /\ Still

Done(j) == /\ j.stage = "done" /\ j.by = Me /\ jobs' = jobs \ {j}
           /\ CredentialDone(j) \/ ChangeDone(j) \/ RegistrationDone(j)

DoneElsewhere(j) == /\ j.stage = "done" /\ j.by # Me /\ jobs' = jobs \ {j}
                    /\ UNCHANGED <<label, tempCred, busy, loads, past>> /\ Still

\* The error is shown; the switch of the registration is read again.
Failed(j) ==
  /\ jobs' = jobs \ {j}
  /\ IF j.kind = "registration"
     THEN Load(j.id) /\ UNCHANGED busy
     ELSE /\ busy' = Freed(j.id) /\ UNCHANGED loads
          /\ past' = [past EXCEPT !.missed = @ \/ (j.stage = "done" /\ j.by = Me)]
  /\ UNCHANGED <<server, listed, label, tempCred, asked, events>>

Refuse(j) ==
  /\ j.stage = "sent" /\ Failed(j) /\ UNCHANGED failures
  /\ \/ ~Allowed(j)
     \/ j.kind = "create" /\ There(j)
     \/ j.kind \notin {"create", "registration"} /\ ~There(j)
     \/ Removes(j) /\ LastAdmin(j.who)
  /\ ctx' = IF j.by = Me /\ ~Known THEN "out" ELSE ctx

\* What was deleted since it was checked is written nowhere.
Vanished(j) == j.stage = "checked" /\ ~There(j) /\ Failed(j) /\ UNCHANGED <<ctx, failures>>

JobFails(j) == j.by = Me /\ j.stage # "checked" /\ failures < MaxFailures /\ failures' = failures + 1 /\ Failed(j) /\ UNCHANGED ctx

-----------------------------------------------------------------------------
\* The page, once it has first read its list.
Init ==
  /\ users = [a \in Admins \cup Plain |-> [admin |-> a \in Admins, active |-> TRUE, password |-> 0, must |-> FALSE]]
  /\ open = FALSE /\ session = TRUE /\ ctx = "admin"
  /\ listed = users /\ label = open /\ tempCred = None /\ busy = None /\ asked = None
  /\ jobs = {} /\ loads = {} /\ events = 0 /\ failures = 0
  /\ past = [begun |-> 1, newest |-> 1, missed |-> FALSE, elsewhere |-> FALSE, overlapped |-> FALSE]

Next ==
  \/ \E l \in loads : AnswerUsers(l) \/ AnswerOpen(l) \/ Land(l) \/ RefreshLands(l) \/ LoadRefused(l) \/ LoadFails(l)
  \/ \E a \in Accounts : \E role \in BOOLEAN : CreateUser(a, role)
  \/ \E a \in DOMAIN listed : ResetPw(a) \/ ToggleActive(a) \/ ToggleRole(a) \/ Delete(a)
  \/ ToggleRegistration
  \/ \E yes \in BOOLEAN : Answer(yes)
  \/ \E o \in Admins, a \in Accounts, kind \in {"role", "delete"} : Elsewhere(o, kind, a)
  \/ \E j \in jobs : Check(j) \/ Write(j) \/ Done(j) \/ DoneElsewhere(j) \/ Refuse(j) \/ Vanished(j) \/ JobFails(j)

Spec == Init /\ [][Next]_vars

-----------------------------------------------------------------------------
(* Properties *)

\* What the accounts' guard is for: somebody can administer the instance.
SomeoneAdministers == Usable(users) # {}

\* Somebody can administer the instance.  Named exception: two changes whose admins were
\* counted before either was written.
AnAdminRemains == past.overlapped \/ SomeoneAdministers

\* A password on the page is the one its user now has, if only this page changes them.
CredentialsAreCurrent ==
  tempCred # None /\ ~past.missed /\ busy = None /\ tempCred.user \in DOMAIN users =>
    users[tempCred.user].password = tempCred.password

\* With nothing under way, and nobody else about, a page that is still there shows the
\* accounts and the switch as they are; and one whose admin is no more is not there.
UsersAgree ==
  jobs = {} /\ loads = {} /\ ~past.missed /\ ~past.elsewhere =>
    IF Reads THEN ctx = "admin" => listed = users /\ label = open
    ELSE ctx # "admin"

=============================================================================
