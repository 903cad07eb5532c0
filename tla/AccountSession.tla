---------------------------- MODULE AccountSession ----------------------------
(***************************************************************************)
(* Who a tab takes itself to be signed in as (frontend auth/AuthContext,   *)
(* auth/RequireAuth, AppRouter, api/http.ts and the pages that sign in and *)
(* out; auth/routes.py, auth/sessions.py, auth/dependencies.py).  The      *)
(* server knows sessions, the browser holds the cookie of one, and the tab *)
(* a context it reads again after whatever changes it: each request has    *)
(* the cookie of when it was sent, and each answer takes effect when it    *)
(* comes.                                                                  *)
(***************************************************************************)
EXTENDS Naturals

CONSTANTS
  Accounts,     \* accounts there can be
  Existing,     \* those there are at first
  MaxEvents,    \* bound on what is done, here and elsewhere
  MaxFailures,  \* bound on requests that fail
  None

Answers == [status : {200, 400, 401, 409, 410}, cookie : Nat \cup {None}, to : {"/", "/change-password", "/login", None}]

AccountSessionAssumption ==
  /\ Existing \subseteq Accounts /\ None \notin Accounts \cup Nat /\ None \notin Answers
  /\ MaxEvents \in Nat /\ MaxFailures \in Nat

VARIABLES
  accounts, \* server: of each account, must_change_password and its profile
  sessions, \* server: of each token of a session, the account
  admin,    \* server: the account of the admin, None before there is one
  cookie,   \* browser: the token, None without one
  ctx,      \* tab: the context: user, must, profile, needs_admin_bootstrap; None before it is read
  path,     \* tab: where it is
  busy,     \* tab: the request of the form that is mounted
  jobs, reads, events, failures,
  past      \* history, see below

server == <<accounts, sessions, admin>>
vars == <<server, cookie, ctx, path, busy, jobs, reads, events, failures, past>>

\* past.begun, past.newest: reads of the context begun, and the latest to have arrived.
\* past.missed: one failed, or an answer was lost.
\* past.moved: how many had begun when something was last done elsewhere.
\* past.late: one came after a later one, or an answer came for a cookie that was no longer
\* the browser's.

Public == {"/login", "/register", "/claim-admin"}
NoOne(open) == [user |-> None, must |-> FALSE, profile |-> None, bootstrap |-> open]

With(f, x, v) == [y \in DOMAIN f \cup {x} |-> IF y = x THEN v ELSE f[y]]
Only(f, S) == [y \in DOMAIN f \cap S |-> f[y]]

\* resolve_session: the account of a cookie.
Resolve(token) == IF token \in DOMAIN sessions THEN sessions[token] ELSE None

\* GET /auth/context: always an answer, of somebody or of nobody.
Context(token) ==
  LET u == Resolve(token) IN
  IF u = None THEN NoOne(admin = None)
  ELSE [user |-> u, must |-> accounts[u].must, profile |-> accounts[u].profile, bootstrap |-> admin = None]

-----------------------------------------------------------------------------
(* Where the tab is *)

\* RequireAuth, PublicOnly and the page of the first admin, in one redirection...
Redirected(p, c) ==
  IF c = None THEN p
  ELSE IF p \notin Public /\ c.user = None THEN "/login"
  ELSE IF p = "/" /\ c.must THEN "/change-password"
  ELSE IF p \in Public /\ c.user # None /\ ~c.must THEN "/"
  ELSE IF p = "/claim-admin" /\ ~c.bootstrap THEN "/login"
  ELSE p

\* ... and in as many as it takes.
Guarded(p, c) == Redirected(Redirected(Redirected(p, c), c), c)

\* A form that is left is no longer busy.
Goes(p, c) == /\ path' = Guarded(p, c)
              /\ busy' = IF path' = path THEN busy ELSE None

-----------------------------------------------------------------------------
(* Reading the context *)

\* For a form's request, and where its page goes afterwards.
Read(token, for, to) == [token |-> token, number |-> past.begun + 1, for |-> for, to |-> to, got |-> None]

AnswerRead(r) ==
  /\ r.got = None /\ reads' = (reads \ {r}) \cup {[r EXCEPT !.got = Context(r.token)]}
  /\ UNCHANGED <<server, cookie, ctx, path, busy, jobs, events, failures, past>>

\* The page goes on, mounted still or not; a form is free again.
Onward(r, c) ==
  LET p == IF r.to = None THEN path ELSE r.to IN
  /\ path' = Guarded(p, c)
  /\ busy' = IF path' # path \/ busy = r.for THEN None ELSE busy

Land(r) ==
  /\ r.got # None /\ reads' = reads \ {r} /\ ctx' = r.got /\ Onward(r, r.got)
  /\ past' = [past EXCEPT !.newest = IF @ < r.number THEN r.number ELSE @,
                          !.late = @ \/ r.number < past.newest \/ r.token # cookie]
  /\ UNCHANGED <<server, cookie, jobs, events, failures>>

\* Mutant: a context that cannot be read is nobody's
ReadFailsOut(r) ==
  /\ failures < MaxFailures /\ failures' = failures + 1 /\ reads' = reads \ {r}
  /\ ctx' = NoOne(FALSE) /\ Onward(r, ctx')
  /\ past' = [past EXCEPT !.missed = TRUE] /\ UNCHANGED <<server, cookie, jobs, events>>

\* What is known stays; nobody is known if nothing is.
ReadFails(r) ==
  /\ failures < MaxFailures /\ failures' = failures + 1 /\ reads' = reads \ {r}
  /\ ctx' = IF ctx = None THEN NoOne(FALSE) ELSE ctx
  /\ Onward(r, ctx') /\ past' = [past EXCEPT !.missed = TRUE]
  /\ UNCHANGED <<server, cookie, jobs, events>>

-----------------------------------------------------------------------------
(* What is done in the tab *)

Job(kind, who) == [kind |-> kind, who |-> who, token |-> cookie, id |-> events + 1, got |-> None]
Acts == events < MaxEvents /\ events' = events + 1 /\ UNCHANGED <<server, cookie, ctx, reads, failures, past>>

Submit(p, kind, who) ==
  /\ ctx # None /\ path = p /\ busy = None /\ Acts
  /\ LET j == Job(kind, who) IN jobs' = jobs \cup {j} /\ busy' = j.id
  /\ UNCHANGED path

Login(a) == Submit("/login", "login", a)
Register(a) == Submit("/register", "register", a) /\ ~ctx.bootstrap
ClaimAdmin(a) == Submit("/claim-admin", "claim", a)
ChangePassword == Submit("/change-password", "password", None)

\* The account's own page, and what any page does: nothing there waits for another.
OnHome(kind) == ctx # None /\ path = "/" /\ Acts /\ jobs' = jobs \cup {Job(kind, None)} /\ UNCHANGED <<path, busy>>
Logout == OnHome("logout")
DeleteMe == OnHome("delete")
SaveProfile == OnHome("profile")
SavePassword == OnHome("rotate")
Work == OnHome("work")

Follow(p) == /\ ctx # None /\ path \in Public \cup {"/"} /\ Guarded(p, ctx) = p /\ p # path
             /\ Acts /\ path' = p /\ busy' = None /\ UNCHANGED jobs

-----------------------------------------------------------------------------
(* ... and elsewhere: another tab of the browser, an admin, time *)

ElsewhereActs == events < MaxEvents /\ events' = events + 1 /\ UNCHANGED <<admin, ctx, path, busy, jobs, reads, failures>>
Moves == past' = [past EXCEPT !.moved = past.begun]

NextToken == 1 + events
OtherTab(a) == /\ a \in DOMAIN accounts /\ ElsewhereActs /\ Moves /\ UNCHANGED accounts
               /\ sessions' = With(sessions, NextToken, a) /\ cookie' = NextToken
AdminResets(a) == /\ a \in DOMAIN accounts /\ admin # None /\ ElsewhereActs /\ Moves /\ UNCHANGED cookie
                  /\ accounts' = [accounts EXCEPT ![a].must = TRUE]
                  /\ sessions' = Only(sessions, {k \in DOMAIN sessions : sessions[k] # a})
Expire(k) == /\ k \in DOMAIN sessions /\ ElsewhereActs /\ Moves /\ UNCHANGED <<accounts, cookie>>
             /\ sessions' = Only(sessions, DOMAIN sessions \ {k})

-----------------------------------------------------------------------------
(* What the server does *)

\* An answer: the cookie it sets, if any, and where the page goes from there.
Reply(j, status, token, to) ==
  jobs' = (jobs \ {j}) \cup {[j EXCEPT !.got = [status |-> status, cookie |-> token, to |-> to]]}
Alone == UNCHANGED <<cookie, ctx, path, busy, reads, events, failures>>

\* A new session, of an account there is or of a new one (registration is pinned open); the
\* page of login knows from the answer whether a password must be changed.
Start(j) ==
  /\ \/ j.kind = "login" /\ j.who \in DOMAIN accounts /\ UNCHANGED <<accounts, admin>>
     \/ /\ j.kind = "register" /\ j.who \notin DOMAIN accounts /\ UNCHANGED admin
        /\ accounts' = With(accounts, j.who, [must |-> FALSE, profile |-> j.id])
     \/ /\ j.kind = "claim" /\ admin = None /\ j.who \notin DOMAIN accounts /\ admin' = j.who
        /\ accounts' = With(accounts, j.who, [must |-> FALSE, profile |-> j.id])
  /\ sessions' = With(sessions, j.id, j.who)
  /\ Reply(j, 200, j.id, IF accounts'[j.who].must THEN "/change-password" ELSE "/")

\* Every other session of the account is revoked.
Rotate(j, u) ==
  /\ accounts' = [accounts EXCEPT ![u].must = FALSE]
  /\ sessions' = Only(sessions, {k \in DOMAIN sessions : sessions[k] # u \/ k = j.token})

\* What anybody signed in may do, whoever must change a password included.
Rotation(j, u) == /\ j.kind \in {"password", "rotate"} /\ Rotate(j, u) /\ UNCHANGED admin
                  /\ Reply(j, 200, None, IF j.kind = "password" THEN "/" ELSE None)

SignOut(j) ==
  /\ j.kind = "logout" /\ sessions' = Only(sessions, DOMAIN sessions \ {j.token})
  /\ Reply(j, 200, None, "/login") /\ UNCHANGED <<accounts, admin>>

\* What the rest needs: require_user.
Own(j, u) ==
  /\ ~accounts[u].must /\ UNCHANGED admin
  /\ \/ j.kind = "work" /\ Reply(j, 200, None, None) /\ UNCHANGED <<accounts, sessions>>
     \/ /\ j.kind = "profile" /\ Reply(j, 200, None, None)
        /\ accounts' = [accounts EXCEPT ![u].profile = j.id] /\ UNCHANGED sessions
     \/ /\ j.kind = "delete" /\ u # admin /\ Reply(j, 200, None, "/login")
        /\ accounts' = Only(accounts, DOMAIN accounts \ {u})
        /\ sessions' = Only(sessions, {k \in DOMAIN sessions : sessions[k] # u})

Serve(j) ==
  /\ j.got = None /\ Alone /\ UNCHANGED past
  /\ \/ Start(j)
     \/ SignOut(j)
     \/ \E u \in {Resolve(j.token)} \ {None} : Rotation(j, u) \/ Own(j, u)

Signed == {"password", "rotate", "work", "profile", "delete"}
Status(j) ==
  LET u == Resolve(j.token) IN
  IF j.kind \in Signed /\ u = None THEN 401
  ELSE IF j.kind \in Signed \ {"password", "rotate"} /\ u # None /\ accounts[u].must THEN 409
  ELSE IF j.kind = "delete" /\ u = admin THEN 400
  ELSE IF j.kind = "login" /\ j.who \notin DOMAIN accounts THEN 401
  ELSE IF j.kind = "register" /\ j.who \in DOMAIN accounts THEN 400
  ELSE IF j.kind = "claim" /\ (admin # None \/ j.who \in DOMAIN accounts) THEN 410
  ELSE 200

Refuse(j) == /\ j.got = None /\ Status(j) # 200 /\ Alone /\ UNCHANGED <<server, past>>
             /\ Reply(j, Status(j), None, None)

-----------------------------------------------------------------------------
(* What the tab does with the answers *)

\* Starting a session sets the cookie, and ending one clears it.
Kept(j) == IF j.kind \in {"login", "register", "claim", "logout", "delete"} THEN j.got.cookie ELSE cookie

Begin(token, for, to, late) ==
  /\ reads' = reads \cup {Read(token, for, to)}
  /\ past' = [past EXCEPT !.begun = @ + 1, !.late = @ \/ late]

\* What changes the account or the session is followed by a read; a password changed on
\* the account's own page is not.
ReadsAgain(j) == j.kind \notin {"work", "rotate"}

Done(j) ==
  /\ j.got # None /\ j.got.status = 200 /\ jobs' = jobs \ {j} /\ cookie' = Kept(j)
  /\ IF ReadsAgain(j) THEN Begin(cookie', j.id, j.got.to, j.token # cookie)
     ELSE past' = [past EXCEPT !.late = @ \/ j.token # cookie] /\ UNCHANGED reads
  /\ UNCHANGED <<server, ctx, path, busy, events, failures>>

\* api/http.ts tells of a 401 and of a 409, but for the routes of authentication; whoever
\* signs out is taken on even if that failed.
Told(j) == j.kind = "work"

Refused(j) ==
  /\ j.got # None /\ j.got.status # 200 /\ jobs' = jobs \ {j}
  /\ ctx' = CASE Told(j) /\ j.got.status = 401 /\ ctx.user # None ->
                   NoOne(ctx.bootstrap)
              [] Told(j) /\ j.got.status = 409 /\ ctx.user # None -> [ctx EXCEPT !.must = TRUE]
              [] OTHER -> ctx
  /\ past' = [past EXCEPT !.late = @ \/ (Told(j) /\ j.token # cookie)]
  /\ path' = Guarded(path, ctx') /\ busy' = IF path' # path \/ busy = j.id THEN None ELSE busy
  /\ UNCHANGED <<server, cookie, reads, events, failures>>

JobFails(j) ==
  /\ failures < MaxFailures /\ failures' = failures + 1 /\ jobs' = jobs \ {j}
  /\ busy' = IF busy = j.id THEN None ELSE busy
  /\ IF j.kind = "logout"
     THEN /\ reads' = reads \cup {Read(cookie, j.id, "/login")}
          /\ past' = [past EXCEPT !.begun = @ + 1]
     ELSE past' = [past EXCEPT !.missed = @ \/ j.got # None] /\ UNCHANGED reads
  /\ UNCHANGED <<server, cookie, ctx, path, events>>

-----------------------------------------------------------------------------
Init ==
  /\ accounts = [a \in Existing |-> [must |-> FALSE, profile |-> 0]] /\ admin \in {None} \cup Existing
  /\ sessions \in {<<>>} \cup {With(<<>>, 0, a) : a \in Existing}
  /\ cookie = (IF sessions = <<>> THEN None ELSE 0) /\ ctx = None /\ path \in Public \cup {"/"} /\ busy = None
  /\ reads = {[token |-> cookie, number |-> 1, for |-> None, to |-> None, got |-> None]}
  /\ jobs = {} /\ events = 0 /\ failures = 0
  /\ past = [begun |-> 1, newest |-> 0, missed |-> FALSE, moved |-> 0, late |-> FALSE]

Next ==
  \/ \E r \in reads : AnswerRead(r) \/ Land(r) \/ ReadFails(r)
  \/ \E a \in Accounts : Login(a) \/ Register(a) \/ ClaimAdmin(a) \/ OtherTab(a) \/ AdminResets(a)
  \/ ChangePassword \/ Logout \/ DeleteMe \/ SaveProfile \/ SavePassword \/ Work
  \/ \E p \in Public \cup {"/"} : Follow(p)
  \/ \E k \in DOMAIN sessions : Expire(k)
  \/ \E j \in jobs : Serve(j) \/ Refuse(j) \/ Done(j) \/ Refused(j) \/ JobFails(j)

Spec == Init /\ [][Next]_vars

-----------------------------------------------------------------------------
(* Properties *)

\* With nothing under way, and nothing changed elsewhere since the context was last read,
\* the tab takes itself for the account of the browser's cookie, and is where that
\* account belongs.
ContextAgrees ==
  jobs = {} /\ reads = {} /\ ~past.missed /\ ~past.late /\ past.moved < past.newest =>
    ctx = Context(cookie) /\ path = Guarded(path, ctx) /\ busy = None

\* A tab that took itself to be signed in takes itself to be signed out only when the
\* cookie is nobody's, whatever is done elsewhere.  Named exception: an answer that came
\* late, of a read or of a request.
LoginHolds ==
  ctx # None /\ ctx.user # None /\ ctx'.user = None =>
    Resolve(cookie) = None \/ past'.late

=============================================================================
