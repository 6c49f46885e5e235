------------------------------- MODULE Session -------------------------------
(***************************************************************************)
(* The session of a browser tab: the token in memory, the interceptors     *)
(* that attach and drop it, the login page and the guard around the shell  *)
(* (web/src/store/auth.ts, api/client.ts, pages/Login.tsx, App.tsx), and   *)
(* the cached list of the user's playlists (hooks/usePlaylists.ts), whose  *)
(* key does not name the user and which outlives a logout.                 *)
(*                                                                         *)
(* Nothing aborts a request: those of one session may be answered in the   *)
(* next.  Each callback of the tab is a step.                              *)
(***************************************************************************)
EXTENDS Naturals

CONSTANTS
    Users,
    Requests,   \* the requests that can be under way at a time: a bound
    MaxLogins,  \* bound on the logins that are tried
    MaxVersion, \* bound on the creates of a user, but for those under way
    Faults,     \* which failures may happen, a subset of FaultKinds
    Nil         \* no token, no request, no data

\* "db":  the server answers 500.
\* "net": the connection breaks; the server may still carry the request out.
FaultKinds == {"db", "net"}

\* A token names its user, and the login that brought it.
Token == [user : Users, login : 1..MaxLogins]

ASSUME FaultsAssumption == Faults \subseteq FaultKinds
ASSUME BoundsAssumption == MaxLogins \in Nat /\ MaxVersion \in Nat

VARIABLES
    token,      \* of the auth store, or Nil
    page,       \* "login", or "shell" for the pages behind RequireAuth
    loading,    \* the login the present login page waits for, or Nil
    query,      \* the cached playlists, and the fetch that is to renew them
    req,        \* req[r]: request r, or Nil
    logins,     \* how many logins have been tried
    expired,    \* the tokens that the server does not accept any more
    version     \* version[u]: how many playlists user u has on the server

vars == <<token, page, loading, query, req, logins, expired, version>>

List == [owner : Users, version : Nat]

\* token: what the request carries, or the one that a login is for.  code and
\* list: the answer.  abandoned: nobody waits for it any more.
Request == [op : {"login", "list", "create", "add"}, token : Token \cup {Nil},
            stage : {"sent", "served", "abandoned"},
            code : {0, 200, 401, 403, 500}, list : List \cup {Nil}]

\* outdated is history: whether what the cache has or is about to get may be
\* another user's list or an old one, see OwnListShown.
Query == [data : List \cup {Nil}, request : Requests \cup {Nil},
          stage : {"idle", "first", "waiting", "second"},
          invalid : BOOLEAN, outdated : BOOLEAN]

ASSUME NilAssumption == Nil \notin Token \cup Requests \cup Request \cup List

TypeOK ==
    /\ token   \in Token \cup {Nil}
    /\ page    \in {"login", "shell"}
    /\ loading \in Requests \cup {Nil}
    /\ query   \in Query
    /\ req     \in [Requests -> Request \cup {Nil}]
    /\ logins  \in 0..MaxLogins
    /\ expired \in SUBSET Token
    /\ version \in [Users -> Nat]

NoQuery == [data |-> Nil, request |-> Nil, stage |-> "idle",
            invalid |-> FALSE, outdated |-> FALSE]

Init ==
    /\ token   = Nil
    /\ page    = "login"
    /\ loading = Nil
    /\ query   = NoQuery
    /\ req     = [r \in Requests |-> Nil]
    /\ logins  = 0
    /\ expired = {}
    /\ version = [u \in Users |-> 0]

-----------------------------------------------------------------------------
(* Sending.  The request interceptor attaches the token of the moment. *)

Unused(rs) == {r \in Requests : rs[r] = Nil}

Sent(rs, r, op, t) ==
    [rs EXCEPT ![r] = [op |-> op, token |-> t, stage |-> "sent", code |-> 0, list |-> Nil]]

Over(r) == [req EXCEPT ![r] = Nil]

\* A fetch of the list begins; one that is on its way is not waited for.
Ask(rs, q) ==
    \E r \in Unused(rs) :
        /\ req' = Sent(rs, r, "list", token')
        /\ query' = [q EXCEPT !.stage = "first", !.request = r, !.outdated = FALSE]

\* The caller makes do with the fetch on its way, whosever token that carries.
Join(rs, q) ==
    /\ req' = rs
    /\ query' = [q EXCEPT !.outdated =
           \/ q.outdated
           \/ q.request # Nil /\ (q.invalid \/ rs[q.request].token # token')]

\* A component with usePlaylists mounts: stale data are fetched again.
Mount(rs, q) == IF q.stage = "idle" THEN Ask(rs, q) ELSE Join(rs, q)

\* Mutant of Invalidate: the list is only marked.
InvalidateOnly(rs, q) == req' = rs /\ query' = [q EXCEPT !.invalid = TRUE]

\* invalidateQueries: a list on display is fetched again, in place of a fetch on
\* its way if there are data already.
Invalidate(rs, q) ==
    LET marked == [q EXCEPT !.invalid = TRUE]
    IN  IF page = "login" THEN req' = rs /\ query' = marked
        ELSE IF q.stage = "idle" \/ q.data # Nil THEN Ask(rs, marked)
        ELSE Join(rs, marked)

-----------------------------------------------------------------------------
(* The user *)

\* Login.submit; what token the request carries is of no interest to anybody.
Submit ==
    /\ page = "login" /\ loading = Nil
    /\ logins < MaxLogins
    /\ logins' = logins + 1
    /\ \E r \in Unused(req), u \in Users :
           /\ req' = Sent(req, r, "login", [user |-> u, login |-> logins'])
           /\ loading' = r
    /\ UNCHANGED <<token, page, query, expired, version>>

\* Back from the shell to the login page; a token that is there stays.
Back ==
    /\ page = "shell"
    /\ page' = "login" /\ loading' = Nil
    /\ UNCHANGED <<token, query, req, logins, expired, version>>

\* Forward to the shell; without a token RequireAuth leads to a new login page.
Forward ==
    /\ page = "login"
    /\ loading' = Nil
    /\ IF token # Nil THEN page' = "shell" /\ token' = token /\ Mount(req, query)
                      ELSE UNCHANGED <<token, page, query, req>>
    /\ UNCHANGED <<logins, expired, version>>

Logout ==
    /\ page = "shell"
    /\ token' = Nil /\ page' = "login" /\ loading' = Nil
    /\ UNCHANGED <<query, req, logins, expired, version>>

\* Another page, or another row with its menu.
MountMore ==
    /\ page = "shell"
    /\ token' = token
    /\ Mount(req, query)
    /\ UNCHANGED <<page, loading, logins, expired, version>>

Create ==
    /\ page = "shell" /\ version[token.user] < MaxVersion
    /\ \E r \in Unused(req) : req' = Sent(req, r, "create", token)
    /\ UNCHANGED <<token, page, loading, query, logins, expired, version>>

-----------------------------------------------------------------------------
(* The server *)

\* RequireAuth.
Accepted(t) == t # Nil /\ t \notin expired

\* Mutant of Codes: having no playlists is a 404.
CodesNotFound(r) ==
    IF req[r].op = "list" /\ version[req[r].token.user] = 0 THEN {404} ELSE {200, 401}

Codes(r) ==
    LET any == IF "db" \in Faults THEN {500} ELSE {}
    IN  CASE req[r].op = "login" -> {200, 401} \cup any
          [] req[r].op # "login" /\ ~Accepted(req[r].token) -> {401}
          [] req[r].op = "add" /\ Accepted(req[r].token) -> {200, 403} \cup any
          [] OTHER -> {200} \cup any

Serve(r) ==
    /\ req[r] # Nil /\ req[r].stage \in {"sent", "abandoned"}
    /\ \E code \in Codes(r) :
           LET u == req[r].token.user
               created == req[r].op = "create" /\ code = 200
               list == IF req[r].op # "list" \/ code # 200 THEN Nil
                       ELSE [owner |-> u, version |-> version[u]]
           IN  /\ req' = IF req[r].stage = "abandoned" THEN Over(r)
                         ELSE [req EXCEPT ![r] =
                             [op |-> @.op, token |-> @.token, stage |-> "served",
                              code |-> code, list |-> list]]
               /\ version' = IF created THEN [version EXCEPT ![u] = @ + 1] ELSE version
               /\ query' = [query EXCEPT
                      !.outdated = @ \/ (created /\ req[r].stage = "abandoned")]
    /\ UNCHANGED <<token, page, loading, logins, expired>>

\* A token in use is past its JWT_TTL, or the server has got another JWT_SECRET.
Expire ==
    /\ \E t \in Token :
           /\ t = token \/ \E r \in Requests : req[r] # Nil /\ req[r].token = t
           /\ expired' = expired \cup {t}
    /\ UNCHANGED <<token, page, loading, query, req, logins, version>>

-----------------------------------------------------------------------------
(* Answers *)

\* The query tries once more a second later, but not for a page that has gone.
Failed(r) ==
    IF r # query.request THEN query' = query
    ELSE \/ /\ query.stage = "first" /\ page = "shell"
            /\ query' = [query EXCEPT !.stage = "waiting", !.request = Nil]
         \/ /\ query.stage = "second" \/ page' = "login"
            /\ query' = [query EXCEPT !.stage = "idle", !.request = Nil, !.outdated = TRUE]

\* Mutant of Refused: every error ends the session.
RefusedForAny(r) ==
    /\ req[r].code \in {401, 403, 500}
    /\ token' = Nil /\ page' = "login"
    /\ loading' = IF page = "shell" \/ loading = r THEN Nil ELSE loading
    /\ Failed(r)
    /\ req' = Over(r)

\* "On 401 the token is stale/invalid": the interceptor logs out.
Refused(r) ==
    /\ req[r].code = 401
    /\ token' = Nil /\ page' = "login"
    /\ loading' = IF page = "shell" \/ loading = r THEN Nil ELSE loading
    /\ Failed(r)
    /\ req' = Over(r)

\* Login.submit goes on: login(data.token, data.user); navigate("/").
LoggedIn(r) ==
    /\ req[r].op = "login" /\ req[r].code = 200
    /\ token' = req[r].token /\ page' = "shell" /\ loading' = Nil
    /\ IF page = "login" THEN Mount(Over(r), query)
       ELSE req' = Over(r) /\ query' = [query EXCEPT !.outdated = TRUE]

GotList(r) ==
    /\ req[r].op = "list" /\ req[r].code = 200
    /\ req' = Over(r)
    /\ query' = IF r # query.request THEN query
                ELSE [query EXCEPT !.data = req[r].list, !.request = Nil,
                                   !.stage = "idle", !.invalid = FALSE]
    /\ UNCHANGED <<token, page, loading>>

\* onSuccess of useCreatePlaylist, then what the caller awaits it for: the dialog
\* shows the new playlist, the menu (createAndAdd) adds a track to it, with
\* whatever token there is by now.
Created(r) ==
    /\ req[r].op = "create" /\ req[r].code = 200
    /\ UNCHANGED <<token, page, loading>>
    /\ \/ Invalidate(Over(r), query)
       \/ \E a \in Unused(req) : Invalidate(Sent(Over(r), a, "add", token), query)

\* Any other answer; if it is one to a login, the button works again.
Other(r) ==
    /\ \/ req[r].code \in {403, 500}
       \/ req[r].op = "add" /\ req[r].code = 200
    /\ loading' = IF loading = r THEN Nil ELSE loading
    /\ UNCHANGED <<token, page>>
    /\ Failed(r)
    /\ req' = Over(r)

Receive(r) ==
    /\ req[r] # Nil /\ req[r].stage = "served"
    /\ Refused(r) \/ LoggedIn(r) \/ GotList(r) \/ Created(r) \/ Other(r)
    /\ UNCHANGED <<logins, expired, version>>

\* The connection of r breaks, before or after the request got through.  What the
\* server does with it from then on is of interest for a create only.
GiveUp(r) ==
    /\ "net" \in Faults
    /\ req[r] # Nil /\ req[r].stage \in {"sent", "served"}
    /\ loading' = IF loading = r THEN Nil ELSE loading
    /\ UNCHANGED <<token, page, logins, expired, version>>
    /\ \/ req' = Over(r)
       \/ /\ req[r].op = "create" /\ req[r].stage = "sent"
          /\ req' = [req EXCEPT ![r].stage = "abandoned"]
    /\ IF req[r].op = "create" /\ req[r].code = 200
       THEN query' = [query EXCEPT !.outdated = TRUE]
       ELSE Failed(r)

\* Mutant of RetryDue: also for a page that has gone.
RetryAlways ==
    /\ query.stage = "waiting"
    /\ \E r \in Unused(req) :
           /\ req' = Sent(req, r, "list", token)
           /\ query' = [query EXCEPT !.stage = "second", !.request = r, !.outdated = FALSE]
    /\ UNCHANGED <<token, page, loading, logins, expired, version>>

\* The second has passed.
RetryDue ==
    /\ query.stage = "waiting"
    /\ \/ /\ page = "shell"
          /\ \E r \in Unused(req) :
                 /\ req' = Sent(req, r, "list", token)
                 /\ query' = [query EXCEPT
                        !.stage = "second", !.request = r, !.outdated = FALSE]
       \/ /\ page = "login"
          /\ query' = [query EXCEPT !.stage = "idle", !.outdated = TRUE]
          /\ UNCHANGED req
    /\ UNCHANGED <<token, page, loading, logins, expired, version>>

\* gcTime after the last component that used the list has gone.
Forget ==
    /\ page = "login" /\ query.stage = "idle" /\ query.data # Nil
    /\ query' = NoQuery
    /\ UNCHANGED <<token, page, loading, req, logins, expired, version>>

-----------------------------------------------------------------------------
Next ==
    \/ Submit \/ Back \/ Forward \/ Logout \/ MountMore \/ Create
    \/ \E r \in Requests : Serve(r) \/ Receive(r) \/ GiveUp(r)
    \/ Expire \/ RetryDue \/ Forget

Spec == Init /\ [][Next]_vars

-----------------------------------------------------------------------------
(* What the session promises. *)

\* At rest the pages behind the guard show the playlists of the user who is
\* logged in, all of them, although the cache outlives logouts and requests of
\* earlier sessions come home late.  It takes one of the following to show
\* another user's list or an old one: a component joins a fetch that was begun
\* under another token or before a change, a login ends after the user went
\* forward again, a fetch fails twice, or a create whose answer is lost.
OwnListShown ==
    /\ page = "shell" /\ query.stage = "idle" /\ query.data # Nil /\ ~query.outdated
    /\ \A r \in Requests :
           req[r] # Nil => req[r].op # "create"
    => query.data = [owner |-> token.user, version |-> version[token.user]]

\* The guard: behind it there is a session.  And no list is ever asked for
\* outside of one, although a fetch is tried again by a timer and a login page
\* may have come in between; only the second half of createAndAdd is.
AskedInSession ==
    /\ page = "shell" => token # Nil
    /\ \A r \in Requests :
           req[r] # Nil /\ req[r].token = Nil => req[r].op \in {"login", "add"}

\* Why a session ends: the user logs out or in again; the server refuses its own
\* token, which has expired; or the tab gets the 401 of a failed login, or of a
\* request from outside the session, that comes late and finds this one.
SessionEndsForCause ==
    [][token # Nil /\ token' # token =>
           \/ Logout
           \/ \E r \in Requests :
                  /\ req[r] # Nil /\ req[r].stage = "served" /\ req'[r] # req[r]
                  /\ \/ req[r].op = "login"
                     \/ /\ req[r].code = 401
                        /\ req[r].token # token \/ token \in expired]_vars

\* "Your playlists", says the home page: what is on display at rest belongs to
\* whoever is logged in.  It does not where a fetch of another session is joined,
\* or where a login ends on a page that is there already: the key of the query
\* does not name the user.
YourPlaylists ==
    page = "shell" /\ query.stage = "idle" /\ query.data # Nil =>
        query.data.owner = token.user

\* "On 401 the token is stale/invalid", says the response interceptor, and drops
\* the one of the moment: it is then one that the server does not accept.  Not so
\* if the refused request was sent in an earlier session.
DroppedIsStale ==
    [][token # Nil /\ token' = Nil =>
           \/ Logout
           \/ \E r \in Requests : req[r] # Nil /\ req[r].op = "login" /\ Receive(r)
           \/ token \in expired]_vars
=============================================================================
