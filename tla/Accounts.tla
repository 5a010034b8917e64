--------------------------------- MODULE Accounts ---------------------------------
(***************************************************************************)
(* Accounts, sign-in and the sockets of a login                            *)
(* (src/server/api/UsersApi.ts, AuthApi.ts, auth/*, db/UserStore.ts, the   *)
(* handshake of services/WebSocketServer.ts).                              *)
(*                                                                         *)
(* A route runs in one piece up to its await of the body and in one piece  *)
(* after it.  PATCH and POST are therefore two actions each, and what was  *)
(* read or allowed before the await is as old as the body is slow.  Routes *)
(* that await nothing, or read everything after it, are one action.        *)
(***************************************************************************)
EXTENDS Integers, FiniteSets

CONSTANTS
    MaxUsers,   \* bound on the ids of accounts
    Tokens,     \* session tokens; each is issued once
    Sockets,    \* names for open websockets
    Requests,   \* names for PATCH and POST requests whose body is awaited
    None

Ids == 1..MaxUsers
Implicit == 1   \* IMPLICIT_ADMIN_ID: the account of open mode
Roles == {"admin", "user"}
Accounts == [role : Roles, disabled : BOOLEAN, password : BOOLEAN]

\* The body of a PATCH: "keep" stands for a field it does not have.
Changes == [role : Roles \cup {"keep"}, disabled : {"yes", "no", "keep"}, password : BOOLEAN]

Patches == [op : {"patch"}, id : Ids, target : Accounts]
Posts == [op : {"post"}]
\* A token and the account it was issued for.  The store has a row for those
\* that are live; what became of the others is kept for the properties.
Sessions == [state : {"unused", "live", "expired", "ended"}, user : Ids]
Logins == [user : Ids, token : Tokens \cup {None}]

ASSUME AccountsAssumption ==
    /\ MaxUsers \in Nat \ {0}
    /\ None \notin Accounts \cup Patches \cup Posts \cup Logins \cup Tokens

VARIABLES
    users,        \* the table of accounts
    authEnabled,  \* sign-in is on (locked mode) or off (open mode)
    sessions,     \* the table of sessions, by token
    sockets,      \* liveSockets: who a socket acts as, and the session it belongs to
    requests      \* PATCH and POST requests between the gate and their body

vars == <<users, authEnabled, sessions, sockets, requests>>

TypeOK ==
    /\ users \in [Ids -> Accounts \cup {None}]
    /\ authEnabled \in BOOLEAN
    /\ sessions \in [Tokens -> Sessions]
    /\ sockets \in [Sockets -> Logins \cup {None}]
    /\ requests \in [Requests -> Patches \cup Posts \cup {None}]

Enabled(u) == users[u] # None /\ ~users[u].disabled
EnabledAdmin(u) == Enabled(u) /\ users[u].role = "admin"
EnabledAdmins == {u \in Ids : EnabledAdmin(u)}
\* countEnabledAdminsWithPassword() >= 1
AdminCanSignIn == \E u \in Ids : EnabledAdmin(u) /\ users[u].password

\* findValid() and the checks that follow it, in the gate and in the handshake.
Live(t) == sessions[t].state = "live"
SignedIn(t) == Live(t) /\ Enabled(sessions[t].user)

\* requireOperator(): in open mode every caller is the implicit admin.
MayOperate ==
    IF authEnabled THEN \E t \in Tokens : SignedIn(t) /\ users[sessions[t].user].role = "admin"
                   ELSE users[Implicit] # None /\ users[Implicit].role = "admin"

\* Variant: the last-admin rule looks at the role alone.
IsLastEnabledAdminByRole(account) ==
    /\ account.role = "admin"
    /\ Cardinality({u \in Ids : users[u] # None /\ users[u].role = "admin"}) <= 1
\* countEnabledAdmins() <= 1, asked of one who is counted.
IsLastEnabledAdmin(account) ==
    /\ account.role = "admin" /\ ~account.disabled
    /\ \A u, w \in EnabledAdmins : u = w

\* The id SQLite gives to a new row: the greatest one in the table, and one.
IsNextId(u) ==
    /\ \A w \in Ids : w >= u => users[w] = None
    /\ u > 1 => users[u - 1] # None

-----------------------------------------------------------------------------
\* A new store: the implicit admin has no password, and sign-in is off.
Init ==
    /\ users = [u \in Ids |-> IF u = Implicit
                              THEN [role |-> "admin", disabled |-> FALSE, password |-> FALSE]
                              ELSE None]
    /\ authEnabled = FALSE
    /\ sessions = [t \in Tokens |-> [state |-> "unused", user |-> Implicit]]
    /\ sockets = [s \in Sockets |-> None]
    /\ requests = [r \in Requests |-> None]

\* Variants: the sessions, or the sockets, of the account are forgotten.
WithoutSessionsOfKept(u) == sessions
WithoutSocketsOfKept(u) == sockets
\* deleteForUser(u), or the cascade of a deleted account.
WithoutSessionsOf(u) ==
    [t \in Tokens |-> IF Live(t) /\ sessions[t].user = u
                      THEN [state |-> "ended", user |-> u]
                      ELSE sessions[t]]
\* revokeUser(u)
WithoutSocketsOf(u) ==
    [s \in Sockets |-> IF sockets[s] # None /\ sockets[s].user = u THEN None ELSE sockets[s]]
\* revokeSession(t)
WithoutSocketsUnder(t) ==
    [s \in Sockets |-> IF sockets[s] # None /\ sockets[s].token = t THEN None ELSE sockets[s]]

\* PATCH /api/users/:id up to its body: the gate, and the row of its target.
PatchArrives(r, u) ==
    /\ requests[r] = None /\ MayOperate
    /\ users[u] # None
    /\ requests' = [requests EXCEPT ![r] = [op |-> "patch", id |-> u, target |-> users[u]]]
    /\ UNCHANGED <<users, authEnabled, sessions, sockets>>

\* The last-admin rule judges the row that was read, by the count of now.
Refused(request, change) ==
    /\ change.disabled = "yes" \/ change.role = "user"
    /\ IsLastEnabledAdmin(request.target)

Patched(account, change) ==
    [role |-> IF change.role = "keep" THEN account.role ELSE change.role,
     disabled |-> IF change.disabled = "keep" THEN account.disabled ELSE change.disabled = "yes",
     password |-> account.password \/ change.password]

\* The updates of PATCH touch no row if the account was deleted meanwhile, and
\* the row of its successor if the id was given out again.
PatchBody(r, change) ==
    /\ requests[r] # None /\ requests[r].op = "patch"
    /\ requests' = [requests EXCEPT ![r] = None]
    /\ LET u == requests[r].id IN
       IF Refused(requests[r], change)
       THEN UNCHANGED <<users, sessions, sockets>>
       ELSE /\ users' = [users EXCEPT ![u] = IF @ = None THEN None ELSE Patched(@, change)]
            /\ IF change.disabled = "yes"
               THEN sessions' = WithoutSessionsOf(u) /\ sockets' = WithoutSocketsOf(u)
               ELSE UNCHANGED <<sessions, sockets>>
    /\ UNCHANGED authEnabled

\* POST /api/users up to its body.
PostArrives(r) ==
    /\ requests[r] = None /\ MayOperate
    /\ requests' = [requests EXCEPT ![r] = [op |-> "post"]]
    /\ UNCHANGED <<users, authEnabled, sessions, sockets>>

New(role) == [role |-> role, disabled |-> FALSE, password |-> TRUE]

\* Variant: the password of the implicit admin is left for later.
LockdownLater(u, role) ==
    /\ users[Implicit] # None /\ ~users[Implicit].password
    /\ users' = [users EXCEPT ![u] = New(role)]
    /\ authEnabled' = TRUE
\* The first account made: the implicit admin gets a password and sign-in is
\* turned on, all in one transaction (lockdown).
Lockdown(u, role) ==
    /\ users[Implicit] # None /\ ~users[Implicit].password
    /\ users' = [users EXCEPT ![Implicit].password = TRUE, ![u] = New(role)]
    /\ authEnabled' = TRUE

NeedsLockdown == ~AdminCanSignIn

\* The body of a POST.  A name that is taken, or a lockdown that is refused,
\* is rolled back and answered 409.
PostBody(r, role) ==
    /\ requests[r] # None /\ requests[r].op = "post"
    /\ requests' = [requests EXCEPT ![r] = None]
    /\ \/ \E u \in Ids :
            /\ IsNextId(u)
            /\ IF NeedsLockdown
               THEN Lockdown(u, role)
               ELSE users' = [users EXCEPT ![u] = New(role)] /\ UNCHANGED authEnabled
       \/ UNCHANGED <<users, authEnabled>>
    /\ UNCHANGED <<sessions, sockets>>

\* DELETE /api/users/:id
Delete(u) ==
    /\ MayOperate
    /\ users[u] # None /\ ~IsLastEnabledAdmin(users[u])
    /\ users' = [users EXCEPT ![u] = None]
    /\ sessions' = WithoutSessionsOf(u)
    /\ sockets' = WithoutSocketsOf(u)
    /\ UNCHANGED <<authEnabled, requests>>

\* POST /api/auth/enable and /api/auth/disable
EnableAuth ==
    /\ MayOperate
    /\ AdminCanSignIn
    /\ authEnabled' = TRUE
    /\ UNCHANGED <<users, sessions, sockets, requests>>
DisableAuth ==
    /\ MayOperate
    /\ authEnabled' = FALSE
    /\ UNCHANGED <<users, sessions, sockets, requests>>

\* A login with the right password of an account that is not locked.
Login(u, t) ==
    /\ Enabled(u) /\ users[u].password
    /\ sessions[t].state = "unused"
    /\ sessions' = [sessions EXCEPT ![t] = [state |-> "live", user |-> u]]
    /\ UNCHANGED <<users, authEnabled, sockets, requests>>

\* POST /api/auth/logout: in locked mode the gate refuses it without a session.
Logout(t) ==
    /\ sessions[t].state # "unused"
    /\ authEnabled => SignedIn(t)
    /\ sessions' = [sessions EXCEPT ![t].state = "ended"]
    /\ sockets' = WithoutSocketsUnder(t)
    /\ UNCHANGED <<users, authEnabled, requests>>

\* findValid() meets a session past its end: the row goes, its sockets stay.
Expire(t) ==
    /\ Live(t)
    /\ sessions' = [sessions EXCEPT ![t].state = "expired"]
    /\ UNCHANGED <<users, authEnabled, sockets, requests>>

\* A websocket is accepted: in open mode it acts as the implicit admin, whatever
\* cookie the browser has.
Handshake(s, t) ==
    /\ sockets[s] = None
    /\ IF authEnabled
       THEN /\ SignedIn(t)
            /\ sockets' = [sockets EXCEPT ![s] = [user |-> sessions[t].user, token |-> t]]
       ELSE sockets' = [sockets EXCEPT ![s] = [user |-> Implicit, token |-> None]]
    /\ UNCHANGED <<users, authEnabled, sessions, requests>>

SocketCloses(s) ==
    /\ sockets[s] # None
    /\ sockets' = [sockets EXCEPT ![s] = None]
    /\ UNCHANGED <<users, authEnabled, sessions, requests>>

\* The server is restarted: only the store survives.
Restart ==
    /\ sockets' = [s \in Sockets |-> None]
    /\ requests' = [r \in Requests |-> None]
    /\ UNCHANGED <<users, authEnabled, sessions>>

Next ==
    \/ \E r \in Requests, u \in Ids : PatchArrives(r, u)
    \/ \E r \in Requests, change \in Changes : PatchBody(r, change)
    \/ \E r \in Requests : PostArrives(r)
    \/ \E r \in Requests, role \in Roles : PostBody(r, role)
    \/ \E u \in Ids : Delete(u)
    \/ EnableAuth \/ DisableAuth
    \/ \E u \in Ids, t \in Tokens : Login(u, t)
    \/ \E t \in Tokens : Logout(t) \/ Expire(t)
    \/ \E s \in Sockets, t \in Tokens : Handshake(s, t)
    \/ \E s \in Sockets : SocketCloses(s)
    \/ Restart

Spec == Init /\ [][Next]_vars

-----------------------------------------------------------------------------
\* Ending a login ends all of it, in whatever order accounts are disabled,
\* deleted and their ids given out again: a session in the store belongs to an
\* account that exists and is enabled (PATCH disabled, DELETE, login).
SessionsOfEnabledAccounts ==
    \A t \in Tokens : Live(t) => Enabled(sessions[t].user)

\* A socket opened under a session is gone once that session was ended by a
\* logout, or its account disabled or deleted; it outlives only an expiry
\* (liveSockets.revokeSession, revokeUser; finding 18.14).
SocketsOfLiveLogins ==
    \A s \in Sockets : sockets[s] # None /\ sockets[s].token # None =>
        /\ Enabled(sockets[s].user)
        /\ sessions[sockets[s].token].user = sockets[s].user
        /\ sessions[sockets[s].token].state \in {"live", "expired"}

\* The end of a login ends everything that was opened under it, on whichever side
\* it ends: its account is deleted or disabled, or its user logs out.
LoginsEnd == SessionsOfEnabledAccounts /\ SocketsOfLiveLogins

\* While sign-in is on, or any account but the implicit one exists, every
\* account has a password: sign-in is never turned on over an account without
\* one (lockdown, the guard of /api/auth/enable).
EveryoneHasAPassword ==
    authEnabled \/ (\E u \in Ids \ {Implicit} : users[u] # None) =>
        \A u \in Ids : users[u] # None => users[u].password

\* No request takes the last enabled administrator away, but a PATCH whose
\* target changed while its body was awaited (the 409 of PATCH and DELETE).
LastAdminIsKept ==
    [][EnabledAdmins # {} =>
        \/ EnabledAdmins' # {}
        \/ \E r \in Requests :
             /\ requests[r] # None /\ requests[r].op = "patch" /\ requests'[r] = None
             /\ users[requests[r].id] # requests[r].target]_vars

\* What requireAdmin says of open mode: its implicit admin has the role 'admin',
\* so that an administrator is always let through.
OpenModeIsAdministered == ~authEnabled => MayOperate

====================================================================================
