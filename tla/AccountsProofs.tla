------------------------------ MODULE AccountsProofs ------------------------------
(***************************************************************************)
(* What Accounts promises, for any number of accounts, sessions, sockets   *)
(* and requests under way.  The four invariants are inductive together:    *)
(* a login is ended from both of its ends (session and sockets) because    *)
(* every socket under a token names the account its session names.         *)
(***************************************************************************)
EXTENDS Accounts, TLAPS

USE AccountsAssumption

Inv == TypeOK /\ SessionsOfEnabledAccounts /\ SocketsOfLiveLogins /\ EveryoneHasAPassword

LEMMA InitInv == Init => Inv
  <1> SUFFICES ASSUME Init PROVE Inv
    OBVIOUS
  <1>1. TypeOK
    <2>1. [role |-> "admin", disabled |-> FALSE, password |-> FALSE] \in Accounts
      BY DEF Accounts, Roles
    <2>2. Implicit \in Ids
      BY DEF Implicit, Ids
    <2> QED
      BY <2>1, <2>2 DEF Init, TypeOK, Sessions
  <1>2. SessionsOfEnabledAccounts /\ SocketsOfLiveLogins
    BY DEF Init, SessionsOfEnabledAccounts, SocketsOfLiveLogins, Live
  <1>3. EveryoneHasAPassword
    BY DEF Init, EveryoneHasAPassword
  <1> QED
    BY <1>1, <1>2, <1>3 DEF Inv

-----------------------------------------------------------------------------
(* Types, action by action.                                                *)

LEMMA PatchedIsAccount ==
  ASSUME NEW account \in Accounts, NEW change \in Changes
  PROVE  Patched(account, change) \in Accounts
  <1>1. account.password \/ change.password \in BOOLEAN
    BY DEF Accounts, Changes
  <1>2. (change.disabled = "yes") \in BOOLEAN
    OBVIOUS
  <1> QED
    BY <1>1, <1>2 DEF Patched, Accounts, Changes, Roles

LEMMA RevokedTypes ==
  ASSUME TypeOK, NEW u \in Ids
  PROVE  /\ WithoutSessionsOf(u) \in [Tokens -> Sessions]
         /\ WithoutSocketsOf(u) \in [Sockets -> Logins \cup {None}]
  BY DEF TypeOK, WithoutSessionsOf, WithoutSocketsOf, Sessions, Live

LEMMA PatchKeepsTypes ==
  ASSUME TypeOK, NEW r \in Requests, NEW change \in Changes, PatchBody(r, change)
  PROVE  TypeOK'
  <1>1. requests[r] \in Patches
    BY DEF TypeOK, PatchBody, Posts
  <1>2. PICK u \in Ids : u = requests[r].id
    BY <1>1 DEF Patches
  <1>3. requests' \in [Requests -> Patches \cup Posts \cup {None}]
    BY DEF PatchBody, TypeOK
  <1>4. users' \in [Ids -> Accounts \cup {None}]
    <2>1. CASE Refused(requests[r], change)
      BY <2>1 DEF PatchBody, TypeOK
    <2>2. CASE ~Refused(requests[r], change)
      <3>1. users' = [users EXCEPT ![u] = IF @ = None THEN None ELSE Patched(@, change)]
        BY <1>2, <2>2 DEF PatchBody
      <3>2. users[u] # None => Patched(users[u], change) \in Accounts
        BY PatchedIsAccount DEF TypeOK
      <3> QED
        BY <3>1, <3>2 DEF TypeOK
    <2> QED
      BY <2>1, <2>2
  <1>5. sessions' \in [Tokens -> Sessions] /\ sockets' \in [Sockets -> Logins \cup {None}]
    BY <1>2, RevokedTypes DEF PatchBody, TypeOK
  <1> QED
    BY <1>3, <1>4, <1>5 DEF PatchBody, TypeOK

LEMMA PostKeepsTypes ==
  ASSUME TypeOK, NEW r \in Requests, NEW role \in Roles, PostBody(r, role)
  PROVE  TypeOK'
  <1>1. New(role) \in Accounts
    BY DEF New, Accounts
  <1>2. ASSUME NEW u \in Ids, Lockdown(u, role)
        PROVE  users' \in [Ids -> Accounts \cup {None}] /\ authEnabled' \in BOOLEAN
    <2>1. Implicit \in Ids /\ users[Implicit] \in Accounts
      BY <1>2 DEF Lockdown, TypeOK, Ids, Implicit
    <2>2. [users[Implicit] EXCEPT !.password = TRUE] \in Accounts
      BY <2>1 DEF Accounts
    <2> QED
      BY <1>1, <1>2, <2>1, <2>2 DEF Lockdown, TypeOK
  <1>3. users' \in [Ids -> Accounts \cup {None}] /\ authEnabled' \in BOOLEAN
    BY <1>1, <1>2 DEF PostBody, TypeOK
  <1> QED
    BY <1>3 DEF PostBody, TypeOK

LEMMA TypeNext ==
  ASSUME TypeOK, [Next]_vars
  PROVE  TypeOK'
  <1>1. ASSUME NEW r \in Requests, NEW u \in Ids, PatchArrives(r, u)
        PROVE  TypeOK'
    <2>1. [op |-> "patch", id |-> u, target |-> users[u]] \in Patches
      BY <1>1 DEF PatchArrives, TypeOK, Patches
    <2> QED
      BY <1>1, <2>1 DEF PatchArrives, TypeOK
  <1>2. ASSUME NEW r \in Requests, PostArrives(r)
        PROVE  TypeOK'
    BY <1>2 DEF PostArrives, TypeOK, Posts
  <1>3. ASSUME NEW u \in Ids, Delete(u)
        PROVE  TypeOK'
    BY <1>3, RevokedTypes DEF Delete, TypeOK
  <1>4. ASSUME NEW u \in Ids, NEW t \in Tokens, Login(u, t)
        PROVE  TypeOK'
    BY <1>4 DEF Login, TypeOK, Sessions
  <1>5. ASSUME NEW t \in Tokens, Logout(t)
        PROVE  TypeOK'
    BY <1>5 DEF Logout, TypeOK, Sessions, WithoutSocketsUnder
  <1>6. ASSUME NEW t \in Tokens, Expire(t)
        PROVE  TypeOK'
    BY <1>6 DEF Expire, TypeOK, Sessions
  <1>7. ASSUME NEW s \in Sockets, NEW t \in Tokens, Handshake(s, t)
        PROVE  TypeOK'
    BY <1>7 DEF Handshake, TypeOK, Sessions, Logins, SignedIn, Implicit, Ids
  <1>8. ASSUME NEW s \in Sockets, SocketCloses(s)
        PROVE  TypeOK'
    BY <1>8 DEF SocketCloses, TypeOK
  <1>9. CASE EnableAuth \/ DisableAuth \/ Restart \/ UNCHANGED vars
    BY <1>9 DEF EnableAuth, DisableAuth, Restart, TypeOK, vars
  <1> QED
    BY <1>1, <1>2, <1>3, <1>4, <1>5, <1>6, <1>7, <1>8, <1>9, PatchKeepsTypes, PostKeepsTypes
    DEF Next

-----------------------------------------------------------------------------
(* A login ends at both ends at once.                                      *)

Access == SessionsOfEnabledAccounts /\ SocketsOfLiveLogins

LEMMA AccessKept ==
  ASSUME TypeOK, Access, UNCHANGED <<sessions, sockets>>,
         \A u \in Ids : Enabled(u) => Enabled(u)'
  PROVE  Access'
  BY DEF Access, SessionsOfEnabledAccounts, SocketsOfLiveLogins, TypeOK, Sessions, Logins, Live

LEMMA AccessEnded ==
  ASSUME TypeOK, Access, NEW u \in Ids,
         sessions' = WithoutSessionsOf(u), sockets' = WithoutSocketsOf(u),
         \A w \in Ids \ {u} : Enabled(w) => Enabled(w)'
  PROVE  Access'
  <1>1. ASSUME NEW t \in Tokens, Live(t)'
        PROVE  Enabled(sessions[t].user)' /\ sessions'[t] = sessions[t]
    <2>1. sessions'[t] = sessions[t] /\ Live(t) /\ sessions[t].user # u
      BY <1>1 DEF WithoutSessionsOf, Live
    <2> QED
      BY <2>1, <1>1 DEF Access, SessionsOfEnabledAccounts, TypeOK, Sessions
  <1>2. ASSUME NEW s \in Sockets, sockets'[s] # None, sockets'[s].token # None
        PROVE  /\ Enabled(sockets[s].user)'
               /\ sessions'[sockets'[s].token].user = sockets'[s].user
               /\ sessions'[sockets'[s].token].state \in {"live", "expired"}
    <2>1. sockets'[s] = sockets[s] /\ sockets[s].user # u
      BY <1>2 DEF WithoutSocketsOf
    <2>2. sockets[s] \in Logins
      BY <1>2, <2>1 DEF TypeOK
    <2>3. PICK t \in Tokens : t = sockets[s].token
      BY <1>2, <2>1, <2>2 DEF Logins
    <2>4. Enabled(sockets[s].user) /\ sessions[t].user = sockets[s].user
          /\ sessions[t].state \in {"live", "expired"}
      BY <1>2, <2>1, <2>3 DEF Access, SocketsOfLiveLogins
    <2>5. sessions'[t] = sessions[t]
      BY <2>1, <2>4 DEF WithoutSessionsOf
    <2> QED
      BY <2>1, <2>2, <2>3, <2>4, <2>5 DEF Logins
  <1> QED
    BY <1>1, <1>2 DEF Access, SessionsOfEnabledAccounts, SocketsOfLiveLogins

LEMMA PatchKeepsAccess ==
  ASSUME TypeOK, Access, NEW r \in Requests, NEW change \in Changes, PatchBody(r, change)
  PROVE  Access'
  <1>1. PICK u \in Ids : u = requests[r].id
    BY DEF TypeOK, PatchBody, Posts, Patches
  <1>2. CASE Refused(requests[r], change)
    BY <1>2, AccessKept DEF PatchBody, Enabled
  <1>3. CASE ~Refused(requests[r], change)
    <2>1. users' = [users EXCEPT ![u] = IF @ = None THEN None ELSE Patched(@, change)]
      BY <1>1, <1>3 DEF PatchBody
    <2>2. \A w \in Ids \ {u} : Enabled(w) => Enabled(w)'
      BY <2>1 DEF TypeOK, Enabled
    <2>3. CASE change.disabled = "yes"
      BY <1>1, <1>3, <2>2, <2>3, AccessEnded DEF PatchBody
    <2>4. CASE change.disabled # "yes"
      <3>1. Enabled(u) => Enabled(u)'
        <4> SUFFICES ASSUME Enabled(u) PROVE Enabled(u)'
          OBVIOUS
        <4>1. users[u] \in Accounts /\ users[u] # None /\ ~users[u].disabled
          BY DEF TypeOK, Enabled
        <4>2. users'[u] = Patched(users[u], change)
          BY <2>1, <4>1 DEF TypeOK
        <4>3. Patched(users[u], change) \in Accounts /\ ~Patched(users[u], change).disabled
          BY <2>4, <4>1, PatchedIsAccount DEF Patched
        <4> QED
          BY <4>2, <4>3 DEF Enabled
      <3>2. \A w \in Ids : Enabled(w) => Enabled(w)'
        BY <2>2, <3>1
      <3> QED
        BY <1>3, <2>4, <3>2, AccessKept DEF PatchBody
    <2> QED
      BY <2>3, <2>4
  <1> QED
    BY <1>2, <1>3

LEMMA PostKeepsEnabled ==
  ASSUME TypeOK, NEW r \in Requests, NEW role \in Roles, PostBody(r, role)
  PROVE  \A u \in Ids : users[u] # None =>
           /\ users'[u] # None
           /\ users'[u].role = users[u].role
           /\ users'[u].disabled = users[u].disabled
           /\ users[u].password => users'[u].password
  <1>1. ASSUME NEW w \in Ids, IsNextId(w)
        PROVE  users[w] = None
    BY <1>1 DEF IsNextId, Ids
  <1>2. ASSUME NEW w \in Ids, IsNextId(w), Lockdown(w, role), NEW u \in Ids, users[u] # None
        PROVE  /\ users'[u] # None
               /\ users'[u].role = users[u].role
               /\ users'[u].disabled = users[u].disabled
               /\ users[u].password => users'[u].password
    <2>1. u # w /\ users[u] \in Accounts
      BY <1>1, <1>2 DEF TypeOK
    <2>2. users'[u] = IF u = Implicit THEN [users[u] EXCEPT !.password = TRUE] ELSE users[u]
      BY <1>2, <2>1 DEF Lockdown, TypeOK
    <2>3. [users[u] EXCEPT !.password = TRUE] \in Accounts
      BY <2>1 DEF Accounts
    <2> QED
      BY <1>2, <2>1, <2>2, <2>3 DEF Accounts
  <1>3. ASSUME NEW w \in Ids, IsNextId(w), users' = [users EXCEPT ![w] = New(role)],
               NEW u \in Ids, users[u] # None
        PROVE  users'[u] = users[u]
    BY <1>1, <1>3 DEF TypeOK
  <1> QED
    BY <1>2, <1>3 DEF PostBody

LEMMA AccessNext ==
  ASSUME TypeOK, Access, [Next]_vars
  PROVE  Access'
  <1>1. ASSUME NEW r \in Requests, NEW u \in Ids, PatchArrives(r, u)
        PROVE  Access'
    BY <1>1, AccessKept DEF PatchArrives, Enabled
  <1>2. ASSUME NEW r \in Requests, PostArrives(r)
        PROVE  Access'
    BY <1>2, AccessKept DEF PostArrives, Enabled
  <1>3. ASSUME NEW r \in Requests, NEW role \in Roles, PostBody(r, role)
        PROVE  Access'
    <2>1. \A u \in Ids : Enabled(u) => Enabled(u)'
      BY <1>3, PostKeepsEnabled DEF Enabled
    <2> QED
      BY <1>3, <2>1, AccessKept DEF PostBody
  <1>4. ASSUME NEW u \in Ids, Delete(u)
        PROVE  Access'
    <2>1. \A w \in Ids \ {u} : Enabled(w) => Enabled(w)'
      BY <1>4 DEF Delete, TypeOK, Enabled
    <2> QED
      BY <1>4, <2>1, AccessEnded DEF Delete
  <1>5. ASSUME NEW u \in Ids, NEW t \in Tokens, Login(u, t)
        PROVE  Access'
    BY <1>5 DEF Login, TypeOK, Access, SessionsOfEnabledAccounts, SocketsOfLiveLogins, Enabled,
               Live, Sessions, Logins
  <1>6. ASSUME NEW t \in Tokens, Logout(t)
        PROVE  Access'
    BY <1>6 DEF Logout, WithoutSocketsUnder, TypeOK, Access, SessionsOfEnabledAccounts,
               SocketsOfLiveLogins, Enabled, Live, Sessions, Logins
  <1>7. ASSUME NEW t \in Tokens, Expire(t)
        PROVE  Access'
    BY <1>7 DEF Expire, TypeOK, Access, SessionsOfEnabledAccounts, SocketsOfLiveLogins,
               Enabled, Live, Sessions, Logins
  <1>8. ASSUME NEW s \in Sockets, NEW t \in Tokens, Handshake(s, t)
        PROVE  Access'
    BY <1>8 DEF Handshake, SignedIn, TypeOK, Access, SessionsOfEnabledAccounts,
               SocketsOfLiveLogins, Enabled, Live, Sessions, Logins
  <1>9. ASSUME NEW s \in Sockets, SocketCloses(s)
        PROVE  Access'
    BY <1>9 DEF SocketCloses, TypeOK, Access, SessionsOfEnabledAccounts, SocketsOfLiveLogins,
               Enabled, Live
  <1>10. CASE EnableAuth \/ DisableAuth \/ UNCHANGED vars
    BY <1>10, AccessKept DEF EnableAuth, DisableAuth, vars, Enabled
  <1>11. CASE Restart
    BY <1>11 DEF Restart, TypeOK, Access, SessionsOfEnabledAccounts, SocketsOfLiveLogins,
                Enabled, Live
  <1> QED
    BY <1>1, <1>2, <1>3, <1>4, <1>5, <1>6, <1>7, <1>8, <1>9, <1>10, <1>11, PatchKeepsAccess
    DEF Next

-----------------------------------------------------------------------------
(* Passwords, and the last administrator.                                  *)

\* What a PATCH makes of the account it names, if it is still there.
LEMMA PatchBodyOf ==
  ASSUME TypeOK, NEW r \in Requests, NEW change \in Changes, PatchBody(r, change)
  PROVE  \E u \in Ids :
           /\ requests[r] \in Patches /\ u = requests[r].id
           /\ \A w \in Ids \ {u} : users'[w] = users[w]
           /\ users[u] = None => users'[u] = None
           /\ users[u] # None => \/ users'[u] = users[u]
                                 \/ /\ ~Refused(requests[r], change)
                                    /\ users'[u] = Patched(users[u], change)
  <1>1. requests[r] \in Patches
    BY DEF TypeOK, PatchBody, Posts
  <1>2. PICK u \in Ids : u = requests[r].id
    BY <1>1 DEF Patches
  <1>3. CASE Refused(requests[r], change)
    BY <1>1, <1>2, <1>3 DEF PatchBody
  <1>4. CASE ~Refused(requests[r], change)
    <2>1. users' = [users EXCEPT ![u] = IF @ = None THEN None ELSE Patched(@, change)]
      BY <1>2, <1>4 DEF PatchBody
    <2> QED
      BY <1>1, <1>2, <1>4, <2>1 DEF TypeOK
  <1> QED
    BY <1>3, <1>4

LEMMA PasswordNext ==
  ASSUME TypeOK, EveryoneHasAPassword, [Next]_vars
  PROVE  EveryoneHasAPassword'
  <1>0. Implicit \in Ids
    BY DEF Implicit, Ids
  <1>1. ASSUME NEW r \in Requests, NEW change \in Changes, PatchBody(r, change)
        PROVE  EveryoneHasAPassword'
    <2>1. PICK u \in Ids :
             /\ \A w \in Ids \ {u} : users'[w] = users[w]
             /\ users[u] = None => users'[u] = None
             /\ users[u] # None => \/ users'[u] = users[u]
                                   \/ users'[u] = Patched(users[u], change)
      BY <1>1, PatchBodyOf
    <2>2. \A w \in Ids : users'[w] # None => users[w] # None
      BY <2>1
    <2>3. ASSUME NEW account \in Accounts, account.password
          PROVE  Patched(account, change).password
      BY <2>3 DEF Patched
    <2>4. \A w \in Ids : users'[w] # None /\ users[w].password => users'[w].password
      BY <2>1, <2>2, <2>3 DEF TypeOK
    <2> QED
      BY <1>1, <2>2, <2>4 DEF EveryoneHasAPassword, PatchBody
  <1>2. ASSUME NEW r \in Requests, NEW role \in Roles, PostBody(r, role)
        PROVE  EveryoneHasAPassword'
    <2>1. ASSUME NEW u \in Ids, IsNextId(u), NeedsLockdown, Lockdown(u, role)
          PROVE  EveryoneHasAPassword'
      <3>1. \A w \in Ids \ {Implicit} : users[w] = None
        BY <1>0, <2>1 DEF Lockdown, EveryoneHasAPassword
      <3>2. users'[Implicit] = IF u = Implicit THEN New(role)
                                               ELSE [users[Implicit] EXCEPT !.password = TRUE]
        BY <1>0, <2>1 DEF Lockdown, TypeOK
      <3>3. users[Implicit] \in Accounts
        BY <1>0, <2>1 DEF Lockdown, TypeOK
      <3>4. users'[Implicit].password
        BY <3>2, <3>3 DEF New, Accounts
      <3>5. \A w \in Ids \ {Implicit} :
               users'[w] = IF w = u THEN New(role) ELSE None
        BY <2>1, <3>1 DEF Lockdown, TypeOK
      <3> QED
        BY <3>4, <3>5 DEF EveryoneHasAPassword, New
    <2>2. ASSUME NEW u \in Ids, IsNextId(u), ~NeedsLockdown,
                 users' = [users EXCEPT ![u] = New(role)], UNCHANGED authEnabled
          PROVE  EveryoneHasAPassword'
      <3>1. \A w \in Ids : users[w] # None => users[w].password
        BY <2>2, <1>0 DEF NeedsLockdown, AdminCanSignIn, EveryoneHasAPassword, EnabledAdmin, Enabled
      <3>2. \A w \in Ids : users'[w] = IF w = u THEN New(role) ELSE users[w]
        BY <2>2 DEF TypeOK
      <3> QED
        BY <3>1, <3>2 DEF EveryoneHasAPassword, New
    <2>3. CASE UNCHANGED <<users, authEnabled>>
      BY <2>3 DEF EveryoneHasAPassword
    <2> QED
      BY <1>2, <2>1, <2>2, <2>3 DEF PostBody
  <1>3. ASSUME NEW u \in Ids, Delete(u)
        PROVE  EveryoneHasAPassword'
    BY <1>3 DEF Delete, TypeOK, EveryoneHasAPassword
  <1>4. CASE EnableAuth
    <2>1. \A w \in Ids : users[w] # None => users[w].password
      BY <1>4, <1>0 DEF EnableAuth, AdminCanSignIn, EveryoneHasAPassword, EnabledAdmin, Enabled
    <2> QED
      BY <1>4, <2>1 DEF EnableAuth, EveryoneHasAPassword
  <1>5. CASE DisableAuth
    BY <1>5 DEF DisableAuth, EveryoneHasAPassword
  <1>6. CASE UNCHANGED <<users, authEnabled>>
    BY <1>6 DEF EveryoneHasAPassword
  <1> QED
    BY <1>1, <1>2, <1>3, <1>4, <1>5, <1>6
    DEF Next, PatchArrives, PostArrives, Login, Logout, Expire, Handshake, SocketCloses, Restart,
        vars

\* One step of LastAdminIsKept.
StaleTarget ==
  \E r \in Requests :
    /\ requests[r] # None /\ requests[r].op = "patch" /\ requests'[r] = None
    /\ users[requests[r].id] # requests[r].target
KeepsAnAdmin == EnabledAdmins # {} => EnabledAdmins' # {} \/ StaleTarget

LEMMA AdminStays ==
  ASSUME NEW u \in Ids, EnabledAdmin(u), users'[u] # None,
         users'[u].role = users[u].role, users'[u].disabled = users[u].disabled
  PROVE  EnabledAdmins' # {}
  <1>1. EnabledAdmin(u)'
    BY DEF EnabledAdmin, Enabled
  <1> QED
    BY <1>1 DEF EnabledAdmins, Ids

LEMMA LastAdminNext ==
  ASSUME TypeOK, [Next]_vars
  PROVE  KeepsAnAdmin
  <1> SUFFICES ASSUME EnabledAdmins # {}, ~StaleTarget
               PROVE  EnabledAdmins' # {}
    BY DEF KeepsAnAdmin
  <1>0. PICK a \in Ids : EnabledAdmin(a)
    BY DEF EnabledAdmins
  <1>1. ASSUME NEW r \in Requests, NEW change \in Changes, PatchBody(r, change)
        PROVE  EnabledAdmins' # {}
    <2>1. PICK u \in Ids :
             /\ requests[r] \in Patches /\ u = requests[r].id
             /\ \A w \in Ids \ {u} : users'[w] = users[w]
             /\ users[u] = None => users'[u] = None
             /\ users[u] # None => \/ users'[u] = users[u]
                                   \/ /\ ~Refused(requests[r], change)
                                      /\ users'[u] = Patched(users[u], change)
      BY <1>1, PatchBodyOf
    <2>2. users[u] = requests[r].target
      BY <1>1, <2>1 DEF PatchBody, TypeOK, StaleTarget
    <2>3. CASE a # u
      BY <1>0, <2>1, <2>3, AdminStays DEF EnabledAdmin, Enabled
    <2>4. CASE a = u /\ users'[u] = users[u]
      BY <1>0, <2>4, AdminStays DEF EnabledAdmin, Enabled
    <2>5. CASE a = u /\ ~Refused(requests[r], change) /\ users'[u] = Patched(users[u], change)
      <3>1. users[u].role = "admin" /\ ~users[u].disabled /\ users[u] \in Accounts
        BY <1>0, <2>5 DEF EnabledAdmin, Enabled, TypeOK
      <3>2. CASE change.disabled = "yes" \/ change.role = "user"
        <4>1. \E b \in EnabledAdmins : b # a
          BY <1>0, <2>2, <2>5, <3>1, <3>2 DEF Refused, IsLastEnabledAdmin, EnabledAdmins
        <4>2. PICK b \in Ids : EnabledAdmin(b) /\ b # a
          BY <4>1 DEF EnabledAdmins
        <4> QED
          BY <2>1, <2>5, <4>2, AdminStays DEF EnabledAdmin, Enabled
      <3>3. CASE ~(change.disabled = "yes" \/ change.role = "user")
        <4>1. users'[u].role = "admin"
          BY <2>5, <3>1, <3>3 DEF Patched, Changes, Roles
        <4>2. users'[u].disabled = FALSE
          BY <2>5, <3>1, <3>3 DEF Patched, Changes, Accounts
        <4>3. users'[u] # None
          BY <2>5, <3>1, PatchedIsAccount
        <4>4. users[u].disabled = FALSE
          BY <3>1 DEF Accounts
        <4> QED
          BY <1>0, <2>5, <3>1, <4>1, <4>2, <4>3, <4>4, AdminStays
      <3> QED
        BY <3>2, <3>3
    <2> QED
      BY <1>0, <2>1, <2>3, <2>4, <2>5 DEF EnabledAdmin, Enabled
  <1>2. ASSUME NEW r \in Requests, NEW role \in Roles, PostBody(r, role)
        PROVE  EnabledAdmins' # {}
    BY <1>0, <1>2, PostKeepsEnabled, AdminStays DEF EnabledAdmin, Enabled
  <1>3. ASSUME NEW u \in Ids, Delete(u)
        PROVE  EnabledAdmins' # {}
    <2>1. CASE a # u
      BY <1>0, <1>3, <2>1, AdminStays DEF Delete, TypeOK, EnabledAdmin, Enabled
    <2>2. CASE a = u
      <3>1. PICK b \in Ids : EnabledAdmin(b) /\ b # u
        BY <1>0, <1>3, <2>2 DEF Delete, IsLastEnabledAdmin, EnabledAdmins, EnabledAdmin, Enabled
      <3> QED
        BY <1>3, <3>1, AdminStays DEF Delete, TypeOK, EnabledAdmin, Enabled
    <2> QED
      BY <2>1, <2>2
  <1>4. CASE UNCHANGED users
    BY <1>0, <1>4, AdminStays DEF EnabledAdmin, Enabled
  <1> QED
    BY <1>1, <1>2, <1>3, <1>4
    DEF Next, PatchArrives, PostArrives, EnableAuth, DisableAuth, Login, Logout, Expire,
        Handshake, SocketCloses, Restart, vars

-----------------------------------------------------------------------------
\* The inductive invariant: every route and the handshake keep it.
THEOREM AccountsInvariant == Spec => []Inv
  <1>1. Inv /\ [Next]_vars => Inv'
    BY TypeNext, AccessNext, PasswordNext DEF Inv, Access
  <1> QED
    BY <1>1, InitInv, PTL DEF Spec

\* Every variable keeps its type.
THEOREM TypeCorrect == Spec => []TypeOK
  <1>1. Inv => TypeOK
    BY DEF Inv
  <1> QED
    BY <1>1, AccountsInvariant, PTL

\* A session in the store belongs to an account that exists and is enabled.
THEOREM SessionsOfEnabledAccountsHolds == Spec => []SessionsOfEnabledAccounts
  <1>1. Inv => SessionsOfEnabledAccounts
    BY DEF Inv
  <1> QED
    BY <1>1, AccountsInvariant, PTL

\* A socket opened under a session does not outlive the end of that login.
THEOREM SocketsOfLiveLoginsHolds == Spec => []SocketsOfLiveLogins
  <1>1. Inv => SocketsOfLiveLogins
    BY DEF Inv
  <1> QED
    BY <1>1, AccountsInvariant, PTL

\* The end of a login ends its sessions and its sockets (UsersApi, AuthApi,
\* lockdown, SocketRegistry).
THEOREM LoginsEndHolds == Spec => []LoginsEnd
  <1>1. Inv => LoginsEnd
    BY DEF Inv, LoginsEnd
  <1> QED
    BY <1>1, AccountsInvariant, PTL

\* Sign-in is never on over an account without a password.
THEOREM EveryoneHasAPasswordHolds == Spec => []EveryoneHasAPassword
  <1>1. Inv => EveryoneHasAPassword
    BY DEF Inv
  <1> QED
    BY <1>1, AccountsInvariant, PTL

\* Only a PATCH with a stale target can take the last administrator away.
THEOREM LastAdminIsKeptHolds == Spec => LastAdminIsKept
  <1>1. TypeOK /\ [Next]_vars => [KeepsAnAdmin]_vars
    BY LastAdminNext
  <1> QED
    BY <1>1, TypeCorrect, PTL DEF Spec, LastAdminIsKept, KeepsAnAdmin, StaleTarget
====================================================================================
