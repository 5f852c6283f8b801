------------------------------ MODULE Accounts -------------------------------
(***************************************************************************)
(* internal/auth and its handlers: users, sessions, password and Google    *)
(* logins, and the administration of users.  A request authenticates once, *)
(* when it starts, and then runs its SQL statements one by one; any number *)
(* of requests interleave, and only the Google sign-up is a transaction.   *)
(*                                                                         *)
(* A password is the number of resets the account has seen.  Requests that *)
(* change nothing, validation of their bodies, cookies, the login limiter  *)
(* and the Read Later category of a new user are left out.                 *)
(***************************************************************************)
EXTENDS Naturals, FiniteSets

CONSTANTS
    Requests,       \* requests in flight
    Names,          \* user names
    AdminName,      \* YOMEKURO_ADMIN_USER
    NoName,         \* the name of a user that does not exist
    Subjects,       \* Google identities
    NoSubject,      \* google_sub IS NULL
    MaxUsers,       \* bound: users ever created
    MaxTokens,      \* bound: sessions at one time
    MaxRequests,    \* bound: requests that are served
    MaxCrashes      \* bound: restarts

ASSUME AccountsAssumption ==
    /\ IsFiniteSet(Requests)
    /\ AdminName \in Names /\ NoName \notin Names /\ NoSubject \notin Subjects
    /\ MaxUsers \in Nat /\ MaxTokens \in Nat /\ MaxRequests \in Nat /\ MaxCrashes \in Nat

VARIABLES
    users,          \* table users
    made,           \* user ids used
    sessions,       \* table sessions
    requests,       \* each request's place in its handler, and its locals
    served,         \* requests begun
    up,             \* whether the server runs
    crashes

vars == <<users, made, sessions, requests, served, up, crashes>>

Ids    == 1..MaxUsers
Tokens == 1..MaxTokens

\* unrevoked: the password was reset, and the sessions were not deleted since.
User    == [name: Names \cup {NoName}, password: 0..MaxRequests,
            subject: Subjects \cup {NoSubject}, admin: BOOLEAN, unrevoked: BOOLEAN]
\* password is the user's when it was verified; raced: it no longer was when the
\* session was stored.
Session == [user: {0} \cup Ids, password: 0..MaxRequests, raced: BOOLEAN, expired: BOOLEAN]
\* alone: no other request that can take admin rights away ran beside it.
Request == [pc: {"idle", "lookup", "insert", "session",             \* login, register, createUser
                 "lock", "name", "signup", "subjectTaken",          \* googleCallback
                 "isAdmin", "countAdmins", "rename", "reset", "revoke", "setAdmin",  \* updateUser
                 "delete"},                                         \* deleteUser
            user: {0} \cup Ids, name: Names \cup {NoName}, subject: Subjects \cup {NoSubject},
            password: 0..MaxRequests, reset: BOOLEAN, admin: {"keep", "grant", "take"},
            login: BOOLEAN, alone: BOOLEAN]

NoUser    == [name |-> NoName, password |-> 0, subject |-> NoSubject, admin |-> FALSE,
              unrevoked |-> FALSE]
NoSession == [user |-> 0, password |-> 0, raced |-> FALSE, expired |-> FALSE]
NoRequest == [pc |-> "idle", user |-> 0, name |-> NoName, subject |-> NoSubject, password |-> 0,
              reset |-> FALSE, admin |-> "keep", login |-> FALSE, alone |-> TRUE]

Init ==
    /\ users = [u \in Ids |-> NoUser]
    /\ made = 0
    /\ sessions = [t \in Tokens |-> NoSession]
    /\ requests = [r \in Requests |-> NoRequest]
    /\ served = 0
    /\ up = FALSE
    /\ crashes = 0

\* With the table's unique index on the name.
TypeOK ==
    /\ users \in [Ids -> User]
    /\ \A u, v \in Ids : users[u].name = users[v].name => u = v \/ users[u] = NoUser
    /\ made \in 0..MaxUsers
    /\ sessions \in [Tokens -> Session]
    /\ requests \in [Requests -> Request]
    /\ served \in 0..MaxRequests
    /\ up \in BOOLEAN
    /\ crashes \in 0..MaxCrashes

Exists(u) == users[u].name # NoName
Free(n)   == \A u \in Ids : users[u].name # n
Admins    == {u \in Ids : users[u].admin}

-----------------------------------------------------------------------------
(* The process.                                                            *)

NewUser(n, s, admin) ==
    /\ made < MaxUsers
    /\ made' = made + 1
    /\ users' = [users EXCEPT ![made'] = [NoUser EXCEPT !.name = n, !.subject = s, !.admin = admin]]

\* main: EnsureAdmin, if an admin's password is configured.  It creates the admin if
\* it counts none or its count fails; if that fails in turn, the process exits.
Start ==
    /\ ~up
    /\ up' = TRUE
    /\ \/ UNCHANGED <<users, made>>
       \/ Free(AdminName) /\ NewUser(AdminName, NoSubject, TRUE)
    /\ UNCHANGED <<sessions, requests, served, crashes>>

Crash ==
    /\ up /\ crashes < MaxCrashes
    /\ up' = FALSE
    /\ crashes' = crashes + 1
    /\ requests' = [r \in Requests |-> NoRequest]
    /\ UNCHANGED <<users, made, sessions, served>>

-----------------------------------------------------------------------------
(* Requests.                                                               *)

\* It can take admin rights away.
Takes(req) == req.pc = "delete" \/ req.admin = "take"

Begin(r, req) ==
    /\ up /\ requests[r] = NoRequest
    /\ served < MaxRequests
    /\ served' = served + 1
    /\ requests' = [q \in Requests |->
          IF q = r THEN [req EXCEPT !.alone = \A o \in Requests : ~Takes(requests[o])]
          ELSE IF Takes(requests[q]) /\ Takes(req) THEN [requests[q] EXCEPT !.alone = FALSE]
          ELSE requests[q]]
    /\ UNCHANGED <<users, made, sessions, up, crashes>>

\* The handler goes on, or returns if req is NoRequest; between requests nothing
\* but the tables is kept.
Step(r, req) ==
    /\ requests' = [requests EXCEPT ![r] = req]
    /\ UNCHANGED <<served, up, crashes>>

At(r, pc) == [requests[r] EXCEPT !.pc = pc]

\* A statement fails, or the client is gone, which cancels its statements: what
\* was done stays done, except the transaction of the Google sign-up.
Fail(r) ==
    /\ requests[r].pc # "idle"
    /\ Step(r, NoRequest)
    /\ UNCHANGED <<users, made, sessions>>

\* GetUserBySession
IsSessionOf(t, me) == sessions[t].user = me /\ ~sessions[t].expired

\* authRequired and adminRequired.
AdminSession(me) == users[me].admin /\ \E t \in Tokens : IsSessionOf(t, me)

-----------------------------------------------------------------------------
(* Logins.                                                                 *)

Login(r, n) == Begin(r, [NoRequest EXCEPT !.pc = "lookup", !.name = n])

\* GetUserByUsername and CheckPassword; a wrong password fails.
CheckPassword(r) ==
    /\ requests[r].pc = "lookup"
    /\ \E u \in Ids :
          /\ users[u].name = requests[r].name
          /\ Step(r, [NoRequest EXCEPT !.pc = "session", !.user = u, !.password = users[u].password])
    /\ UNCHANGED <<users, made, sessions>>

\* The foreign key refuses a session for a user that was deleted.
CreateSession(r) ==
    LET u == requests[r].user IN
    /\ requests[r].pc = "session" /\ Exists(u)
    /\ \E t \in Tokens :
          /\ sessions[t] = NoSession
          /\ \A o \in 1..(t - 1) : sessions[o] # NoSession
          /\ sessions' = [sessions EXCEPT ![t] =
                [user |-> u, password |-> requests[r].password,
                 raced |-> requests[r].password # users[u].password, expired |-> FALSE]]
    /\ Step(r, NoRequest)
    /\ UNCHANGED <<users, made>>

Register(r, n) == Begin(r, [NoRequest EXCEPT !.pc = "insert", !.name = n, !.login = TRUE])

CreateUserRequest(r, me, n, admin) ==
    /\ AdminSession(me)
    /\ Begin(r, [NoRequest EXCEPT !.pc = "insert", !.name = n,
                                  !.admin = IF admin THEN "grant" ELSE "keep"])

\* Mutant: the names are not compared.
CreateUserAnyName(r) ==
    /\ requests[r].pc = "insert"
    /\ NewUser(requests[r].name, NoSubject, requests[r].admin = "grant")
    /\ Step(r, IF requests[r].login THEN [NoRequest EXCEPT !.pc = "session", !.user = made']
               ELSE NoRequest)
    /\ UNCHANGED sessions

\* CreateUser: the index on the name is what refuses a name that is taken.
CreateUser(r) ==
    /\ requests[r].pc = "insert" /\ Free(requests[r].name)
    /\ NewUser(requests[r].name, NoSubject, requests[r].admin = "grant")
    /\ Step(r, IF requests[r].login THEN [NoRequest EXCEPT !.pc = "session", !.user = made']
               ELSE NoRequest)
    /\ UNCHANGED sessions

GoogleCallback(r, s) == Begin(r, [NoRequest EXCEPT !.pc = "lock", !.subject = s])

\* Mutant: no advisory lock.
NoLock(r, s) == TRUE

\* pg_advisory_xact_lock on the subject, held until the transaction ends.
LockFree(r, s) ==
    \A q \in Requests \ {r} : requests[q].pc \in {"name", "signup"} => requests[q].subject # s

FindSubject(r) ==
    LET s == requests[r].subject IN
    /\ requests[r].pc = "lock" /\ LockFree(r, s)
    /\ \/ \E u \in Ids :
             /\ users[u].subject = s
             /\ Step(r, [NoRequest EXCEPT !.pc = "session", !.user = u,
                                          !.password = users[u].password])
       \/ /\ \A u \in Ids : users[u].subject # s
          /\ Step(r, At(r, "name"))
    /\ UNCHANGED <<users, made, sessions>>

\* The first of the names made from the email that is free: which names these
\* are is left open.
ChooseName(r) ==
    /\ requests[r].pc = "name"
    /\ \E n \in Names : Free(n) /\ Step(r, [At(r, "signup") EXCEPT !.name = n])
    /\ UNCHANGED <<users, made, sessions>>

\* INSERT and COMMIT.  The name may be taken by now; the index on the subject is
\* "the final guard".
SignUp(r) ==
    LET s == requests[r].subject IN
    /\ requests[r].pc = "signup"
    /\ \/ /\ Free(requests[r].name)
          /\ \A u \in Ids : users[u].subject # s
          /\ NewUser(requests[r].name, s, FALSE)
          /\ Step(r, [NoRequest EXCEPT !.pc = "session", !.user = made'])
       \/ /\ \E u \in Ids : users[u].subject = s
          /\ Step(r, At(r, "subjectTaken"))
          /\ UNCHANGED <<users, made>>
    /\ UNCHANGED sessions

\* logout
DeleteSession(t) ==
    /\ up /\ sessions[t] # NoSession
    /\ sessions' = [sessions EXCEPT ![t] = NoSession]
    /\ UNCHANGED <<users, made, requests, served, up, crashes>>

Expire(t) ==
    /\ sessions[t] # NoSession /\ ~sessions[t].expired
    /\ sessions' = [sessions EXCEPT ![t].expired = TRUE]
    /\ UNCHANGED <<users, made, requests, served, up, crashes>>

\* SweepExpiredSessions, every hour.
Sweep ==
    /\ up /\ \E t \in Tokens : sessions[t].expired
    /\ sessions' = [t \in Tokens |-> IF sessions[t].expired THEN NoSession ELSE sessions[t]]
    /\ UNCHANGED <<users, made, requests, served, up, crashes>>

-----------------------------------------------------------------------------
(* Administration.                                                         *)

\* Where UpdateUser goes on once the statements before i are done.
UpdateFrom(req, i) ==
    IF i <= 1 /\ req.name # NoName THEN [req EXCEPT !.pc = "rename"]
    ELSE IF i <= 2 /\ req.reset THEN [req EXCEPT !.pc = "reset"]
    ELSE IF i <= 3 /\ req.admin # "keep" THEN [req EXCEPT !.pc = "setAdmin"]
    ELSE NoRequest

UpdateUser(r, me, u, n, reset, admin) ==
    LET req == [NoRequest EXCEPT !.user = u, !.name = n, !.reset = reset, !.admin = admin] IN
    /\ AdminSession(me) /\ UpdateFrom(req, 1) # NoRequest
    /\ Begin(r, IF admin = "take" THEN [req EXCEPT !.pc = "isAdmin"] ELSE UpdateFrom(req, 1))

IsAdmin(r) ==
    /\ requests[r].pc = "isAdmin"
    /\ Exists(requests[r].user)
    /\ Step(r, IF users[requests[r].user].admin THEN At(r, "countAdmins")
               ELSE UpdateFrom(requests[r], 1))
    /\ UNCHANGED <<users, made, sessions>>

\* Mutant: off by one.
RefusedAtZero == Cardinality(Admins) < 1

Refused == Cardinality(Admins) <= 1

CountAdmins(r) ==
    /\ requests[r].pc = "countAdmins"
    /\ Step(r, IF Refused THEN NoRequest ELSE UpdateFrom(requests[r], 1))
    /\ UNCHANGED <<users, made, sessions>>

\* An UPDATE of a user that is gone changes nothing.
Update(u, new) == users' = IF Exists(u) THEN [users EXCEPT ![u] = new] ELSE users

Rename(r) ==
    LET u == requests[r].user IN
    /\ requests[r].pc = "rename"
    /\ Exists(u) => Free(requests[r].name) \/ users[u].name = requests[r].name
    /\ Update(u, [users[u] EXCEPT !.name = requests[r].name])
    /\ Step(r, UpdateFrom(requests[r], 2))
    /\ UNCHANGED <<made, sessions>>

SessionsRevoked(u) ==
    [t \in Tokens |-> IF sessions[t].user = u THEN NoSession ELSE sessions[t]]

\* Mutant: the sessions are deleted before the password is changed.
RevokeThenReset(r) ==
    LET u == requests[r].user IN
    \/ /\ requests[r].pc = "reset"
       /\ sessions' = SessionsRevoked(u)
       /\ Step(r, At(r, "revoke"))
       /\ UNCHANGED <<users, made>>
    \/ /\ requests[r].pc = "revoke"
       /\ Update(u, [users[u] EXCEPT !.password = @ + 1])
       /\ Step(r, UpdateFrom(requests[r], 3))
       /\ UNCHANGED <<made, sessions>>

ResetThenRevoke(r) ==
    LET u == requests[r].user IN
    \/ /\ requests[r].pc = "reset"
       /\ Update(u, [users[u] EXCEPT !.password = @ + 1, !.unrevoked = TRUE])
       /\ Step(r, At(r, "revoke"))
       /\ UNCHANGED <<made, sessions>>
    \/ /\ requests[r].pc = "revoke"
       /\ sessions' = SessionsRevoked(u)
       /\ Update(u, [users[u] EXCEPT !.unrevoked = FALSE])
       /\ Step(r, UpdateFrom(requests[r], 3))
       /\ UNCHANGED made

SetAdmin(r) ==
    LET u == requests[r].user IN
    /\ requests[r].pc = "setAdmin"
    /\ Update(u, [users[u] EXCEPT !.admin = requests[r].admin = "grant"])
    /\ Step(r, NoRequest)
    /\ UNCHANGED <<made, sessions>>

DeleteUserRequest(r, me, u) ==
    /\ AdminSession(me) /\ me # u
    /\ Begin(r, [NoRequest EXCEPT !.pc = "delete", !.user = u])

DeleteUser(r) ==
    LET u == requests[r].user IN
    /\ requests[r].pc = "delete"
    /\ users' = [users EXCEPT ![u] = NoUser]
    /\ sessions' = SessionsRevoked(u)
    /\ Step(r, NoRequest)
    /\ UNCHANGED made

Next ==
    \/ Start \/ Crash \/ Sweep
    \/ \E t \in Tokens : DeleteSession(t) \/ Expire(t)
    \/ \E r \in Requests :
          \/ \E n \in Names : Login(r, n) \/ Register(r, n)
          \/ \E s \in Subjects : GoogleCallback(r, s)
          \/ \E me \in Ids :
                \/ \E n \in Names, admin \in BOOLEAN : CreateUserRequest(r, me, n, admin)
                \/ \E u \in 1..made, n \in Names \cup {NoName}, reset \in BOOLEAN,
                      admin \in {"keep", "grant", "take"} : UpdateUser(r, me, u, n, reset, admin)
                \/ \E u \in 1..made : DeleteUserRequest(r, me, u)
          \/ CheckPassword(r) \/ CreateSession(r) \/ CreateUser(r)
          \/ FindSubject(r) \/ ChooseName(r) \/ SignUp(r)
          \/ IsAdmin(r) \/ CountAdmins(r) \/ Rename(r) \/ ResetThenRevoke(r) \/ SetAdmin(r)
          \/ DeleteUser(r) \/ Fail(r)

Spec == Init /\ [][Next]_vars

-----------------------------------------------------------------------------
(* Properties.                                                             *)

\* A session whose password was reset since is gone, unless its login verified
\* the old password before the reset and stored the session after it, or the
\* reset has not come to its second statement, or failed there.
OldSessionsRevoked ==
    \A t \in Tokens :
        LET s == sessions[t] IN
        s # NoSession /\ s.password # users[s.user].password => s.raced \/ users[s.user].unrevoked

\* Simultaneous first logins with one Google identity end in one account: none
\* of them is turned away because another one just created it.
GoogleLoginsAgree == \A r \in Requests : requests[r].pc # "subjectTaken"

\* Requests that do not overlap never leave the instance without an admin: the
\* last one is only lost to two that demote or delete at the same time.
LastAdminLostOnlyInRace ==
    [][Admins # {} /\ Admins' = {} =>
          \E r \in Requests : requests'[r] # requests[r] /\ ~requests[r].alone]_vars

-----------------------------------------------------------------------------
(* A claim of the code's comments that its interleavings break.            *)

\* "Refuse to demote the last remaining admin - otherwise the instance locks
\* everyone out of Settings until the container is restarted with
\* YOMEKURO_ADMIN_PASSWORD set" (users.go:101): there is an admin, or starting
\* the server creates one.
AdminRecoverable == Admins # {} \/ Free(AdminName)
=============================================================================
