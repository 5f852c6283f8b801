--------------------------- MODULE AccountsProofs ---------------------------
(***************************************************************************)
(* For any number of users, sessions and requests in flight: names are     *)
(* unique, a password reset leaves no session of the old password behind   *)
(* but the ones the property names, simultaneous first logins with one     *)
(* Google identity end in one account, and an instance loses its last      *)
(* admin only to requests that overlap.                                    *)
(***************************************************************************)
EXTENDS Accounts, FiniteSetTheorems, TLAPS

\* Ids count up, and a row that is not there is empty.
Rows ==
    /\ users \in [Ids -> User]
    /\ made \in 0..MaxUsers
    /\ \A u \in Ids : IF Exists(u) THEN u <= made ELSE users[u] = NoUser
    /\ \A u, v \in Ids : Exists(u) /\ users[u].name = users[v].name => u = v

\* What a handler's locals are when it is at pc.
Locals(req) ==
    /\ req.pc = "idle" => req = NoRequest
    /\ req.pc \in {"session", "isAdmin", "countAdmins", "rename", "reset", "revoke",
                   "setAdmin", "delete"} => req.user \in Ids
    /\ req.pc \in {"insert", "signup", "rename"} => req.name \in Names
    /\ req.pc \in {"lock", "name", "signup"} => req.subject \in Subjects
    /\ req.pc = "setAdmin" => req.admin # "keep"
    /\ req.pc = "reset" => req.reset
    /\ req.admin = "take" =>
          req.pc \in {"isAdmin", "countAdmins", "rename", "reset", "revoke", "setAdmin"}

Handlers ==
    /\ requests \in [Requests -> Request]
    /\ \A r \in Requests : Locals(requests[r])

SessionRows ==
    /\ sessions \in [Tokens -> Session]
    /\ \A t \in Tokens : sessions[t] # NoSession =>
          sessions[t].user \in Ids /\ Exists(sessions[t].user)

Counters == served \in 0..MaxRequests /\ up \in BOOLEAN /\ crashes \in 0..MaxCrashes

\* Requests that will still reset a password: each was counted when it began, so no
\* account sees more resets than requests were served.
Resets(req) == req.reset /\ req.pc \in {"isAdmin", "countAdmins", "rename", "reset"}

Pending == {r \in Requests : Resets(requests[r])}

Passwords == \A u \in Ids : users[u].password + Cardinality(Pending) <= served

TypeInv == Rows /\ Handlers /\ SessionRows /\ Counters /\ Passwords

-----------------------------------------------------------------------------
(* Requests.                                                               *)

\* What is set to begin with has its type.
LEMMA StartTypes ==
    /\ NoUser \in User /\ NoSession \in Session /\ NoRequest \in Request
    /\ NoUser.name = NoName /\ NoUser.password = 0 /\ ~NoUser.admin
    /\ NoUser.subject = NoSubject
    /\ NoRequest.pc = "idle" /\ NoRequest.admin = "keep" /\ ~NoRequest.reset
    /\ Locals(NoRequest)
<1>1. 0 \in 0..MaxRequests
  BY AccountsAssumption
<1> QED BY <1>1 DEF NoUser, User, NoSession, Session, NoRequest, Request, Locals

\* Where UpdateUser can go on.
LEMMA UpdateFromGoesOn ==
    ASSUME NEW req \in Request, req.user \in Ids, NEW i \in 1..3,
           NEW new, new = UpdateFrom(req, i)
    PROVE  /\ new \in Request /\ Locals(new)
           /\ \/ new = NoRequest /\ req.admin = "keep"
              \/ /\ new.pc \in {"rename", "reset", "setAdmin"}
                 /\ i = 3 => new.pc = "setAdmin"
                 /\ new.user = req.user /\ new.admin = req.admin /\ new.alone = req.alone
                 /\ new.reset <=> req.reset
<1>1. CASE i <= 1 /\ req.name # NoName
  <2>1. new = [req EXCEPT !.pc = "rename"]
    BY <1>1 DEF UpdateFrom
  <2>2. req.name \in Names
    BY <1>1 DEF Request
  <2> QED BY <1>1, <2>1, <2>2 DEF Request, Locals
<1>2. CASE ~(i <= 1 /\ req.name # NoName) /\ i <= 2 /\ req.reset
  <2>1. new = [req EXCEPT !.pc = "reset"]
    BY <1>2 DEF UpdateFrom
  <2> QED BY <1>2, <2>1 DEF Request, Locals
<1>3. CASE ~(i <= 1 /\ req.name # NoName) /\ ~(i <= 2 /\ req.reset) /\ req.admin # "keep"
  <2>1. new = [req EXCEPT !.pc = "setAdmin"]
    BY <1>3 DEF UpdateFrom
  <2> QED BY <1>3, <2>1 DEF Request, Locals
<1>4. CASE ~(i <= 1 /\ req.name # NoName) /\ ~(i <= 2 /\ req.reset) /\ req.admin = "keep"
  BY <1>4, StartTypes DEF UpdateFrom
<1> QED BY <1>1, <1>2, <1>3, <1>4 DEF Request

\* A handler's next place.
LEMMA StepHandlers ==
    ASSUME Handlers, NEW r \in Requests, NEW req \in Request, Locals(req), Step(r, req)
    PROVE  /\ Handlers' /\ requests'[r] = req
           /\ \A q \in Requests \ {r} : requests'[q] = requests[q]
           /\ UNCHANGED <<served, up, crashes>>
BY DEF Handlers, Step

\* What a request is when it begins.
Opening(req) ==
    /\ req \in Request /\ Locals(req) /\ req.pc # "idle"
    /\ req.pc \notin {"name", "signup", "subjectTaken"}
    /\ req.admin = "take" => req.pc = "isAdmin"

\* alone is no matter to a handler.
LEMMA AloneIsNoMatter ==
    ASSUME NEW req \in Request, Locals(req), req.pc # "idle", NEW lone \in BOOLEAN
    PROVE  [req EXCEPT !.alone = lone] \in Request /\ Locals([req EXCEPT !.alone = lone])
BY DEF Request, Locals

\* A request that began.
LEMMA BeginHandlers ==
    ASSUME Handlers, NEW r \in Requests, NEW req, Opening(req), Begin(r, req)
    PROVE  /\ Handlers' /\ requests[r] = NoRequest
           /\ requests'[r] = [req EXCEPT !.alone = \A o \in Requests : ~Takes(requests[o])]
           /\ \A q \in Requests \ {r} :
                 requests'[q] = IF Takes(requests[q]) /\ Takes(req)
                                THEN [requests[q] EXCEPT !.alone = FALSE] ELSE requests[q]
<1> DEFINE lone == \A o \in Requests : ~Takes(requests[o])
<1>1. lone \in BOOLEAN
  OBVIOUS
<1>2. [req EXCEPT !.alone = lone] \in Request /\ Locals([req EXCEPT !.alone = lone])
  <2> HIDE DEF lone
  <2> QED BY <1>1, AloneIsNoMatter DEF Opening
<1>3. ASSUME NEW q \in Requests, Takes(requests[q])
      PROVE  /\ [requests[q] EXCEPT !.alone = FALSE] \in Request
             /\ Locals([requests[q] EXCEPT !.alone = FALSE])
  <2>1. requests[q] \in Request /\ Locals(requests[q]) /\ requests[q].pc # "idle"
    BY <1>3, StartTypes DEF Handlers, Takes, Locals
  <2> QED BY <2>1, AloneIsNoMatter
<1>4. requests' = [q \in Requests |->
          IF q = r THEN [req EXCEPT !.alone = lone]
          ELSE IF Takes(requests[q]) /\ Takes(req) THEN [requests[q] EXCEPT !.alone = FALSE]
          ELSE requests[q]]
  BY DEF Begin
<1> HIDE DEF lone
<1>5. ASSUME NEW q \in Requests
      PROVE  LET new == IF q = r THEN [req EXCEPT !.alone = lone]
                        ELSE IF Takes(requests[q]) /\ Takes(req)
                             THEN [requests[q] EXCEPT !.alone = FALSE] ELSE requests[q]
             IN  new \in Request /\ Locals(new)
  <2>1. requests[q] \in Request /\ Locals(requests[q])
    BY DEF Handlers
  <2> QED BY <1>2, <1>3, <2>1
<1>6. Handlers'
  <2>1. requests' \in [Requests -> Request]
    BY <1>4, <1>5
  <2>2. ASSUME NEW q \in Requests PROVE Locals(requests'[q])
    BY <1>4, <1>5
  <2> QED BY <2>1, <2>2 DEF Handlers
<1>7. requests[r] = NoRequest
  BY DEF Begin
<1> QED BY <1>4, <1>6, <1>7 DEF lone

\* A request that ends or goes on without a reset does not add one.
LEMMA PendingShrinks ==
    ASSUME \A r \in Requests : Resets(requests'[r]) => Resets(requests[r])
    PROVE  /\ Cardinality(Pending) \in Nat /\ Cardinality(Pending') \in Nat
           /\ Cardinality(Pending') <= Cardinality(Pending)
<1>1. IsFiniteSet(Pending) /\ Pending' \subseteq Pending
  BY AccountsAssumption, FS_Subset DEF Pending, Resets
<1> QED BY <1>1, FS_Subset, FS_CardinalityType

\* The password is reset: there is one reset less to come.
LEMMA PendingLosesOne ==
    ASSUME NEW r \in Requests, Resets(requests[r]), ~Resets(requests'[r]),
           \A q \in Requests \ {r} : Resets(requests'[q]) => Resets(requests[q])
    PROVE  /\ Cardinality(Pending) \in Nat /\ Cardinality(Pending') \in Nat
           /\ Cardinality(Pending') + 1 <= Cardinality(Pending)
<1>1. IsFiniteSet(Pending) /\ r \in Pending /\ Pending' \subseteq Pending \ {r}
  BY AccountsAssumption, FS_Subset DEF Pending, Resets
<1>2. /\ IsFiniteSet(Pending \ {r}) /\ Cardinality(Pending \ {r}) = Cardinality(Pending) - 1
  BY <1>1, FS_RemoveElement
<1>3. IsFiniteSet(Pending') /\ Cardinality(Pending') <= Cardinality(Pending \ {r})
  BY <1>1, <1>2, FS_Subset
<1> QED BY <1>1, <1>2, <1>3, FS_CardinalityType

\* A request began: there is at most one more.
LEMMA PendingGainsOne ==
    ASSUME NEW r \in Requests,
           \A q \in Requests \ {r} : Resets(requests'[q]) => Resets(requests[q])
    PROVE  /\ Cardinality(Pending) \in Nat /\ Cardinality(Pending') \in Nat
           /\ Cardinality(Pending') <= Cardinality(Pending) + 1
<1>1. IsFiniteSet(Pending) /\ Pending' \subseteq Pending \cup {r}
  BY AccountsAssumption, FS_Subset DEF Pending, Resets
<1>2. IsFiniteSet(Pending \cup {r}) /\ Cardinality(Pending \cup {r}) <= Cardinality(Pending) + 1
  BY <1>1, FS_AddElement, FS_CardinalityType
<1>3. IsFiniteSet(Pending') /\ Cardinality(Pending') <= Cardinality(Pending \cup {r})
  BY <1>1, <1>2, FS_Subset
<1> QED BY <1>1, <1>2, <1>3, FS_CardinalityType

\* Passwords are natural numbers.
LEMMA PasswordType ==
    ASSUME TypeInv
    PROVE  /\ \A u \in Ids : users[u].password \in 0..MaxRequests /\ users[u].password \in Nat
           /\ served \in Nat
<1>1. 0..MaxRequests \subseteq Nat
  BY AccountsAssumption
<1> QED BY <1>1 DEF TypeInv, Rows, User, Counters

\* What is left of the count of resets when no password changes.
LEMMA PasswordsKept ==
    ASSUME TypeInv, \A u \in Ids : users'[u].password \in {0, users[u].password},
           served' = served,
           \A r \in Requests : Resets(requests'[r]) => Resets(requests[r])
    PROVE  Passwords'
<1>1. Passwords /\ \A u \in Ids : users[u].password \in Nat
  BY PasswordType DEF TypeInv
<1> HIDE DEF TypeInv
<1>2. Cardinality(Pending) \in Nat /\ Cardinality(Pending') \in Nat
      /\ Cardinality(Pending') <= Cardinality(Pending)
  BY PendingShrinks
<1>3. ASSUME NEW u \in Ids PROVE users'[u].password + Cardinality(Pending') <= served
  <2>1. users[u].password + Cardinality(Pending) <= served /\ users[u].password \in Nat
    BY <1>1 DEF Passwords
  <2>2. users'[u].password \in {0, users[u].password} /\ served \in Nat
    BY PasswordType
  <2> QED BY <1>2, <2>1, <2>2
<1> QED BY <1>3 DEF Passwords

\* The six ways a request begins.
Request1(r) ==
    \/ \E n \in Names : Login(r, n) \/ Register(r, n)
    \/ \E s \in Subjects : GoogleCallback(r, s)
    \/ \E me \in Ids :
          \/ \E n \in Names, admin \in BOOLEAN : CreateUserRequest(r, me, n, admin)
          \/ \E u \in 1..made, n \in Names \cup {NoName}, reset \in BOOLEAN,
                admin \in {"keep", "grant", "take"} : UpdateUser(r, me, u, n, reset, admin)
          \/ \E u \in 1..made : DeleteUserRequest(r, me, u)

\* Each opens a handler; one that can take admin rights away has an admin behind it.
LEMMA RequestOpens ==
    ASSUME TypeInv, NEW r \in Requests, Request1(r)
    PROVE  \E req : /\ Opening(req) /\ Begin(r, req)
                    /\ Takes(req) => \E me \in Ids : /\ users[me].admin
                                                     /\ req.pc = "delete" => me # req.user
<1>a. 1..made \subseteq Ids
  BY AccountsAssumption DEF TypeInv, Rows, Ids
<1>b. NoRequest \in Request
  BY StartTypes
<1>1. ASSUME NEW n \in Names, Login(r, n) \/ Register(r, n)
      PROVE  \E req : Opening(req) /\ Begin(r, req) /\ ~Takes(req)
  <2>1. CASE Login(r, n)
    <3> DEFINE req == [NoRequest EXCEPT !.pc = "lookup", !.name = n]
    <3>1. Opening(req) /\ ~Takes(req)
      BY <1>b, StartTypes DEF Opening, Request, Locals, Takes
    <3> QED BY <2>1, <3>1 DEF Login
  <2>2. CASE Register(r, n)
    <3> DEFINE req == [NoRequest EXCEPT !.pc = "insert", !.name = n, !.login = TRUE]
    <3>1. Opening(req) /\ ~Takes(req)
      BY <1>b, StartTypes DEF Opening, Request, Locals, Takes
    <3> QED BY <2>2, <3>1 DEF Register
  <2> QED BY <1>1, <2>1, <2>2
<1>2. ASSUME NEW s \in Subjects, GoogleCallback(r, s)
      PROVE  \E req : Opening(req) /\ Begin(r, req) /\ ~Takes(req)
  <2> DEFINE req == [NoRequest EXCEPT !.pc = "lock", !.subject = s]
  <2>1. Opening(req) /\ ~Takes(req)
    BY <1>b, StartTypes DEF Opening, Request, Locals, Takes
  <2> QED BY <1>2, <2>1 DEF GoogleCallback
<1>3. ASSUME NEW me \in Ids, NEW n \in Names, NEW admin \in BOOLEAN,
             CreateUserRequest(r, me, n, admin)
      PROVE  \E req : Opening(req) /\ Begin(r, req) /\ ~Takes(req)
  <2> DEFINE kind == IF admin THEN "grant" ELSE "keep"
             req == [NoRequest EXCEPT !.pc = "insert", !.name = n, !.admin = kind]
  <2>1. Begin(r, req)
    BY <1>3 DEF CreateUserRequest
  <2>2. kind \in {"keep", "grant"}
    OBVIOUS
  <2> HIDE DEF kind
  <2>3. Opening(req) /\ ~Takes(req)
    BY <1>b, <2>2, StartTypes DEF Opening, Request, Locals, Takes
  <2> QED BY <2>1, <2>3
<1>4. ASSUME NEW me \in Ids, NEW u \in 1..made, NEW n \in Names \cup {NoName},
             NEW reset \in BOOLEAN, NEW admin \in {"keep", "grant", "take"},
             UpdateUser(r, me, u, n, reset, admin)
      PROVE  \E req : /\ Opening(req) /\ Begin(r, req)
                      /\ Takes(req) => users[me].admin /\ req.pc # "delete"
  <2> DEFINE req == [NoRequest EXCEPT !.user = u, !.name = n, !.reset = reset, !.admin = admin]
             new == IF admin = "take" THEN [req EXCEPT !.pc = "isAdmin"] ELSE UpdateFrom(req, 1)
  <2>1. /\ Begin(r, new) /\ users[me].admin /\ UpdateFrom(req, 1) # NoRequest
    <3>1. AdminSession(me) /\ Begin(r, new) /\ UpdateFrom(req, 1) # NoRequest
      BY <1>4, Zenon DEF UpdateUser
    <3> QED BY <3>1 DEF AdminSession
  <2>2. /\ req \in Request /\ req.user \in Ids /\ req.admin = admin /\ req.pc = "idle"
    <3>1. u \in {0} \cup Ids /\ u \in Ids
      BY <1>a
    <3>2. req \in Request
      BY <1>b, <3>1 DEF Request
    <3>3. req.user = u /\ req.admin = admin /\ req.pc = NoRequest.pc
      BY <1>b DEF Request
    <3> QED BY <3>1, <3>2, <3>3, StartTypes
  <2>3. CASE admin = "take"
    <3>1. new = [req EXCEPT !.pc = "isAdmin"]
      BY <2>3
    <3> HIDE DEF req, new
    <3>2. Opening(new) /\ new.pc # "delete"
      BY <2>2, <3>1 DEF Opening, Request, Locals
    <3> QED BY <2>1, <3>2
  <2>4. CASE admin # "take"
    <3>1. new = UpdateFrom(req, 1)
      BY <2>4
    <3> HIDE DEF req, new
    <3>2. Opening(new) /\ new.pc # "delete"
      BY <2>1, <2>2, <2>4, <3>1, UpdateFromGoesOn DEF Opening
    <3> QED BY <2>1, <3>2
  <2> QED BY <2>3, <2>4
<1>5. ASSUME NEW me \in Ids, NEW u \in 1..made, DeleteUserRequest(r, me, u)
      PROVE  \E req : Opening(req) /\ Begin(r, req) /\ users[me].admin /\ me # req.user
  <2> DEFINE req == [NoRequest EXCEPT !.pc = "delete", !.user = u]
  <2>1. Opening(req) /\ req.user = u
    BY <1>a, <1>b, StartTypes DEF Opening, Request, Locals
  <2>2. Begin(r, req) /\ users[me].admin /\ me # u
    BY <1>5 DEF DeleteUserRequest, AdminSession
  <2> HIDE DEF req
  <2> QED BY <2>1, <2>2
<1> QED BY <1>1, <1>2, <1>3, <1>4, <1>5 DEF Request1

-----------------------------------------------------------------------------
(* The tables.                                                             *)

\* A row is added.
LEMMA NewUserRows ==
    ASSUME Rows, NEW n \in Names, Free(n), NEW s \in Subjects \cup {NoSubject},
           NEW admin \in BOOLEAN, NewUser(n, s, admin)
    PROVE  /\ Rows' /\ made' \in Ids /\ ~Exists(made')
           /\ users'[made'].subject = s /\ users'[made'].password = 0
           /\ \A u \in Ids \ {made'} : users'[u] = users[u]
<1>1. made' = made + 1 /\ made' \in Ids /\ made' \in 0..MaxUsers
  BY AccountsAssumption DEF Rows, NewUser, Ids
<1>2. ~Exists(made')
  BY <1>1, AccountsAssumption DEF Rows, Ids
<1> DEFINE new == [NoUser EXCEPT !.name = n, !.subject = s, !.admin = admin]
<1>3. new \in User /\ new.name = n /\ new.subject = s /\ new.password = 0
  BY StartTypes DEF User
<1>4. users' = [users EXCEPT ![made'] = new]
  BY DEF NewUser
<1> HIDE DEF new
<1>5. /\ users' \in [Ids -> User] /\ users'[made'] = new
      /\ \A u \in Ids \ {made'} : users'[u] = users[u]
  BY <1>1, <1>3, <1>4 DEF Rows
<1>6. ASSUME NEW u \in Ids PROVE IF users'[u].name # NoName THEN u <= made' ELSE users'[u] = NoUser
  <2>1. CASE u = made'
    BY <1>1, <1>3, <1>5, <2>1, AccountsAssumption DEF Ids
  <2>2. CASE u # made'
    BY <1>1, <1>5, <2>2, AccountsAssumption DEF Rows, Exists, Ids
  <2> QED BY <2>1, <2>2
<1>7. ASSUME NEW u \in Ids, NEW v \in Ids, users'[u].name # NoName, users'[u].name = users'[v].name
      PROVE  u = v
  BY <1>3, <1>5, <1>7 DEF Rows, Exists, Free
<1>8. Rows'
  BY <1>1, <1>5, <1>6, <1>7 DEF Rows, Exists
<1> QED BY <1>1, <1>2, <1>3, <1>5, <1>8

\* A row is changed; its name, if that changes, is free.
LEMMA UpdateRows ==
    ASSUME Rows, UNCHANGED made, NEW u \in Ids, NEW new, Update(u, new),
           Exists(u) => /\ new \in User /\ new.name \in Names
                        /\ new.name = users[u].name \/ Free(new.name)
    PROVE  /\ Rows'
           /\ \A v \in Ids : Exists(v)' <=> Exists(v)
           /\ \A v \in Ids \ {u} : users'[v] = users[v]
           /\ users'[u] = IF Exists(u) THEN new ELSE users[u]
<1>1. CASE Exists(u)
  <2>1. /\ users' \in [Ids -> User] /\ users'[u] = new
        /\ \A v \in Ids \ {u} : users'[v] = users[v]
    BY <1>1 DEF Rows, Update
  <2>2. new.name # NoName
    BY <1>1, AccountsAssumption
  <2>3. ASSUME NEW v \in Ids PROVE Exists(v)' <=> Exists(v)
    BY <1>1, <2>1, <2>2 DEF Exists
  <2>4. ASSUME NEW v \in Ids, NEW w \in Ids, users'[v].name # NoName,
               users'[v].name = users'[w].name
        PROVE  v = w
    BY <1>1, <2>1, <2>2, <2>4 DEF Rows, Exists, Free
  <2>5. Rows'
    BY <2>1, <2>3, <2>4, <1>1 DEF Rows, Exists
  <2> QED BY <1>1, <2>1, <2>3, <2>5
<1>2. CASE ~Exists(u)
  BY <1>2 DEF Update, Rows, Exists
<1> QED BY <1>1, <1>2

\* A row is deleted, and its sessions with it.
LEMMA DeleteRows ==
    ASSUME Rows, SessionRows, UNCHANGED made, NEW u \in Ids,
           users' = [users EXCEPT ![u] = NoUser], sessions' = SessionsRevoked(u)
    PROVE  Rows' /\ SessionRows'
<1>1. /\ users' \in [Ids -> User] /\ users'[u] = NoUser
      /\ \A v \in Ids \ {u} : users'[v] = users[v]
  BY StartTypes DEF Rows
<1>2. Rows'
  BY <1>1, StartTypes DEF Rows, Exists
<1>3. SessionRows'
  BY <1>1, StartTypes DEF SessionRows, SessionsRevoked, Exists
<1> QED BY <1>2, <1>3

\* A row's password is reset.
LEMMA ResetRow ==
    ASSUME NEW row \in User, row.password + 1 \in 0..MaxRequests,
           NEW new, new = [row EXCEPT !.password = @ + 1, !.unrevoked = TRUE]
    PROVE  /\ new \in User /\ new.name = row.name /\ new.password = row.password + 1
           /\ new.subject = row.subject /\ (new.admin <=> row.admin) /\ new.unrevoked
BY DEF User

\* A session expires.
LEMMA SessionExpires ==
    ASSUME NEW s \in Session, NEW new, new = [s EXCEPT !.expired = TRUE]
    PROVE  /\ new \in Session /\ new.user = s.user /\ new.password = s.password
           /\ new.raced <=> s.raced
BY DEF Session

\* A session is stored for a user that is there.
LEMMA NewSession ==
    ASSUME SessionRows, NEW u \in Ids, Exists(u), NEW password \in 0..MaxRequests,
           NEW raced \in BOOLEAN, NEW t \in Tokens, UNCHANGED users,
           sessions' = [sessions EXCEPT ![t] =
               [user |-> u, password |-> password, raced |-> raced, expired |-> FALSE]]
    PROVE  SessionRows'
<1> DEFINE new == [user |-> u, password |-> password, raced |-> raced, expired |-> FALSE]
<1>1. new \in Session /\ new.user = u
  BY DEF Session
<1>2. sessions' = [sessions EXCEPT ![t] = new]
  OBVIOUS
<1> HIDE DEF new
<1> QED BY <1>1, <1>2 DEF SessionRows, Exists

-----------------------------------------------------------------------------
(* Types.                                                                  *)

\* A request begins.
LEMMA BeginTypes ==
    ASSUME TypeInv, NEW r \in Requests, NEW req, Opening(req), Begin(r, req)
    PROVE  TypeInv'
<1>1. Handlers'
  BY BeginHandlers DEF TypeInv
<1>2. /\ UNCHANGED <<users, made, sessions, up, crashes>>
      /\ served < MaxRequests /\ served' = served + 1
  BY DEF Begin
<1>3. Rows' /\ SessionRows' /\ Counters'
  BY <1>2, AccountsAssumption DEF TypeInv, Rows, SessionRows, Counters, Exists
<1>4. Passwords'
  <2>1. ASSUME NEW q \in Requests \ {r}, Resets(requests'[q]) PROVE Resets(requests[q])
    <3>1. /\ requests[q] \in Request
          /\ requests'[q] \in {requests[q], [requests[q] EXCEPT !.alone = FALSE]}
      BY BeginHandlers DEF TypeInv, Handlers
    <3> QED BY <2>1, <3>1 DEF Resets, Request
  <2>2. /\ Cardinality(Pending) \in Nat /\ Cardinality(Pending') \in Nat
        /\ Cardinality(Pending') <= Cardinality(Pending) + 1
    BY <2>1, PendingGainsOne
  <2>3. ASSUME NEW u \in Ids PROVE users[u].password + Cardinality(Pending') <= served + 1
    <3>1. users[u].password + Cardinality(Pending) <= served
      BY DEF TypeInv, Passwords
    <3> QED BY <2>2, <3>1, PasswordType
  <2> QED BY <1>2, <2>3 DEF Passwords
<1> QED BY <1>1, <1>3, <1>4 DEF TypeInv

\* A handler's step that changes no table, or rows but no password.
LEMMA StepTypes ==
    ASSUME TypeInv, NEW r \in Requests, NEW req \in Request, Locals(req), Step(r, req),
           Resets(req) => Resets(requests[r]),
           Rows', SessionRows',
           \A u \in Ids : users'[u].password \in {0, users[u].password}
    PROVE  TypeInv'
<1>1. /\ Handlers' /\ requests'[r] = req
      /\ \A q \in Requests \ {r} : requests'[q] = requests[q]
      /\ UNCHANGED <<served, up, crashes>>
  BY StepHandlers DEF TypeInv
<1>2. Passwords'
  BY <1>1, PasswordsKept
<1>3. Counters'
  BY <1>1 DEF TypeInv, Counters
<1> QED BY <1>1, <1>2, <1>3 DEF TypeInv

\* A handler goes on to another place.
LEMMA AtType ==
    ASSUME TypeInv, NEW r \in Requests,
           NEW pc \in {"name", "countAdmins", "revoke", "subjectTaken"},
           pc = "name" => requests[r].pc = "lock",
           pc = "countAdmins" => requests[r].pc = "isAdmin",
           pc = "revoke" => requests[r].pc = "reset",
           pc = "subjectTaken" => requests[r].pc = "signup"
    PROVE  /\ At(r, pc) \in Request /\ Locals(At(r, pc)) /\ At(r, pc).pc = pc
           /\ At(r, pc).subject = requests[r].subject
           /\ At(r, pc).user = requests[r].user /\ At(r, pc).admin = requests[r].admin
           /\ At(r, pc).alone = requests[r].alone
           /\ Resets(At(r, pc)) => Resets(requests[r])
<1>1. requests[r] \in Request /\ Locals(requests[r])
  BY DEF TypeInv, Handlers
<1> DEFINE req == requests[r]
           new == [req EXCEPT !.pc = pc]
<1> HIDE DEF req
<1>2. req \in Request /\ Locals(req)
  BY <1>1 DEF req
<1>3. new \in Request /\ new.pc = pc
  BY <1>2 DEF Request
<1>4. new.subject = req.subject /\ new.user = req.user /\ new.admin = req.admin /\ new.alone = req.alone
  BY <1>2 DEF Request
<1>5. Locals(new)
  BY <1>2 DEF Request, Locals, req
<1>6. Resets(new) => Resets(req)
  BY <1>2 DEF Request, Resets, req
<1> QED BY <1>3, <1>4, <1>5, <1>6 DEF At, req

\* A name is chosen.
LEMMA SignupType ==
    ASSUME TypeInv, NEW r \in Requests, requests[r].pc = "name", NEW n \in Names
    PROVE  LET new == [At(r, "signup") EXCEPT !.name = n] IN
           /\ new \in Request /\ Locals(new) /\ ~Resets(new) /\ ~Takes(new)
           /\ new.pc = "signup" /\ new.subject = requests[r].subject
<1> DEFINE req == requests[r]
           new == [[req EXCEPT !.pc = "signup"] EXCEPT !.name = n]
<1>1. req \in Request /\ Locals(req) /\ req.pc = "name"
  BY DEF TypeInv, Handlers
<1> HIDE DEF req
<1>2. /\ new \in Request /\ Locals(new) /\ ~Resets(new) /\ ~Takes(new)
      /\ new.pc = "signup" /\ new.subject = req.subject
  BY <1>1 DEF Request, Locals, Resets, Takes
<1> QED BY <1>2 DEF At, req

\* Every step keeps the types.
LEMMA TypeStep == TypeInv /\ [Next]_vars => TypeInv'
<1> SUFFICES ASSUME TypeInv, [Next]_vars PROVE TypeInv'
  OBVIOUS
<1>a. Rows /\ Handlers /\ SessionRows /\ Counters
  BY DEF TypeInv
<1>b. ~Resets(NoRequest) /\ NoRequest \in Request /\ Locals(NoRequest)
  BY StartTypes DEF Resets
<1>c. \A u \in Ids : users[u].password \in 0..MaxRequests /\ users[u].password \in Nat
  BY PasswordType
<1>1. CASE Start
  <2>1. UNCHANGED <<sessions, requests, served, crashes>> /\ up' = TRUE
    BY <1>1 DEF Start
  <2>2. Rows' /\ SessionRows' /\ \A u \in Ids : users'[u].password \in {0, users[u].password}
    <3>1. CASE UNCHANGED <<users, made>>
      BY <1>a, <2>1, <3>1 DEF Rows, SessionRows, Exists
    <3>2. CASE Free(AdminName) /\ NewUser(AdminName, NoSubject, TRUE)
      <4>1. /\ Rows' /\ made' \in Ids /\ ~Exists(made')
            /\ users'[made'].password = 0
            /\ \A u \in Ids \ {made'} : users'[u] = users[u]
        BY <1>a, <3>2, NewUserRows, AccountsAssumption
      <4> QED BY <1>a, <2>1, <4>1 DEF SessionRows, Exists
    <3> QED BY <1>1, <3>1, <3>2 DEF Start
  <2>3. Passwords'
    BY <2>1, <2>2, PasswordsKept
  <2> QED BY <1>a, <2>1, <2>2, <2>3 DEF TypeInv, Handlers, Counters
<1>2. CASE Crash
  <2>1. /\ UNCHANGED <<users, made, sessions, served>> /\ up' = FALSE
        /\ crashes' \in 0..MaxCrashes /\ requests' = [r \in Requests |-> NoRequest]
    BY <1>a, <1>2, AccountsAssumption DEF Crash, Counters
  <2>2. Passwords'
    BY <1>b, <2>1, PasswordsKept
  <2> QED BY <1>a, <1>b, <2>1, <2>2 DEF TypeInv, Rows, SessionRows, Handlers, Counters, Exists
<1>3. ASSUME NEW t \in Tokens, DeleteSession(t) \/ Expire(t) \/ Sweep PROVE TypeInv'
  <2>1. UNCHANGED <<users, made, requests, served, up, crashes>>
    BY <1>3 DEF DeleteSession, Expire, Sweep
  <2>2. ASSUME NEW o \in Tokens
        PROVE  \/ sessions'[o] \in {sessions[o], NoSession}
               \/ /\ sessions[o] # NoSession
                  /\ sessions'[o] = [sessions[o] EXCEPT !.expired = TRUE]
    <3>1. CASE DeleteSession(t)
      BY <1>a, <3>1 DEF SessionRows, DeleteSession
    <3>2. CASE Expire(t)
      BY <1>a, <3>2 DEF SessionRows, Expire
    <3>3. CASE Sweep
      BY <1>a, <3>3 DEF SessionRows, Sweep
    <3> QED BY <1>3, <3>1, <3>2, <3>3
  <2>3. sessions' \in [Tokens -> Session]
    <3>1. sessions' = [o \in Tokens |-> sessions'[o]]
      <4>1. CASE DeleteSession(t)
        BY <1>a, <4>1 DEF SessionRows, DeleteSession
      <4>2. CASE Expire(t)
        BY <1>a, <4>2 DEF SessionRows, Expire
      <4>3. CASE Sweep
        BY <1>a, <4>3 DEF SessionRows, Sweep
      <4> QED BY <1>3, <4>1, <4>2, <4>3
    <3>2. \A o \in Tokens : sessions'[o] \in Session
      BY <1>a, <2>2, StartTypes, SessionExpires DEF SessionRows
    <3> QED BY <3>1, <3>2
  <2>4. SessionRows'
    <3>1. ASSUME NEW o \in Tokens, sessions'[o] # NoSession
          PROVE  sessions[o] # NoSession /\ sessions'[o].user = sessions[o].user
      BY <1>a, <2>2, <3>1, SessionExpires DEF SessionRows
    <3> QED BY <1>a, <2>1, <2>3, <3>1 DEF SessionRows, Exists
  <2>5. Passwords'
    BY <2>1, PasswordsKept
  <2> QED BY <1>a, <2>1, <2>4, <2>5 DEF TypeInv, Rows, Handlers, Counters, Exists
<1>4. CASE Sweep
  <2>1. \E t \in Tokens : TRUE
    BY <1>4 DEF Sweep
  <2> QED BY <1>3, <1>4, <2>1
<1>5. ASSUME NEW r \in Requests, Request1(r) PROVE TypeInv'
  BY <1>5, RequestOpens, BeginTypes
<1>d. ASSUME UNCHANGED <<users, made, sessions>>
      PROVE  /\ Rows' /\ SessionRows'
             /\ \A u \in Ids : users'[u].password \in {0, users[u].password}
  BY <1>a, <1>d DEF Rows, SessionRows, Exists
<1>6. ASSUME NEW r \in Requests, CheckPassword(r) PROVE TypeInv'
  <2>1. PICK u \in Ids :
            Step(r, [NoRequest EXCEPT !.pc = "session", !.user = u, !.password = users[u].password])
    BY <1>6 DEF CheckPassword
  <2>2. UNCHANGED <<users, made, sessions>>
    BY <1>6 DEF CheckPassword
  <2> DEFINE req == [NoRequest EXCEPT !.pc = "session", !.user = u, !.password = users[u].password]
  <2>3. req \in Request /\ Locals(req) /\ ~Resets(req)
    BY <1>b, <1>c, StartTypes DEF Request, Locals, Resets
  <2> HIDE DEF req
  <2> QED BY <1>d, <2>1, <2>2, <2>3, StepTypes DEF req
<1>7. ASSUME NEW r \in Requests, CreateSession(r) PROVE TypeInv'
  <2> DEFINE u == requests[r].user
  <2>1. u \in Ids /\ Exists(u) /\ requests[r].password \in 0..MaxRequests
    BY <1>a, <1>7 DEF CreateSession, Handlers, Locals, Request
  <2>2. Step(r, NoRequest) /\ UNCHANGED <<users, made>>
    BY <1>7 DEF CreateSession
  <2>3. SessionRows'
    BY <1>a, <1>7, <2>1, <2>2, NewSession DEF CreateSession
  <2>4. Rows'
    BY <1>a, <2>2 DEF Rows, Exists
  <2> QED BY <1>b, <2>2, <2>3, <2>4, StepTypes
<1>8. ASSUME NEW r \in Requests, CreateUser(r) PROVE TypeInv'
  <2> DEFINE n == requests[r].name
             req == IF requests[r].login THEN [NoRequest EXCEPT !.pc = "session", !.user = made']
                    ELSE NoRequest
  <2>1. n \in Names /\ Free(n) /\ NewUser(n, NoSubject, requests[r].admin = "grant")
    BY <1>a, <1>8 DEF CreateUser, Handlers, Locals
  <2>2. /\ Rows' /\ made' \in Ids /\ ~Exists(made')
        /\ users'[made'].password = 0
        /\ \A u \in Ids \ {made'} : users'[u] = users[u]
    BY <1>a, <2>1, NewUserRows
  <2>4. Step(r, req) /\ UNCHANGED sessions
    BY <1>8 DEF CreateUser
  <2>5. req \in Request /\ Locals(req) /\ ~Resets(req)
    <3>1. CASE requests[r].login
      <4>1. req = [NoRequest EXCEPT !.pc = "session", !.user = made']
        BY <3>1
      <4> HIDE DEF req
      <4> QED BY <1>b, <2>2, <4>1, StartTypes DEF Request, Locals, Resets
    <3>2. CASE ~requests[r].login
      BY <1>b, <3>2
    <3> QED BY <3>1, <3>2
  <2>6. SessionRows'
    BY <1>a, <2>2, <2>4 DEF SessionRows, Exists
  <2> HIDE DEF req
  <2> QED BY <2>2, <2>4, <2>5, <2>6, StepTypes
<1>9. ASSUME NEW r \in Requests, FindSubject(r) PROVE TypeInv'
  <2>1. CASE Step(r, At(r, "name"))
    <3>1. requests[r].pc = "lock" /\ UNCHANGED <<users, made, sessions>>
      BY <1>9 DEF FindSubject
    <3> QED BY <1>d, <2>1, <3>1, AtType, StepTypes
  <2>2. ASSUME NEW u \in Ids,
               Step(r, [NoRequest EXCEPT !.pc = "session", !.user = u,
                                         !.password = users[u].password])
        PROVE  TypeInv'
    <3> DEFINE req == [NoRequest EXCEPT !.pc = "session", !.user = u,
                                        !.password = users[u].password]
    <3>1. req \in Request /\ Locals(req) /\ ~Resets(req)
      BY <1>b, <1>c, StartTypes DEF Request, Locals, Resets
    <3>2. UNCHANGED <<users, made, sessions>>
      BY <1>9 DEF FindSubject
    <3> HIDE DEF req
    <3> QED BY <1>d, <2>2, <3>1, <3>2, StepTypes DEF req
  <2> QED BY <1>9, <2>1, <2>2 DEF FindSubject
<1>10. ASSUME NEW r \in Requests, ChooseName(r) PROVE TypeInv'
  <2>1. PICK n \in Names : Step(r, [At(r, "signup") EXCEPT !.name = n])
    BY <1>10 DEF ChooseName
  <2>2. requests[r].pc = "name" /\ UNCHANGED <<users, made, sessions>>
    BY <1>10 DEF ChooseName
  <2> DEFINE req == [At(r, "signup") EXCEPT !.name = n]
  <2>3. req \in Request /\ Locals(req) /\ ~Resets(req)
    BY <2>2, SignupType
  <2> HIDE DEF req
  <2> QED BY <1>d, <2>1, <2>2, <2>3, StepTypes DEF req
<1>11. ASSUME NEW r \in Requests, SignUp(r) PROVE TypeInv'
  <2> DEFINE s == requests[r].subject
             n == requests[r].name
  <2>1. /\ requests[r].pc = "signup" /\ UNCHANGED sessions
        /\ n \in Names /\ s \in Subjects
    BY <1>a, <1>11 DEF SignUp, Handlers, Locals
  <2>2. CASE Step(r, At(r, "subjectTaken")) /\ UNCHANGED <<users, made>>
    BY <1>d, <2>1, <2>2, AtType, StepTypes
  <2>3. CASE /\ Free(n) /\ NewUser(n, s, FALSE)
             /\ Step(r, [NoRequest EXCEPT !.pc = "session", !.user = made'])
    <3>1. /\ Rows' /\ made' \in Ids /\ ~Exists(made')
          /\ users'[made'].password = 0
          /\ \A u \in Ids \ {made'} : users'[u] = users[u]
      BY <1>a, <2>1, <2>3, NewUserRows
    <3> DEFINE req == [NoRequest EXCEPT !.pc = "session", !.user = made']
    <3>3. req \in Request /\ Locals(req) /\ ~Resets(req)
      BY <1>b, <3>1, StartTypes DEF Request, Locals, Resets
    <3>4. SessionRows'
      BY <1>a, <2>1, <3>1 DEF SessionRows, Exists
    <3>5. Step(r, req)
      BY <2>3
    <3> HIDE DEF req
    <3> QED BY <3>1, <3>3, <3>4, <3>5, StepTypes
  <2> QED BY <1>11, <2>2, <2>3 DEF SignUp
<1>12. ASSUME NEW r \in Requests, IsAdmin(r) \/ CountAdmins(r) PROVE TypeInv'
  <2>1. requests[r] \in Request /\ requests[r].user \in Ids /\ requests[r].pc \in {"isAdmin", "countAdmins"}
    BY <1>a, <1>12 DEF IsAdmin, CountAdmins, Handlers, Locals
  <2>2. UNCHANGED <<users, made, sessions>>
    BY <1>12 DEF IsAdmin, CountAdmins
  <2>3. CASE Step(r, NoRequest)
    BY <1>b, <1>d, <2>2, <2>3, StepTypes
  <2>4. CASE requests[r].pc = "isAdmin" /\ Step(r, At(r, "countAdmins"))
    BY <1>d, <2>2, <2>4, AtType, StepTypes
  <2>5. CASE Step(r, UpdateFrom(requests[r], 1))
    <3>1. Resets(UpdateFrom(requests[r], 1)) => Resets(requests[r])
      BY <1>b, <2>1, UpdateFromGoesOn DEF Resets
    <3>2. UpdateFrom(requests[r], 1) \in Request /\ Locals(UpdateFrom(requests[r], 1))
      BY <2>1, UpdateFromGoesOn
    <3> QED BY <1>d, <2>2, <2>5, <3>1, <3>2, StepTypes
  <2> QED BY <1>12, <2>3, <2>4, <2>5 DEF IsAdmin, CountAdmins
<1>13. ASSUME NEW r \in Requests, Rename(r) PROVE TypeInv'
  <2> DEFINE u == requests[r].user
             n == requests[r].name
             new == [users[u] EXCEPT !.name = n]
             req == UpdateFrom(requests[r], 2)
  <2>1. /\ requests[r] \in Request /\ requests[r].pc = "rename" /\ u \in Ids /\ n \in Names
    BY <1>a, <1>13 DEF Rename, Handlers, Locals
  <2>2. /\ Update(u, new) /\ Step(r, req) /\ UNCHANGED <<made, sessions>>
        /\ Exists(u) => Free(n) \/ users[u].name = n
    BY <1>13 DEF Rename
  <2>3. new \in User /\ new.name = n /\ new.password = users[u].password
    BY <1>a, <2>1 DEF Rows, User
  <2>4. req \in Request /\ Locals(req) /\ (Resets(req) => Resets(requests[r]))
    BY <1>b, <2>1, UpdateFromGoesOn DEF Resets
  <2> HIDE DEF new, req
  <2>5. /\ Rows' /\ \A v \in Ids : Exists(v)' <=> Exists(v)
        /\ \A v \in Ids \ {u} : users'[v] = users[v]
        /\ users'[u] = IF Exists(u) THEN new ELSE users[u]
    BY <1>a, <2>1, <2>2, <2>3, UpdateRows
  <2>6. SessionRows'
    BY <1>a, <2>2, <2>5 DEF SessionRows
  <2> QED BY <2>2, <2>3, <2>4, <2>5, <2>6, StepTypes
<1>14. ASSUME NEW r \in Requests, SetAdmin(r) PROVE TypeInv'
  <2> DEFINE u == requests[r].user
             new == [users[u] EXCEPT !.admin = requests[r].admin = "grant"]
  <2>1. u \in Ids
    BY <1>a, <1>14 DEF SetAdmin, Handlers, Locals
  <2>2. Update(u, new) /\ Step(r, NoRequest) /\ UNCHANGED <<made, sessions>>
    BY <1>14 DEF SetAdmin
  <2>3. new \in User /\ new.name = users[u].name /\ new.password = users[u].password
    BY <1>a, <2>1 DEF Rows, User
  <2>4. Exists(u) => users[u].name \in Names
    BY <1>a, <2>1 DEF Exists, Rows, User
  <2> HIDE DEF new
  <2>5. /\ Rows' /\ \A v \in Ids : Exists(v)' <=> Exists(v)
        /\ \A v \in Ids \ {u} : users'[v] = users[v]
        /\ users'[u] = IF Exists(u) THEN new ELSE users[u]
    BY <1>a, <2>1, <2>2, <2>3, <2>4, UpdateRows
  <2>6. SessionRows'
    BY <1>a, <2>2, <2>5 DEF SessionRows
  <2> QED BY <1>b, <2>2, <2>3, <2>5, <2>6, StepTypes
<1>15. ASSUME NEW r \in Requests, ResetThenRevoke(r), requests[r].pc = "revoke" PROVE TypeInv'
  <2> DEFINE u == requests[r].user
             new == [users[u] EXCEPT !.unrevoked = FALSE]
             req == UpdateFrom(requests[r], 3)
  <2>1. requests[r] \in Request /\ u \in Ids
    BY <1>a, <1>15 DEF Handlers, Locals
  <2>2. Update(u, new) /\ Step(r, req) /\ UNCHANGED made /\ sessions' = SessionsRevoked(u)
    BY <1>15 DEF ResetThenRevoke
  <2>3. new \in User /\ new.name = users[u].name /\ new.password = users[u].password
    BY <1>a, <2>1 DEF Rows, User
  <2>4. Exists(u) => users[u].name \in Names
    BY <1>a, <2>1 DEF Exists, Rows, User
  <2>5. req \in Request /\ Locals(req) /\ ~Resets(req)
    BY <1>b, <2>1, UpdateFromGoesOn DEF Resets
  <2> HIDE DEF new, req
  <2>6. /\ Rows' /\ \A v \in Ids : Exists(v)' <=> Exists(v)
        /\ \A v \in Ids \ {u} : users'[v] = users[v]
        /\ users'[u] = IF Exists(u) THEN new ELSE users[u]
    BY <1>a, <2>1, <2>2, <2>3, <2>4, UpdateRows
  <2>7. SessionRows'
    BY <1>a, <2>2, <2>6, StartTypes DEF SessionRows, SessionsRevoked
  <2> QED BY <2>2, <2>3, <2>5, <2>6, <2>7, StepTypes
<1>16. ASSUME NEW r \in Requests, ResetThenRevoke(r), requests[r].pc = "reset" PROVE TypeInv'
  <2> DEFINE u == requests[r].user
             new == [users[u] EXCEPT !.password = @ + 1, !.unrevoked = TRUE]
             req == At(r, "revoke")
  <2>1. u \in Ids
    BY <1>a, <1>16 DEF Handlers, Locals
  <2>2. Update(u, new) /\ Step(r, req) /\ UNCHANGED <<made, sessions>>
    BY <1>16 DEF ResetThenRevoke
  <2>3. req \in Request /\ Locals(req) /\ ~Resets(req)
    BY <1>16, AtType DEF Resets
  <2>4. /\ Handlers' /\ requests'[r] = req /\ UNCHANGED <<served, up, crashes>>
        /\ \A q \in Requests \ {r} : requests'[q] = requests[q]
    BY <1>a, <2>2, <2>3, StepHandlers
  <2>5. CASE Resets(requests[r])
    <3>1. /\ Cardinality(Pending) \in Nat /\ Cardinality(Pending') \in Nat
          /\ Cardinality(Pending') + 1 <= Cardinality(Pending)
      BY <2>3, <2>4, <2>5, PendingLosesOne
    <3>2. ASSUME NEW v \in Ids
          PROVE  users[v].password + 1 + Cardinality(Pending') <= served
      <4>1. users[v].password + Cardinality(Pending) <= served
        BY DEF TypeInv, Passwords
      <4> QED BY <3>1, <4>1, PasswordType
    <3>3. users[u].password + 1 \in 0..MaxRequests
      BY <1>a, <2>1, <3>1, <3>2, PasswordType, AccountsAssumption DEF Counters
    <3>4. new \in User /\ new.name = users[u].name /\ new.password = users[u].password + 1
      BY <1>a, <2>1, <3>3, ResetRow DEF Rows
    <3>5. Exists(u) => users[u].name \in Names
      BY <1>a, <2>1 DEF Exists, Rows, User
    <3> HIDE DEF new
    <3>6. /\ Rows' /\ \A v \in Ids : Exists(v)' <=> Exists(v)
          /\ \A v \in Ids \ {u} : users'[v] = users[v]
          /\ users'[u] = IF Exists(u) THEN new ELSE users[u]
      BY <1>a, <2>1, <2>2, <3>4, <3>5, UpdateRows
    <3>7. SessionRows'
      BY <1>a, <2>2, <3>6 DEF SessionRows
    <3>8. ASSUME NEW v \in Ids PROVE users'[v].password + Cardinality(Pending') <= served
      <4>1. users'[v].password \in {users[v].password, users[v].password + 1}
        BY <3>4, <3>6
      <4> QED BY <3>1, <3>2, <4>1, PasswordType
    <3>9. Passwords' /\ Counters'
      BY <1>a, <2>4, <3>8 DEF Passwords, Counters
    <3> QED BY <2>4, <3>6, <3>7, <3>9 DEF TypeInv
  <2>6. Resets(requests[r])
    BY <1>a, <1>16 DEF Resets, Handlers, Locals
  <2> QED BY <2>5, <2>6
<1>17. ASSUME NEW r \in Requests, DeleteUser(r) PROVE TypeInv'
  <2> DEFINE u == requests[r].user
  <2>1. u \in Ids
    BY <1>a, <1>17 DEF DeleteUser, Handlers, Locals
  <2>2. /\ users' = [users EXCEPT ![u] = NoUser] /\ sessions' = SessionsRevoked(u)
        /\ Step(r, NoRequest) /\ UNCHANGED made
    BY <1>17 DEF DeleteUser
  <2>3. Rows' /\ SessionRows'
    BY <1>a, <2>1, <2>2, DeleteRows
  <2>4. \A v \in Ids : users'[v].password \in {0, users[v].password}
    BY <1>a, <2>2, StartTypes DEF Rows
  <2> QED BY <1>b, <2>2, <2>3, <2>4, StepTypes
<1>18. ASSUME NEW r \in Requests, Fail(r) PROVE TypeInv'
  BY <1>b, <1>d, <1>18, StepTypes DEF Fail
<1>19. CASE UNCHANGED vars
  BY <1>19 DEF vars, TypeInv, Rows, Handlers, SessionRows, Counters, Passwords, Pending, Exists
<1>20. ASSUME NEW r \in Requests, ResetThenRevoke(r) PROVE TypeInv'
  BY <1>15, <1>16, <1>20 DEF ResetThenRevoke
<1> QED
  BY <1>1, <1>2, <1>3, <1>4, <1>5, <1>6, <1>7, <1>8, <1>9, <1>10, <1>11, <1>12, <1>13,
      <1>14, <1>17, <1>18, <1>19, <1>20 DEF Next, Request1

\* The tables are empty to begin with.
LEMMA TypeInit == Init => TypeInv
<1> SUFFICES ASSUME Init PROVE TypeInv
  OBVIOUS
<1>1. Rows
  BY StartTypes, AccountsAssumption DEF Init, Rows, Exists
<1>2. Handlers /\ SessionRows
  BY StartTypes DEF Init, Handlers, SessionRows
<1>3. Counters
  <2>1. 0 \in 0..MaxRequests /\ 0 \in 0..MaxCrashes
    BY AccountsAssumption
  <2> QED BY <2>1 DEF Init, Counters
<1>4. Passwords
  <2>1. Pending = {}
    BY StartTypes DEF Init, Pending, Resets
  <2>2. Cardinality(Pending) = 0
    BY <2>1, FS_EmptySet
  <2>3. \A u \in Ids : users[u].password = 0
    BY StartTypes DEF Init
  <2> QED BY <2>2, <2>3 DEF Init, Passwords
<1> QED BY <1>1, <1>2, <1>3, <1>4 DEF TypeInv

\* Every variable keeps its type and no two users have one name, however many
\* sign-ups and renames look for a free name at the same time; an account sees no
\* more password resets than requests were served.
THEOREM AccountTypes == Spec => []TypeOK
<1>1. TypeInv => TypeOK
  BY DEF TypeInv, Rows, Handlers, SessionRows, Counters, TypeOK, Exists
<1> QED BY TypeInit, TypeStep, <1>1, PTL DEF Spec

-----------------------------------------------------------------------------
(* What each UPDATE leaves of the rows.                                    *)

SameRights(u)   == users'[u].admin <=> users[u].admin
SamePassword(u) == /\ users'[u].password = users[u].password
                   /\ users'[u].unrevoked <=> users[u].unrevoked
SameSubject(u)  == users'[u].subject = users[u].subject

\* A rename leaves the password, the identity and the rights.
LEMMA RenamedRows ==
    ASSUME TypeInv, NEW r \in Requests, Rename(r)
    PROVE  \A v \in Ids : SameRights(v) /\ SamePassword(v) /\ SameSubject(v)
<1> DEFINE u == requests[r].user
           new == [users[u] EXCEPT !.name = requests[r].name]
<1>1. u \in Ids /\ users \in [Ids -> User]
  BY DEF TypeInv, Handlers, Locals, Rows, Rename
<1>2. users' = IF Exists(u) THEN [users EXCEPT ![u] = new] ELSE users
  BY DEF Rename, Update
<1>3. /\ new.admin <=> users[u].admin
      /\ new.password = users[u].password /\ (new.unrevoked <=> users[u].unrevoked)
      /\ new.subject = users[u].subject
  BY <1>1 DEF User
<1> HIDE DEF new
<1> QED BY <1>1, <1>2, <1>3 DEF SameRights, SamePassword, SameSubject

\* Granting or taking the rights leaves the other rows' rights, and every password.
LEMMA GrantedRows ==
    ASSUME TypeInv, NEW r \in Requests, SetAdmin(r)
    PROVE  /\ requests[r].user \in Ids
           /\ \A v \in Ids : SamePassword(v) /\ SameSubject(v)
           /\ \A v \in Ids \ {requests[r].user} : SameRights(v)
           /\ requests[r].admin = "grant" /\ users[requests[r].user].admin =>
                 users'[requests[r].user].admin
<1> DEFINE u == requests[r].user
           new == [users[u] EXCEPT !.admin = requests[r].admin = "grant"]
<1>1. u \in Ids /\ users \in [Ids -> User]
  BY DEF TypeInv, Handlers, Locals, Rows, SetAdmin
<1>2. users' = IF Exists(u) THEN [users EXCEPT ![u] = new] ELSE users
  BY DEF SetAdmin, Update
<1>3. /\ new.admin <=> requests[r].admin = "grant"
      /\ new.password = users[u].password /\ (new.unrevoked <=> users[u].unrevoked)
      /\ new.subject = users[u].subject
  BY <1>1 DEF User
<1> HIDE DEF new
<1> QED BY <1>1, <1>2, <1>3 DEF SameRights, SamePassword, SameSubject

\* A reset leaves the rights, and the other rows' passwords; its first statement
\* marks the row until the second.
LEMMA ResetRows ==
    ASSUME TypeInv, NEW r \in Requests, ResetThenRevoke(r)
    PROVE  /\ requests[r].user \in Ids
           /\ \A v \in Ids : SameRights(v) /\ SameSubject(v)
           /\ \A v \in Ids \ {requests[r].user} : SamePassword(v)
           /\ requests[r].pc = "reset" /\ Exists(requests[r].user) =>
                 users'[requests[r].user].unrevoked
<1> DEFINE u == requests[r].user
           new == IF requests[r].pc = "reset"
                  THEN [users[u] EXCEPT !.password = @ + 1, !.unrevoked = TRUE]
                  ELSE [users[u] EXCEPT !.unrevoked = FALSE]
<1>1. u \in Ids /\ users \in [Ids -> User]
  BY DEF TypeInv, Handlers, Locals, Rows, ResetThenRevoke
<1>2. users' = IF Exists(u) THEN [users EXCEPT ![u] = new] ELSE users
  BY DEF ResetThenRevoke, Update
<1>3. /\ new.admin <=> users[u].admin
      /\ new.subject = users[u].subject
      /\ requests[r].pc = "reset" => new.unrevoked
  BY <1>1 DEF User
<1> HIDE DEF new
<1> QED BY <1>1, <1>2, <1>3 DEF SameRights, SamePassword, SameSubject

\* A deletion leaves the other rows.
LEMMA DeletedRows ==
    ASSUME TypeInv, NEW r \in Requests, DeleteUser(r)
    PROVE  /\ requests[r].user \in Ids
           /\ \A v \in Ids \ {requests[r].user} : users'[v] = users[v]
           /\ users'[requests[r].user] = NoUser
BY DEF TypeInv, Handlers, Locals, Rows, DeleteUser

\* A row was added, under an id that was not used, or there was nothing to add.
Adds(s) ==
    \/ UNCHANGED users
    \/ \E w \in Ids : /\ ~Exists(w) /\ users'[w].subject = s
                      /\ \A u \in Ids \ {w} : users'[u] = users[u]

\* Only the Google sign-up adds a row with an identity.
LEMMA AddedRows ==
    ASSUME TypeInv
    PROVE  /\ Start => Adds(NoSubject)
           /\ \A r \in Requests : CreateUser(r) => Adds(NoSubject)
           /\ \A r \in Requests : SignUp(r) => Adds(requests[r].subject)
<1> USE DEF TypeInv
<1>1. ASSUME NEW r \in Requests, CreateUser(r) PROVE Adds(NoSubject)
  <2> DEFINE n == requests[r].name
  <2>1. n \in Names /\ Free(n) /\ NewUser(n, NoSubject, requests[r].admin = "grant")
    BY <1>1 DEF CreateUser, Handlers, Locals
  <2> QED BY <2>1, NewUserRows DEF Adds
<1>2. ASSUME NEW r \in Requests, SignUp(r) PROVE Adds(requests[r].subject)
  <2>1. CASE Free(requests[r].name) /\ NewUser(requests[r].name, requests[r].subject, FALSE)
    <3>1. requests[r].name \in Names /\ requests[r].subject \in Subjects
      BY <1>2 DEF SignUp, Handlers, Locals
    <3> QED BY <2>1, <3>1, NewUserRows DEF Adds
  <2> QED BY <1>2, <2>1 DEF SignUp, Adds
<1>3. ASSUME Start PROVE Adds(NoSubject)
  <2>1. CASE Free(AdminName) /\ NewUser(AdminName, NoSubject, TRUE)
    BY <2>1, NewUserRows, AccountsAssumption DEF Adds
  <2> QED BY <1>3, <2>1 DEF Start, Adds
<1> QED BY <1>1, <1>2, <1>3

-----------------------------------------------------------------------------
(* Sessions of an old password.                                            *)

Sound(t) ==
    LET s == sessions[t] IN
    s # NoSession /\ s.password # users[s.user].password => s.raced \/ users[s.user].unrevoked

\* A step that leaves a session, and its user's password, leaves it as sound as it was.
LEMMA SoundKept ==
    ASSUME TypeInv, NEW t \in Tokens, Sound(t), sessions'[t] = sessions[t],
           sessions[t] # NoSession => SamePassword(sessions[t].user)
    PROVE  Sound(t)'
BY DEF Sound, SamePassword

\* Every step keeps the sessions sound.
LEMMA SessionStep == TypeInv /\ OldSessionsRevoked /\ [Next]_vars => OldSessionsRevoked'
<1> SUFFICES ASSUME TypeInv, OldSessionsRevoked, [Next]_vars, NEW t \in Tokens PROVE Sound(t)'
  BY DEF OldSessionsRevoked, Sound
<1>a. /\ Sound(t) /\ sessions[t] \in Session /\ sessions \in [Tokens -> Session]
      /\ sessions[t] # NoSession => sessions[t].user \in Ids /\ Exists(sessions[t].user)
  BY DEF TypeInv, SessionRows, OldSessionsRevoked, Sound
<1>1. ASSUME UNCHANGED <<users, sessions>> PROVE Sound(t)'
  BY <1>a, <1>1 DEF Sound
<1>2. CASE Start
  <2>1. UNCHANGED sessions
    BY <1>2 DEF Start
  <2>2. sessions[t] # NoSession => users'[sessions[t].user] = users[sessions[t].user]
    BY <1>a, <1>2, AddedRows DEF Adds
  <2> QED BY <1>a, <2>1, <2>2, SoundKept DEF SamePassword
<1>3. CASE Crash
  BY <1>1, <1>3 DEF Crash
<1>4. ASSUME NEW o \in Tokens, DeleteSession(o) \/ Expire(o) \/ Sweep PROVE Sound(t)'
  <2>1. UNCHANGED users
    BY <1>4 DEF DeleteSession, Expire, Sweep
  <2>2. \/ sessions'[t] \in {sessions[t], NoSession}
        \/ sessions[t] # NoSession /\ sessions'[t] = [sessions[t] EXCEPT !.expired = TRUE]
    BY <1>a, <1>4 DEF DeleteSession, Expire, Sweep
  <2>3. \/ sessions'[t] = NoSession
        \/ /\ sessions[t] # NoSession
           /\ sessions'[t].user = sessions[t].user /\ sessions'[t].password = sessions[t].password
           /\ sessions'[t].raced <=> sessions[t].raced
    BY <1>a, <2>2, SessionExpires
  <2> QED BY <1>a, <2>1, <2>3 DEF Sound
<1>5. CASE Sweep
  <2>1. \E o \in Tokens : TRUE
    BY <1>5 DEF Sweep
  <2> QED BY <1>4, <1>5, <2>1
<1>6. ASSUME NEW r \in Requests, Request1(r) PROVE Sound(t)'
  BY <1>1, <1>6, RequestOpens DEF Begin
<1>7. ASSUME NEW r \in Requests,
             CheckPassword(r) \/ FindSubject(r) \/ ChooseName(r) \/ IsAdmin(r) \/ CountAdmins(r) \/ Fail(r)
      PROVE  Sound(t)'
  BY <1>1, <1>7 DEF CheckPassword, FindSubject, ChooseName, IsAdmin, CountAdmins, Fail
<1>8. ASSUME NEW r \in Requests, CreateSession(r) PROVE Sound(t)'
  <2> DEFINE u == requests[r].user
             new == [user |-> u, password |-> requests[r].password,
                     raced |-> requests[r].password # users[u].password, expired |-> FALSE]
  <2>1. PICK o \in Tokens : sessions' = [sessions EXCEPT ![o] = new]
    BY <1>8 DEF CreateSession
  <2>2. UNCHANGED users
    BY <1>8 DEF CreateSession
  <2>3. new.user = u /\ new.password = requests[r].password
        /\ (new.raced <=> requests[r].password # users[u].password)
    OBVIOUS
  <2> HIDE DEF new
  <2>4. CASE t = o
    BY <1>a, <2>1, <2>2, <2>3, <2>4 DEF Sound
  <2>5. CASE t # o
    BY <1>a, <2>1, <2>2, <2>5 DEF Sound
  <2> QED BY <2>4, <2>5
<1>9. ASSUME NEW r \in Requests, CreateUser(r) \/ SignUp(r) PROVE Sound(t)'
  <2>1. sessions[t] # NoSession => users'[sessions[t].user] = users[sessions[t].user]
    BY <1>a, <1>9, AddedRows DEF Adds
  <2>2. UNCHANGED sessions
    BY <1>9 DEF CreateUser, SignUp
  <2> QED BY <1>a, <2>1, <2>2, SoundKept DEF SamePassword
<1>10. ASSUME NEW r \in Requests, Rename(r) \/ SetAdmin(r) PROVE Sound(t)'
  <2>1. \A v \in Ids : SamePassword(v)
    BY <1>10, RenamedRows, GrantedRows
  <2>2. UNCHANGED sessions
    BY <1>10 DEF Rename, SetAdmin
  <2> QED BY <1>a, <2>1, <2>2, SoundKept
<1>11. ASSUME NEW r \in Requests, ResetThenRevoke(r) PROVE Sound(t)'
  <2> DEFINE u == requests[r].user
  <2>1. CASE sessions[t] = NoSession \/ sessions[t].user # u
    <3>1. sessions'[t] = sessions[t]
      BY <1>a, <1>11, <2>1 DEF ResetThenRevoke, SessionsRevoked
    <3> QED BY <1>a, <1>11, <2>1, <3>1, ResetRows, SoundKept
  <2>2. CASE sessions[t] # NoSession /\ sessions[t].user = u /\ requests[r].pc = "reset"
    <3>1. sessions'[t] = sessions[t] /\ users'[u].unrevoked
      BY <1>a, <1>11, <2>2, ResetRows DEF ResetThenRevoke
    <3> QED BY <2>2, <3>1 DEF Sound
  <2>3. CASE sessions[t] # NoSession /\ sessions[t].user = u /\ requests[r].pc # "reset"
    <3>1. sessions'[t] = NoSession
      BY <1>a, <1>11, <2>3 DEF ResetThenRevoke, SessionsRevoked
    <3> QED BY <3>1 DEF Sound
  <2> QED BY <2>1, <2>2, <2>3
<1>12. ASSUME NEW r \in Requests, DeleteUser(r) PROVE Sound(t)'
  <2> DEFINE u == requests[r].user
  <2>1. sessions'[t] = IF sessions[t].user = u THEN NoSession ELSE sessions[t]
    BY <1>a, <1>12 DEF DeleteUser, SessionsRevoked
  <2>2. CASE sessions[t].user = u \/ sessions[t] = NoSession
    <3>1. sessions'[t] = NoSession
      BY <2>1, <2>2
    <3> QED BY <3>1 DEF Sound
  <2>3. CASE sessions[t].user # u /\ sessions[t] # NoSession
    <3>1. users'[sessions[t].user] = users[sessions[t].user] /\ sessions'[t] = sessions[t]
      BY <1>a, <1>12, <2>1, <2>3, DeletedRows
    <3> QED BY <1>a, <3>1, SoundKept DEF SamePassword
  <2> QED BY <2>2, <2>3
<1>13. CASE UNCHANGED vars
  BY <1>1, <1>13 DEF vars
<1> QED
  BY <1>2, <1>3, <1>4, <1>5, <1>6, <1>7, <1>8, <1>9, <1>10, <1>11, <1>12, <1>13
      DEF Next, Request1

\* A password reset ends every session of the old password: those that are left
\* were stored by a login that had verified it already, or wait for the reset's
\* second statement.
THEOREM ResetEndsSessions == Spec => []OldSessionsRevoked
<1>1. Init => OldSessionsRevoked
  BY DEF Init, OldSessionsRevoked
<1>2. /\ Init => TypeInv /\ OldSessionsRevoked
      /\ TypeInv /\ OldSessionsRevoked /\ [Next]_vars => (TypeInv /\ OldSessionsRevoked)'
  BY <1>1, TypeInit, TypeStep, SessionStep
<1> QED BY <1>2, PTL DEF Spec

-----------------------------------------------------------------------------
(* What each step does to its request.                                     *)

HandlerStep(r) ==
    \/ CheckPassword(r) \/ CreateSession(r) \/ CreateUser(r)
    \/ FindSubject(r) \/ ChooseName(r) \/ SignUp(r)
    \/ IsAdmin(r) \/ CountAdmins(r) \/ Rename(r) \/ ResetThenRevoke(r) \/ SetAdmin(r)
    \/ DeleteUser(r) \/ Fail(r)

SigningUp(req) == req.pc \in {"name", "signup", "subjectTaken"}

\* It can still take admin rights away, as it could before.
StillTakes(r, req) ==
    Takes(req) =>
        /\ Takes(requests[r]) /\ req.user = requests[r].user
        /\ req.alone <=> requests[r].alone
        /\ req.pc # "isAdmin"
        /\ IsAdmin(r) \/ CountAdmins(r) \/ requests[r].pc \notin {"isAdmin", "countAdmins"}

\* A handler goes on to a place of its own; only the Google callback signs up, and
\* none starts to take admin rights away that did not ask for it.
LEMMA HandlerGoesOn ==
    ASSUME TypeInv, NEW r \in Requests, HandlerStep(r)
    PROVE  \E req \in Request :
              /\ Locals(req) /\ Step(r, req) /\ StillTakes(r, req)
              /\ SigningUp(req) => FindSubject(r) \/ ChooseName(r) \/ SignUp(r)
<1>a. /\ requests[r] \in Request /\ Locals(requests[r])
      /\ Rows /\ Handlers
  BY DEF TypeInv, Handlers
<1>b. /\ NoRequest \in Request /\ Locals(NoRequest)
      /\ ~Takes(NoRequest) /\ ~SigningUp(NoRequest)
  BY StartTypes DEF Takes, SigningUp
<1>c. ASSUME Step(r, NoRequest)
      PROVE  \E req \in Request :
                /\ Locals(req) /\ Step(r, req) /\ StillTakes(r, req) /\ ~SigningUp(req)
  BY <1>b, <1>c DEF StillTakes
<1>1. ASSUME NEW u \in Ids, NEW password \in 0..MaxRequests
      PROVE  LET req == [NoRequest EXCEPT !.pc = "session", !.user = u, !.password = password] IN
             req \in Request /\ Locals(req) /\ ~Takes(req) /\ ~SigningUp(req)
  BY <1>b, StartTypes DEF Request, Locals, Takes, SigningUp
<1>2. ASSUME NEW u \in Ids
      PROVE  LET req == [NoRequest EXCEPT !.pc = "session", !.user = u] IN
             req \in Request /\ Locals(req) /\ ~Takes(req) /\ ~SigningUp(req)
  BY <1>b, StartTypes DEF Request, Locals, Takes, SigningUp
<1>3. CASE CheckPassword(r)
  <2>1. PICK u \in Ids :
            Step(r, [NoRequest EXCEPT !.pc = "session", !.user = u, !.password = users[u].password])
    BY <1>3 DEF CheckPassword
  <2> DEFINE req == [NoRequest EXCEPT !.pc = "session", !.user = u, !.password = users[u].password]
  <2>2. req \in Request /\ Locals(req) /\ ~Takes(req) /\ ~SigningUp(req)
    BY <1>1, PasswordType
  <2>3. Step(r, req)
    BY <2>1
  <2> HIDE DEF req
  <2> QED BY <2>2, <2>3 DEF StillTakes
<1>4. CASE CreateSession(r) \/ SetAdmin(r) \/ DeleteUser(r) \/ Fail(r)
  BY <1>c, <1>4 DEF CreateSession, SetAdmin, DeleteUser, Fail
<1>5. ASSUME NEW n \in Names, NEW s \in Subjects \cup {NoSubject}, NEW admin \in BOOLEAN,
             Free(n), NewUser(n, s, admin),
             Step(r, [NoRequest EXCEPT !.pc = "session", !.user = made'])
      PROVE  \E req \in Request :
                /\ Locals(req) /\ Step(r, req) /\ StillTakes(r, req) /\ ~SigningUp(req)
  <2> DEFINE req == [NoRequest EXCEPT !.pc = "session", !.user = made']
  <2>1. made' \in Ids
    BY <1>a, <1>5, NewUserRows
  <2>2. req \in Request /\ Locals(req) /\ ~Takes(req) /\ ~SigningUp(req)
    BY <1>2, <2>1
  <2>3. Step(r, req)
    BY <1>5
  <2> HIDE DEF req
  <2> QED BY <2>2, <2>3 DEF StillTakes
<1>6. CASE CreateUser(r)
  <2>1. /\ requests[r].name \in Names /\ Free(requests[r].name)
        /\ NewUser(requests[r].name, NoSubject, requests[r].admin = "grant")
    BY <1>a, <1>6 DEF CreateUser, Locals
  <2>2. CASE requests[r].login
    <3>1. Step(r, [NoRequest EXCEPT !.pc = "session", !.user = made'])
      BY <1>6, <2>2 DEF CreateUser
    <3> QED BY <1>5, <2>1, <3>1
  <2>3. CASE ~requests[r].login
    BY <1>6, <1>c, <2>3 DEF CreateUser
  <2> QED BY <2>2, <2>3
<1>7. ASSUME NEW pc \in {"name", "countAdmins", "revoke", "subjectTaken"},
             pc = "name" => requests[r].pc = "lock",
             pc = "countAdmins" => requests[r].pc = "isAdmin" /\ IsAdmin(r),
             pc = "revoke" => requests[r].pc = "reset",
             pc = "subjectTaken" => requests[r].pc = "signup"
      PROVE  /\ At(r, pc) \in Request /\ Locals(At(r, pc)) /\ StillTakes(r, At(r, pc))
             /\ At(r, pc).pc = pc
  <2> DEFINE req == At(r, pc)
  <2>1. /\ req \in Request /\ Locals(req) /\ req.pc = pc
        /\ req.user = requests[r].user /\ req.admin = requests[r].admin
        /\ req.alone = requests[r].alone
    BY <1>7, AtType
  <2> HIDE DEF req
  <2>2. StillTakes(r, req)
    BY <1>7, <2>1 DEF StillTakes, Takes
  <2> QED BY <2>1, <2>2 DEF req
<1>8. CASE FindSubject(r)
  <2>1. CASE requests[r].pc = "lock" /\ Step(r, At(r, "name"))
    BY <1>7, <1>8, <2>1
  <2>2. ASSUME NEW u \in Ids,
               Step(r, [NoRequest EXCEPT !.pc = "session", !.user = u,
                                         !.password = users[u].password])
        PROVE  \E req \in Request :
                  /\ Locals(req) /\ Step(r, req) /\ StillTakes(r, req) /\ ~SigningUp(req)
    <3> DEFINE req == [NoRequest EXCEPT !.pc = "session", !.user = u,
                                        !.password = users[u].password]
    <3>1. req \in Request /\ Locals(req) /\ ~Takes(req) /\ ~SigningUp(req)
      BY <1>1, PasswordType
    <3>2. Step(r, req)
      BY <2>2
    <3> HIDE DEF req
    <3> QED BY <3>1, <3>2 DEF StillTakes
  <2> QED BY <1>8, <2>1, <2>2 DEF FindSubject
<1>9. CASE ChooseName(r)
  <2>1. PICK n \in Names : Step(r, [At(r, "signup") EXCEPT !.name = n])
    BY <1>9 DEF ChooseName
  <2> DEFINE req == [At(r, "signup") EXCEPT !.name = n]
  <2>2. requests[r].pc = "name"
    BY <1>9 DEF ChooseName
  <2>4. req \in Request /\ Locals(req) /\ ~Takes(req)
    BY <2>1, <2>2, SignupType
  <2>5. Step(r, req)
    BY <2>1
  <2> HIDE DEF req
  <2> QED BY <1>9, <2>4, <2>5 DEF StillTakes
<1>10. CASE SignUp(r)
  <2>1. CASE requests[r].pc = "signup" /\ Step(r, At(r, "subjectTaken"))
    BY <1>7, <1>10, <2>1
  <2>2. CASE /\ Free(requests[r].name) /\ NewUser(requests[r].name, requests[r].subject, FALSE)
             /\ Step(r, [NoRequest EXCEPT !.pc = "session", !.user = made'])
    <3>1. requests[r].name \in Names /\ requests[r].subject \in Subjects
      BY <1>a, <1>10 DEF SignUp, Locals
    <3> QED BY <1>5, <2>2, <3>1
  <2> QED BY <1>10, <2>1, <2>2 DEF SignUp
<1>11. ASSUME NEW i \in 1..3, Step(r, UpdateFrom(requests[r], i)), requests[r].user \in Ids,
              IsAdmin(r) \/ CountAdmins(r) \/ requests[r].pc \notin {"isAdmin", "countAdmins"}
       PROVE  \E req \in Request :
                 /\ Locals(req) /\ Step(r, req) /\ StillTakes(r, req) /\ ~SigningUp(req)
  <2> DEFINE req == UpdateFrom(requests[r], i)
  <2>1. /\ req \in Request /\ Locals(req)
        /\ \/ req = NoRequest
           \/ /\ req.pc \in {"rename", "reset", "setAdmin"}
              /\ req.user = requests[r].user /\ req.admin = requests[r].admin
              /\ req.alone = requests[r].alone
    BY <1>a, <1>11, UpdateFromGoesOn
  <2>2. Step(r, req)
    BY <1>11
  <2> HIDE DEF req
  <2>3. StillTakes(r, req) /\ ~SigningUp(req)
    BY <1>b, <1>11, <2>1 DEF StillTakes, Takes, SigningUp
  <2> QED BY <2>1, <2>2, <2>3
<1>12. CASE IsAdmin(r)
  <2>1. requests[r].pc = "isAdmin" /\ requests[r].user \in Ids
    BY <1>a, <1>12 DEF IsAdmin, Locals
  <2>2. CASE Step(r, At(r, "countAdmins"))
    <3>1. ~SigningUp(At(r, "countAdmins"))
      BY <1>7, <1>12, <2>1 DEF SigningUp
    <3> QED BY <1>7, <1>12, <2>1, <2>2, <3>1
  <2>3. CASE Step(r, UpdateFrom(requests[r], 1))
    BY <1>11, <1>12, <2>1, <2>3
  <2> QED BY <1>12, <2>2, <2>3 DEF IsAdmin
<1>13. CASE CountAdmins(r)
  <2>1. requests[r].user \in Ids
    BY <1>a, <1>13 DEF CountAdmins, Locals
  <2>2. CASE Step(r, UpdateFrom(requests[r], 1))
    BY <1>11, <1>13, <2>1, <2>2
  <2> QED BY <1>c, <1>13, <2>2 DEF CountAdmins
<1>14. CASE Rename(r)
  <2>1. requests[r].pc = "rename" /\ requests[r].user \in Ids /\ Step(r, UpdateFrom(requests[r], 2))
    BY <1>a, <1>14 DEF Rename, Locals
  <2> QED BY <1>11, <2>1
<1>15. CASE ResetThenRevoke(r)
  <2>1. CASE requests[r].pc = "reset" /\ Step(r, At(r, "revoke"))
    <3>1. ~SigningUp(At(r, "revoke"))
      BY <1>7, <2>1 DEF SigningUp
    <3> QED BY <1>7, <2>1, <3>1
  <2>2. CASE requests[r].pc = "revoke" /\ Step(r, UpdateFrom(requests[r], 3))
    <3>1. requests[r].user \in Ids
      BY <1>a, <2>2 DEF Locals
    <3> QED BY <1>11, <2>2, <3>1
  <2> QED BY <1>15, <2>1, <2>2 DEF ResetThenRevoke
<1> QED BY <1>3, <1>4, <1>6, <1>8, <1>9, <1>10, <1>12, <1>13, <1>14, <1>15 DEF HandlerStep


-----------------------------------------------------------------------------
(* Google logins.                                                          *)

\* A callback signs up for an identity that no user has, and that no other callback
\* signs up for: the lock, taken before the identity is looked up, sees to it.
GoogleInv ==
    \A r \in Requests : SigningUp(requests[r]) =>
        /\ requests[r].pc # "subjectTaken"
        /\ \A u \in Ids : users[u].subject # requests[r].subject
        /\ \A q \in Requests \ {r} :
              SigningUp(requests[q]) => requests[q].subject # requests[r].subject

\* A step that begins no sign-up and adds no identity.
LEMMA QuietStep ==
    ASSUME TypeInv, GoogleInv,
           \A u \in Ids : users'[u].subject \in {users[u].subject, NoSubject},
           \A q \in Requests : SigningUp(requests'[q]) =>
               /\ SigningUp(requests[q]) /\ requests'[q].pc # "subjectTaken"
               /\ requests'[q].subject = requests[q].subject
    PROVE  GoogleInv'
<1> SUFFICES ASSUME NEW r \in Requests, SigningUp(requests'[r])
             PROVE  /\ requests'[r].pc # "subjectTaken"
                    /\ \A u \in Ids : users'[u].subject # requests'[r].subject
                    /\ \A q \in Requests \ {r} :
                          SigningUp(requests'[q]) => requests'[q].subject # requests'[r].subject
  BY DEF GoogleInv, SigningUp
<1>1. /\ SigningUp(requests[r]) /\ requests'[r].pc # "subjectTaken"
      /\ requests'[r].subject = requests[r].subject
  OBVIOUS
<1>2. requests[r].subject # NoSubject
  BY <1>1, AccountsAssumption DEF TypeInv, Handlers, Locals, SigningUp, GoogleInv
<1> QED BY <1>1, <1>2 DEF GoogleInv

\* A handler that does not sign up leaves the identities.
LEMMA SubjectsStay ==
    ASSUME TypeInv, NEW r \in Requests, HandlerStep(r), ~SignUp(r)
    PROVE  \A u \in Ids : users'[u].subject \in {users[u].subject, NoSubject}
<1>1. CASE CheckPassword(r) \/ CreateSession(r) \/ FindSubject(r) \/ ChooseName(r) \/ IsAdmin(r)
           \/ CountAdmins(r) \/ Fail(r)
  BY <1>1 DEF CheckPassword, CreateSession, FindSubject, ChooseName, IsAdmin, CountAdmins, Fail
<1>2. CASE CreateUser(r)
  <2>1. Adds(NoSubject)
    BY <1>2, AddedRows
  <2> QED BY <2>1 DEF Adds
<1>3. CASE Rename(r) \/ SetAdmin(r) \/ ResetThenRevoke(r)
  BY <1>3, RenamedRows, GrantedRows, ResetRows DEF SameSubject
<1>4. CASE DeleteUser(r)
  <2>1. /\ \A v \in Ids \ {requests[r].user} : users'[v] = users[v]
        /\ users'[requests[r].user] = NoUser
    BY <1>4, DeletedRows
  <2> QED BY <2>1, StartTypes
<1> QED BY <1>1, <1>2, <1>3, <1>4 DEF HandlerStep

\* Every step keeps the sign-ups apart.
LEMMA GoogleStep == TypeInv /\ GoogleInv /\ [Next]_vars => GoogleInv'
<1> SUFFICES ASSUME TypeInv, GoogleInv, [Next]_vars PROVE GoogleInv'
  OBVIOUS
<1>a. ASSUME NEW r \in Requests PROVE requests[r] \in Request /\ Locals(requests[r])
  BY DEF TypeInv, Handlers
<1>b. ~SigningUp(NoRequest)
  BY StartTypes DEF SigningUp
<1>1. CASE Start
  <2>1. UNCHANGED requests /\ Adds(NoSubject)
    BY <1>1, AddedRows DEF Start
  <2>2. \A u \in Ids : users'[u].subject \in {users[u].subject, NoSubject}
    BY <2>1 DEF Adds
  <2>3. \A q \in Requests : SigningUp(requests'[q]) => requests'[q].pc # "subjectTaken"
    BY <2>1 DEF GoogleInv
  <2> QED BY <2>1, <2>2, <2>3, QuietStep
<1>2. CASE Crash
  <2>1. UNCHANGED users /\ \A q \in Requests : requests'[q] = NoRequest
    BY <1>2 DEF Crash
  <2> QED BY <1>b, <2>1, QuietStep
<1>3. CASE UNCHANGED <<users, requests>>
  BY <1>3 DEF GoogleInv, SigningUp
<1>4. ASSUME NEW r \in Requests, Request1(r) PROVE GoogleInv'
  <2>1. PICK req : Opening(req) /\ Begin(r, req)
    BY <1>4, RequestOpens
  <2>2. UNCHANGED users
    BY <2>1 DEF Begin
  <2>3. ~SigningUp(requests'[r])
    <3> DEFINE lone == \A o \in Requests : ~Takes(requests[o])
    <3>1. requests'[r] = [req EXCEPT !.alone = lone]
      BY <2>1, BeginHandlers DEF TypeInv
    <3> HIDE DEF lone
    <3> QED BY <2>1, <3>1 DEF Opening, Request, SigningUp
  <2>4. ASSUME NEW q \in Requests \ {r}
        PROVE  /\ requests'[q].pc = requests[q].pc /\ requests'[q].subject = requests[q].subject
    <3>1. requests'[q] = requests[q] \/ requests'[q] = [requests[q] EXCEPT !.alone = FALSE]
      BY <2>1, BeginHandlers DEF TypeInv
    <3> QED BY <1>a, <3>1 DEF Request
  <2>5. \A q \in Requests : SigningUp(requests'[q]) =>
               /\ SigningUp(requests[q]) /\ requests'[q].pc # "subjectTaken"
               /\ requests'[q].subject = requests[q].subject
    BY <2>3, <2>4 DEF SigningUp, GoogleInv
  <2> QED BY <2>2, <2>5, QuietStep
<1>5. ASSUME NEW r \in Requests, NEW req, ~SigningUp(req), Step(r, req),
             \A u \in Ids : users'[u].subject \in {users[u].subject, NoSubject}
      PROVE  GoogleInv'
  <2>1. requests'[r] = req /\ \A q \in Requests \ {r} : requests'[q] = requests[q]
    BY <1>5 DEF Step, TypeInv, Handlers
  <2>2. \A q \in Requests : SigningUp(requests'[q]) =>
               /\ SigningUp(requests[q]) /\ requests'[q].pc # "subjectTaken"
               /\ requests'[q].subject = requests[q].subject
    BY <1>5, <2>1 DEF GoogleInv
  <2> QED BY <1>5, <2>2, QuietStep
<1>6. ASSUME NEW r \in Requests, HandlerStep(r), ~FindSubject(r), ~ChooseName(r), ~SignUp(r)
      PROVE  GoogleInv'
  <2>1. PICK req \in Request : Step(r, req) /\ ~SigningUp(req)
    BY <1>6, HandlerGoesOn
  <2> QED BY <1>5, <1>6, <2>1, SubjectsStay
<1>7. ASSUME NEW r \in Requests, FindSubject(r) PROVE GoogleInv'
  <2> DEFINE s == requests[r].subject
  <2>1. requests[r].pc = "lock" /\ LockFree(r, s) /\ UNCHANGED users
    BY <1>7 DEF FindSubject
  <2>2. ASSUME NEW u \in Ids,
               Step(r, [NoRequest EXCEPT !.pc = "session", !.user = u,
                                         !.password = users[u].password])
        PROVE  GoogleInv'
    <3>1. ~SigningUp([NoRequest EXCEPT !.pc = "session", !.user = u,
                                       !.password = users[u].password])
      BY StartTypes DEF Request, SigningUp
    <3> QED BY <1>5, <2>1, <2>2, <3>1
  <2>3. CASE (\A u \in Ids : users[u].subject # s) /\ Step(r, At(r, "name"))
    <3>1. At(r, "name").pc = "name" /\ At(r, "name").subject = s
      BY <2>1, AtType
    <3>2. /\ requests'[r] = At(r, "name")
          /\ \A q \in Requests \ {r} : requests'[q] = requests[q]
      BY <2>3 DEF Step, TypeInv, Handlers
    <3>3. requests'[r].pc = "name" /\ requests'[r].subject = s
      BY <3>1, <3>2
    <3>4. ASSUME NEW q \in Requests \ {r}, SigningUp(requests[q])
          PROVE  requests[q].subject # s
      BY <2>1, <3>4 DEF LockFree, SigningUp, GoogleInv
    <3> QED BY <2>1, <2>3, <3>2, <3>3, <3>4 DEF GoogleInv, SigningUp
  <2> QED BY <1>7, <2>2, <2>3 DEF FindSubject
<1>8. ASSUME NEW r \in Requests, ChooseName(r) PROVE GoogleInv'
  <2>1. PICK n \in Names : Step(r, [At(r, "signup") EXCEPT !.name = n])
    BY <1>8 DEF ChooseName
  <2> DEFINE req == [At(r, "signup") EXCEPT !.name = n]
  <2>2. requests[r].pc = "name" /\ UNCHANGED users
    BY <1>8 DEF ChooseName
  <2>4. Step(r, req)
    BY <2>1
  <2>5. req.pc = "signup" /\ req.subject = requests[r].subject
    BY <2>1, <2>2, SignupType
  <2> HIDE DEF req
  <2>6. requests'[r] = req /\ \A q \in Requests \ {r} : requests'[q] = requests[q]
    BY <2>4 DEF Step, TypeInv, Handlers
  <2>7. \A q \in Requests : SigningUp(requests'[q]) =>
               /\ SigningUp(requests[q]) /\ requests'[q].pc # "subjectTaken"
               /\ requests'[q].subject = requests[q].subject
    BY <2>2, <2>5, <2>6 DEF SigningUp, GoogleInv
  <2> QED BY <2>2, <2>7, QuietStep
<1>9. ASSUME NEW r \in Requests, SignUp(r) PROVE GoogleInv'
  <2> DEFINE s == requests[r].subject
             req == [NoRequest EXCEPT !.pc = "session", !.user = made']
  <2>1. /\ SigningUp(requests[r]) /\ \A u \in Ids : users[u].subject # s
    BY <1>9 DEF SignUp, SigningUp, GoogleInv
  <2>2. Step(r, req)
    BY <1>9, <2>1 DEF SignUp
  <2>3. ~SigningUp(req)
    BY StartTypes DEF Request, SigningUp
  <2> HIDE DEF req
  <2>4. requests'[r] = req /\ \A q \in Requests \ {r} : requests'[q] = requests[q]
    BY <2>2 DEF Step, TypeInv, Handlers
  <2>5. \A u \in Ids : users'[u].subject \in {users[u].subject, s}
    BY <1>9, AddedRows DEF Adds
  <2>6. ASSUME NEW q \in Requests, SigningUp(requests'[q])
        PROVE  /\ q # r /\ requests'[q] = requests[q] /\ requests[q].pc # "subjectTaken"
               /\ \A u \in Ids : users'[u].subject # requests[q].subject
               /\ \A o \in Requests \ {q} :
                     SigningUp(requests'[o]) => requests'[o].subject # requests[q].subject
    <3>1. q # r /\ requests'[q] = requests[q]
      BY <2>3, <2>4, <2>6
    <3>2. requests[q].subject # s
      BY <2>1, <2>6, <3>1 DEF GoogleInv
    <3> QED BY <2>3, <2>4, <2>5, <2>6, <3>1, <3>2 DEF GoogleInv
  <2> QED BY <2>6 DEF GoogleInv, SigningUp
<1>10. ASSUME NEW t \in Tokens, DeleteSession(t) \/ Expire(t) PROVE GoogleInv'
  BY <1>3, <1>10 DEF DeleteSession, Expire
<1>11. CASE Sweep
  BY <1>3, <1>11 DEF Sweep
<1>12. CASE UNCHANGED vars
  BY <1>3, <1>12 DEF vars
<1>13. ASSUME NEW r \in Requests, HandlerStep(r) PROVE GoogleInv'
  BY <1>6, <1>7, <1>8, <1>9, <1>13
<1> QED BY <1>1, <1>2, <1>4, <1>10, <1>11, <1>12, <1>13 DEF Next, Request1, HandlerStep

\* Simultaneous first logins with one Google identity end in one account: the lock
\* is held from the lookup of the identity to the insertion of the account.
THEOREM GoogleLoginsEndInOneAccount == Spec => []GoogleLoginsAgree
<1>1. Init => GoogleInv
  BY StartTypes DEF Init, GoogleInv, SigningUp
<1>2. GoogleInv => GoogleLoginsAgree
  BY DEF GoogleInv, GoogleLoginsAgree, SigningUp
<1>3. /\ Init => TypeInv /\ GoogleInv
      /\ TypeInv /\ GoogleInv /\ [Next]_vars => (TypeInv /\ GoogleInv)'
  BY <1>1, TypeInit, TypeStep, GoogleStep
<1> QED BY <1>2, <1>3, PTL DEF Spec

-----------------------------------------------------------------------------
(* The last admin.                                                         *)

\* A request that can take admin rights away, and ran beside no other such request,
\* is still the only one, and once it has counted, or knows that it need not, there
\* is an admin besides the one it acts on.
Safe(r) ==
    Takes(requests[r]) /\ requests[r].alone =>
        /\ \A q \in Requests \ {r} : ~Takes(requests[q])
        /\ Admins # {}
        /\ requests[r].pc \notin {"isAdmin", "countAdmins"} => Admins \ {requests[r].user} # {}

TakerInv == \A r \in Requests : Safe(r)

\* What was counted.
LEMMA RefusedOne ==
    ASSUME NEW u \in Ids, Admins # {}, Admins \ {u} = {}
    PROVE  Refused
<1>1. IsFiniteSet({u}) /\ Cardinality({u}) = 1
  BY FS_Singleton
<1>2. Admins \subseteq {u}
  OBVIOUS
<1>3. Cardinality(Admins) <= Cardinality({u})
  BY <1>1, <1>2, FS_Subset
<1> QED BY <1>1, <1>3 DEF Refused

\* Rights that each row keeps.
LEMMA RightsStay ==
    ASSUME \A u \in Ids : users[u].admin => users'[u].admin
    PROVE  Admins \subseteq Admins'
BY DEF Admins

\* A row that is added is a row that was not there.
LEMMA AddedRights ==
    ASSUME TypeInv, NEW s, Adds(s)
    PROVE  Admins \subseteq Admins'
<1>1. ASSUME NEW w \in Ids, ~Exists(w) PROVE ~users[w].admin
  BY <1>1, StartTypes DEF TypeInv, Rows
<1> QED BY <1>1, RightsStay DEF Adds

\* r ends having taken the rights of its user.
TakesRights(r) ==
    /\ Takes(requests[r]) /\ requests[r].pc \notin {"isAdmin", "countAdmins"}
    /\ Step(r, NoRequest)
    /\ Admins \ {requests[r].user} \subseteq Admins'

\* Every handler keeps the admins, but one that takes rights away: at its last step,
\* and no rights but its user's.
LEMMA RightsStep ==
    ASSUME TypeInv, NEW r \in Requests, HandlerStep(r)
    PROVE  Admins \subseteq Admins' \/ TakesRights(r)
<1>1. CASE CheckPassword(r) \/ CreateSession(r) \/ FindSubject(r) \/ ChooseName(r) \/ IsAdmin(r)
           \/ CountAdmins(r) \/ Fail(r)
  BY <1>1, RightsStay
      DEF CheckPassword, CreateSession, FindSubject, ChooseName, IsAdmin, CountAdmins, Fail
<1>2. CASE CreateUser(r) \/ SignUp(r)
  BY <1>2, AddedRows, AddedRights
<1>3. CASE Rename(r) \/ ResetThenRevoke(r)
  BY <1>3, RenamedRows, ResetRows, RightsStay DEF SameRights
<1>4. CASE SetAdmin(r)
  <2>1. /\ requests[r].user \in Ids
        /\ \A v \in Ids \ {requests[r].user} : SameRights(v)
        /\ requests[r].admin = "grant" /\ users[requests[r].user].admin =>
               users'[requests[r].user].admin
    BY <1>4, GrantedRows
  <2>2. /\ requests[r].pc = "setAdmin" /\ Step(r, NoRequest)
        /\ requests[r].admin \in {"grant", "take"}
    BY <1>4 DEF SetAdmin, TypeInv, Handlers, Locals, Request
  <2>3. CASE requests[r].admin = "grant"
    BY <2>1, <2>3, RightsStay DEF SameRights
  <2>4. CASE requests[r].admin = "take"
    <3>1. Admins \ {requests[r].user} \subseteq Admins'
      BY <2>1 DEF Admins, SameRights
    <3> QED BY <2>2, <2>4, <3>1 DEF TakesRights, Takes
  <2> QED BY <2>2, <2>3, <2>4
<1>5. CASE DeleteUser(r)
  <2>1. \A v \in Ids \ {requests[r].user} : users'[v] = users[v]
    BY <1>5, DeletedRows
  <2>2. requests[r].pc = "delete" /\ Step(r, NoRequest)
    BY <1>5 DEF DeleteUser
  <2>3. Admins \ {requests[r].user} \subseteq Admins'
    BY <2>1 DEF Admins
  <2> QED BY <2>2, <2>3 DEF TakesRights, Takes
<1> QED BY <1>1, <1>2, <1>3, <1>4, <1>5 DEF HandlerStep

\* Every step keeps the admins or is the last of one that takes rights away.
LEMMA AdminsStep ==
    ASSUME TypeInv, [Next]_vars
    PROVE  Admins \subseteq Admins' \/ \E r \in Requests : TakesRights(r)
<1>1. CASE UNCHANGED users
  BY <1>1, RightsStay
<1>2. CASE Start
  BY <1>2, AddedRows, AddedRights
<1>3. ASSUME NEW r \in Requests, Request1(r) PROVE UNCHANGED users
  <2>1. PICK req : Begin(r, req)
    BY <1>3, RequestOpens
  <2> QED BY <2>1 DEF Begin
<1>4. ASSUME NEW r \in Requests, HandlerStep(r)
      PROVE  Admins \subseteq Admins' \/ TakesRights(r)
  BY <1>4, RightsStep
<1>5. ASSUME NEW t \in Tokens, DeleteSession(t) \/ Expire(t) PROVE UNCHANGED users
  BY <1>5 DEF DeleteSession, Expire
<1>6. Crash \/ Sweep \/ UNCHANGED vars => UNCHANGED users
  BY DEF Crash, Sweep, vars
<1> QED BY <1>1, <1>2, <1>3, <1>4, <1>5, <1>6 DEF Next, Request1, HandlerStep

\* The check leaves an admin besides the one that loses the rights.
LEMMA CheckedTaker ==
    ASSUME TypeInv, TakerInv, NEW r \in Requests, IsAdmin(r) \/ CountAdmins(r),
           Takes(requests'[r]), Takes(requests[r]), requests[r].alone
    PROVE  requests'[r].pc # "countAdmins" => Admins \ {requests[r].user} # {}
<1> DEFINE u == requests[r].user
<1>1. Admins # {} /\ u \in Ids
  BY DEF TakerInv, Safe, TypeInv, Handlers, Locals, IsAdmin, CountAdmins
<1>2. CASE CountAdmins(r)
  <2>1. CASE Refused
    <3>1. requests'[r] = NoRequest
      BY <1>2, <2>1 DEF CountAdmins, Step, TypeInv, Handlers
    <3> QED BY <3>1, StartTypes DEF Takes
  <2>2. CASE ~Refused
    BY <1>1, <2>2, RefusedOne
  <2> QED BY <2>1, <2>2
<1>3. CASE IsAdmin(r)
  <2>1. CASE users[u].admin
    <3>1. requests'[r] = At(r, "countAdmins") /\ requests[r].pc = "isAdmin"
      BY <1>3, <2>1 DEF IsAdmin, Step, TypeInv, Handlers
    <3>2. requests'[r].pc = "countAdmins"
      BY <3>1, AtType
    <3> QED BY <3>2
  <2>2. CASE ~users[u].admin
    <3>1. u \notin Admins
      BY <2>2 DEF Admins
    <3> QED BY <1>1, <3>1
  <2> QED BY <2>1, <2>2
<1> QED BY <1>2, <1>3

\* Every step keeps an admin beside a lone request.
LEMMA TakerStep == TypeInv /\ TakerInv /\ [Next]_vars => TakerInv'
<1> SUFFICES ASSUME TypeInv, TakerInv, [Next]_vars, NEW r \in Requests,
                    Takes(requests'[r]), requests'[r].alone
             PROVE  Safe(r)'
  BY DEF TakerInv, Safe
<1>a. ~Takes(NoRequest)
  BY StartTypes DEF Takes
<1>b. ASSUME NEW q \in Requests, Takes(requests[q]), requests[q].alone
      PROVE  Safe(q)
  BY DEF TakerInv, Safe
<1>1. ASSUME NEW q \in Requests, TakesRights(q) PROVE FALSE
  <2>1. requests'[q] = NoRequest /\ \A o \in Requests \ {q} : requests'[o] = requests[o]
    BY <1>1 DEF TakesRights, Step, TypeInv, Handlers
  <2>2. r # q /\ requests'[r] = requests[r]
    BY <1>a, <2>1
  <2>3. Takes(requests[r]) /\ requests[r].alone /\ Takes(requests[q])
    BY <1>1, <2>2 DEF TakesRights
  <2> QED BY <1>b, <2>2, <2>3 DEF Safe
<1>2. Admins \subseteq Admins'
  BY <1>1, AdminsStep
<1>3. CASE UNCHANGED requests
  BY <1>2, <1>3, <1>b DEF Safe, Takes
<1>4. CASE Crash
  BY <1>4, <1>a DEF Crash
<1>5. ASSUME NEW o \in Requests, HandlerStep(o) PROVE Safe(r)'
  <2>1. PICK req \in Request : Step(o, req) /\ StillTakes(o, req)
    BY <1>5, HandlerGoesOn
  <2>2. requests'[o] = req /\ \A q \in Requests \ {o} : requests'[q] = requests[q]
    BY <2>1 DEF Step, TypeInv, Handlers
  <2>3. /\ Takes(requests[r]) /\ requests[r].alone
        /\ requests'[r].user = requests[r].user
    BY <2>1, <2>2 DEF StillTakes
  <2>4. Safe(r)
    BY <1>b, <2>3
  <2>5. ASSUME NEW q \in Requests \ {r} PROVE ~Takes(requests'[q])
    BY <2>1, <2>2, <2>3, <2>4 DEF Safe, StillTakes
  <2>6. ASSUME requests'[r].pc \notin {"isAdmin", "countAdmins"}
        PROVE  Admins \ {requests[r].user} # {}
    <3>1. CASE r # o
      BY <2>2, <2>3, <2>4, <2>6, <3>1 DEF Safe
    <3>2. CASE r = o /\ requests[r].pc \notin {"isAdmin", "countAdmins"}
      BY <2>3, <2>4, <3>2 DEF Safe
    <3>3. CASE r = o /\ (IsAdmin(r) \/ CountAdmins(r))
      BY <2>3, <2>6, <3>3, CheckedTaker
    <3> QED BY <2>1, <2>2, <3>1, <3>2, <3>3 DEF StillTakes
  <2> QED BY <1>2, <2>3, <2>4, <2>5, <2>6 DEF Safe
<1>6. ASSUME NEW o \in Requests, Request1(o) PROVE Safe(r)'
  <2>1. PICK req : /\ Opening(req) /\ Begin(o, req)
                   /\ Takes(req) => \E me \in Ids : /\ users[me].admin
                                                    /\ req.pc = "delete" => me # req.user
    BY <1>6, RequestOpens
  <2> DEFINE lone == \A q \in Requests : ~Takes(requests[q])
  <2>2. /\ requests'[o] = [req EXCEPT !.alone = lone]
        /\ \A q \in Requests \ {o} :
              requests'[q] = IF Takes(requests[q]) /\ Takes(req)
                             THEN [requests[q] EXCEPT !.alone = FALSE] ELSE requests[q]
    BY <2>1, BeginHandlers DEF TypeInv
  <2>3. lone \in BOOLEAN
    OBVIOUS
  <2>4. /\ requests'[o].pc = req.pc /\ requests'[o].user = req.user
        /\ requests'[o].admin = req.admin /\ (requests'[o].alone <=> lone)
    <3> HIDE DEF lone
    <3> QED BY <2>1, <2>2, <2>3 DEF Opening, Request
  <2>5. Takes(requests'[o]) <=> Takes(req)
    BY <2>4 DEF Takes
  <2>6. CASE r = o
    <3>1. lone /\ Takes(req)
      BY <2>4, <2>5, <2>6
    <3>2. ASSUME NEW q \in Requests \ {r} PROVE ~Takes(requests'[q])
      BY <2>2, <2>6, <3>1
    <3>3. PICK me \in Ids : users[me].admin /\ (req.pc = "delete" => me # req.user)
      BY <2>1, <3>1
    <3>4. req.pc \in {"isAdmin", "delete"}
      BY <2>1, <3>1 DEF Opening, Takes
    <3>5. me \in Admins
      BY <3>3 DEF Admins
    <3> QED BY <1>2, <2>4, <2>6, <3>2, <3>3, <3>4, <3>5 DEF Safe
  <2>7. CASE r # o
    <3>1. requests[r] \in Request
      BY DEF TypeInv, Handlers
    <3>2. ~(Takes(requests[r]) /\ Takes(req))
      <4>1. SUFFICES ASSUME Takes(requests[r]), Takes(req) PROVE FALSE
        OBVIOUS
      <4>2. requests'[r] = [requests[r] EXCEPT !.alone = FALSE]
        BY <2>2, <2>7, <4>1
      <4> QED BY <3>1, <4>2 DEF Request
    <3>3. requests'[r] = requests[r]
      BY <2>2, <2>7, <3>2
    <3>4. Takes(requests[r]) /\ requests[r].alone /\ ~Takes(req)
      BY <3>2, <3>3
    <3>5. \A q \in Requests \ {o} : requests'[q] = requests[q]
      BY <2>2, <3>4
    <3>6. \A q \in Requests \ {r} : ~Takes(requests'[q])
      BY <1>b, <2>5, <3>4, <3>5 DEF Safe
    <3> QED BY <1>2, <1>b, <3>3, <3>4, <3>6 DEF Safe
  <2> QED BY <2>6, <2>7
<1>7. ASSUME NEW t \in Tokens, DeleteSession(t) \/ Expire(t) PROVE UNCHANGED requests
  BY <1>7 DEF DeleteSession, Expire
<1>8. Start \/ Sweep \/ UNCHANGED vars => UNCHANGED requests
  BY DEF Start, Sweep, vars
<1> QED BY <1>3, <1>4, <1>5, <1>6, <1>7, <1>8 DEF Next, Request1, HandlerStep

\* Requests that do not overlap never leave the instance without an admin: the check
\* in updateUser and the admin behind every deletion leave one, so long as no other
\* request takes rights away meanwhile.
THEOREM LastAdminLostOnlyByRacers == Spec => LastAdminLostOnlyInRace
<1>1. Init => TakerInv
  BY StartTypes DEF Init, TakerInv, Safe, Takes
<1>2. ASSUME TypeInv, TakerInv, [Next]_vars, Admins # {}, Admins' = {}
      PROVE  \E r \in Requests : requests'[r] # requests[r] /\ ~requests[r].alone
  <2>1. PICK r \in Requests : TakesRights(r)
    BY <1>2, AdminsStep
  <2>2. requests'[r] = NoRequest /\ Takes(requests[r])
    BY <1>2, <2>1 DEF TakesRights, Step, TypeInv, Handlers
  <2>3. requests'[r] # requests[r]
    BY <2>2, StartTypes DEF Takes
  <2>4. ~requests[r].alone
    BY <1>2, <2>1 DEF TakesRights, TakerInv, Safe
  <2> QED BY <2>3, <2>4
<1>3. /\ Init => TypeInv /\ TakerInv
      /\ TypeInv /\ TakerInv /\ [Next]_vars => (TypeInv /\ TakerInv)'
  BY <1>1, TypeInit, TypeStep, TakerStep
<1>4. TypeInv /\ TakerInv /\ [Next]_vars =>
          [Admins # {} /\ Admins' = {} =>
              \E r \in Requests : requests'[r] # requests[r] /\ ~requests[r].alone]_vars
  BY <1>2
<1> QED BY <1>3, <1>4, PTL DEF Spec, LastAdminLostOnlyInRace

=============================================================================
