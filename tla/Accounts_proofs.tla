---------------------------- MODULE Accounts_proofs ----------------------------
(***************************************************************************)
(* Types, revocation, setup tokens and the entitlement of served calls:    *)
(* for all accounts, leagues, passwords, sessions, tokens, lifetimes and   *)
(* requests in flight.                                                     *)
(***************************************************************************)
EXTENDS Accounts, TLAPS

(***************************************************************************)
(* What is typed of the rows, of the requests and of their history.        *)
(***************************************************************************)
RowsOK ==
    /\ now \in 0..Horizon
    /\ account \in [Users -> Account]
    /\ sessions \in [SessionIds -> Session \cup {Unused, Deleted}]
    /\ setupTokens \in [TokenIds -> SetupToken \cup {Unused}]
    /\ apiKey \in [Users -> {"none", "active", "revoked"}]
    /\ grants \subseteq Users \X Assignments
    /\ leagues \subseteq Leagues
RequestsOK == request \in [Clients -> Request] /\ started \in 0..MaxRequests
ShutOK ==
    shut \in [Clients -> [inactive : SUBSET Users, ungranted : SUBSET (Users \X Assignments),
                          session : BOOLEAN, key : BOOLEAN]]

\* Keys, sessions and assignments belong to accounts there are, assignments to
\* leagues there are; an account that is active or can log in is one.
Owned ==
    /\ \A u \in Users : account[u].active \/ account[u].email \/ apiKey[u] # "none"
                          => account[u].exists
    /\ \A s \in SessionIds : Present(sessions[s]) => account[sessions[s].user].exists
    /\ \A u \in Users, a \in Assignments : <<u, a>> \in grants => account[u].exists
    /\ \A l \in Leagues, u \in Users : <<u, LeagueAdmin(l)>> \in grants => l \in leagues

\* What a request carries names rows: a login an account, a call the session and
\* the key it presents, and the account it is found to be made by.
Names(r) ==
    /\ r.op = "login" => account[r.user].exists
    /\ r.op = "call" =>
         /\ r.step \in {"cookie", "user", "touch"} =>
              r.session \in SessionIds /\ sessions[r.session] # Unused
         /\ r.key # NoUser => apiKey[r.key] # "none"
         /\ r.step \in {"user", "touch", "roles"} \cup Handling =>
              r.who \in Users /\ account[r.who].exists
         /\ r.step \in {"user", "touch"} => r.method = "session"
         /\ r.step = "revokeSessions" => r.call.op = "deactivate"
         /\ r.step = "revokeKeys" => r.call.op = "deactivate"
         /\ r.step = "createToken" => r.call.op = "issueToken"
RequestsName == \A c \in Clients : Names(request[c])

Typed == RowsOK /\ RequestsOK /\ ShutOK /\ Owned /\ RequestsName

OverlapOK == overlapped \subseteq Users
LEMMA Types == Typed /\ OverlapOK => TypeOK
  BY DEF OverlapOK, Typed, RowsOK, RequestsOK, ShutOK, Owned, TypeOK

\* No row that something names goes, and no step makes an id unused again.
Grows ==
    /\ \A u \in Users : account[u].exists => account'[u].exists
    /\ \A s \in SessionIds : sessions[s] # Unused => sessions'[s] # Unused
    /\ \A u \in Users : apiKey[u] # "none" => apiKey'[u] # "none"
RowsKept == RowsOK' /\ Owned' /\ Grows

(***************************************************************************)
(* Requests by kind.                                                       *)
(***************************************************************************)
LEMMA Kinds ==
    ASSUME RequestsOK, NEW c \in Clients
    PROVE  /\ request[c].op = "login" => request[c] \in Login
           /\ request[c].op = "call" => request[c] \in Call
  BY DEF RequestsOK, Request, Idle, Login, Call

LEMMA CallUsers ==
    ASSUME NEW r \in Call
    PROVE  /\ r.call.op \in AccountOps \cup RoleOps => r.call.user \in Users
           /\ r.call.op \in RoleOps => r.call.role \in Assignments
  BY UserAssumption DEF Call, Calls, AccountOps, RoleOps

(***************************************************************************)
(* What a step does to the rows.                                           *)
(***************************************************************************)
LEMMA SameRows == RowsOK /\ Owned /\ UNCHANGED <<now, rowVars>> => RowsKept
  BY DEF RowsOK, Owned, RowsKept, Grows, rowVars, Present

LEMMA TickRows == RowsOK /\ Owned /\ Tick => RowsKept
  BY LifetimeAssumption DEF RowsOK, Owned, RowsKept, Grows, rowVars, Present, Tick

\* A step that only sets passwords.
LEMMA PasswordRows ==
    ASSUME RowsOK, Owned, NEW u \in Users, NEW p \in Passwords,
           account' = [account EXCEPT ![u].password = p, ![u].weak = FALSE],
           UNCHANGED <<now, sessions, apiKey, grants, leagues>>,
           setupTokens' \in [TokenIds -> SetupToken \cup {Unused}]
    PROVE  RowsKept
  <1>a. account[u] \in Account
    BY DEF RowsOK
  <1>b. [account[u] EXCEPT !.password = p, !.weak = FALSE] \in Account
    BY <1>a DEF Account
  <1>c. account' = [account EXCEPT ![u] = [account[u] EXCEPT !.password = p, !.weak = FALSE]]
    BY DEF RowsOK
  <1>1. account' \in [Users -> Account]
    BY <1>b, <1>c DEF RowsOK
  <1>2. \A v \in Users : /\ account'[v].exists = account[v].exists
                         /\ account'[v].active = account[v].active
                         /\ account'[v].email = account[v].email
    BY DEF RowsOK, Account
  <1>3. \A s \in SessionIds : Present(sessions[s]) => sessions[s].user \in Users
    BY DEF RowsOK, Present, Session
  <1> QED
    BY <1>1, <1>2, <1>3 DEF RowsOK, Owned, RowsKept, Grows, Present

LEMMA RehashRows == ASSUME Typed, NEW c \in Clients, Rehash(c) PROVE RowsKept
  <1>1. request[c].user \in Users /\ request[c].password \in Passwords
    BY Kinds DEF Typed, Rehash, At, Login
  <1>2. CASE UNCHANGED account
    BY <1>2, SameRows DEF Typed, Rehash, rowVars
  <1>3. CASE ~UNCHANGED account
    BY <1>1, <1>3, PasswordRows DEF Typed, Rehash, RowsOK
  <1> QED
    BY <1>2, <1>3

LEMMA PasswordSetupRows ==
    ASSUME Typed, NEW t \in TokenIds, NEW p \in Passwords, CompletePasswordSetup(t, p)
    PROVE  RowsKept
  <1>1. setupTokens[t] \in SetupToken
    BY DEF Typed, RowsOK, CompletePasswordSetup, LiveToken
  <1>2. setupTokens' \in [TokenIds -> SetupToken \cup {Unused}]
    BY <1>1 DEF Typed, RowsOK, CompletePasswordSetup, SetupToken
  <1> QED
    BY <1>1, <1>2, PasswordRows DEF Typed, CompletePasswordSetup, SetupToken

\* A step that changes sessions: each row it leaves is of an account there is.
LEMMA SessionRows ==
    ASSUME RowsOK, Owned, sessions' \in [SessionIds -> Session \cup {Unused, Deleted}],
           UNCHANGED <<now, account, setupTokens, apiKey, grants, leagues>>,
           \A s \in SessionIds : sessions[s] # Unused => sessions'[s] # Unused,
           \A s \in SessionIds : Present(sessions'[s]) => account[sessions'[s].user].exists
    PROVE  RowsKept
  BY DEF RowsOK, Owned, RowsKept, Grows, Present

LEMMA CreateSessionRows == ASSUME Typed, NEW c \in Clients, CreateSession(c) PROVE RowsKept
  <1>1. request[c].user \in Users /\ account[request[c].user].exists
    BY Kinds DEF Typed, CreateSession, At, Login, RequestsName, Names
  <1>2. PICK s \in SessionIds :
          /\ sessions[s] = Unused
          /\ sessions' = [sessions EXCEPT ![s] =
                [user |-> request[c].user, created |-> now,
                 expires |-> now + IdleTimeout, revoked |-> FALSE]]
    BY DEF CreateSession
  <1>3. sessions'[s] \in Session /\ sessions'[s].user = request[c].user
    BY <1>1, <1>2, LifetimeAssumption DEF Typed, RowsOK, Session
  <1>4. sessions' \in [SessionIds -> Session \cup {Unused, Deleted}]
    BY <1>2, <1>3 DEF Typed, RowsOK
  <1>5. \A x \in SessionIds : x # s => sessions'[x] = sessions[x]
    BY <1>2 DEF Typed, RowsOK
  <1> QED
    BY <1>1, <1>2, <1>3, <1>4, <1>5, SessionRows DEF Typed, Owned, CreateSession

LEMMA DeleteExpiredRows == ASSUME Typed, NEW c \in Clients, DeleteExpiredForUser(c) PROVE RowsKept
  <1>1. \A s \in SessionIds : sessions'[s] \in {sessions[s], Deleted}
                               /\ (sessions[s] = Unused => sessions'[s] = Unused)
    BY DEF Typed, RowsOK, DeleteExpiredForUser, Present
  <1>2. sessions' \in [SessionIds -> Session \cup {Unused, Deleted}]
    BY <1>1 DEF Typed, RowsOK, DeleteExpiredForUser
  <1> QED
    BY <1>1, <1>2, RowAssumption, SessionRows DEF Typed, Owned, Present, DeleteExpiredForUser

LEMMA LogoutRows == ASSUME Typed, NEW s \in SessionIds, Logout(s) PROVE RowsKept
  <1>1. sessions[s] \in Session
    BY DEF Typed, RowsOK, Logout, Present
  <1>2. sessions'[s] \in Session /\ sessions'[s].user = sessions[s].user
    BY <1>1 DEF Typed, RowsOK, Logout, Session
  <1>3. \A x \in SessionIds : x # s => sessions'[x] = sessions[x]
    BY DEF Typed, RowsOK, Logout
  <1>4. sessions' \in [SessionIds -> Session \cup {Unused, Deleted}]
    BY <1>2 DEF Typed, RowsOK, Logout
  <1>5. \A x \in SessionIds : sessions[x] # Unused => sessions'[x] # Unused
    BY <1>2, <1>3, RowAssumption
  <1>6. \A x \in SessionIds : Present(sessions'[x]) => account[sessions'[x].user].exists
    BY <1>2, <1>3 DEF Typed, Owned, Logout
  <1> QED
    BY <1>4, <1>5, <1>6, SessionRows DEF Typed, Logout

LEMMA RevokeSessionsRows == ASSUME Typed, NEW c \in Clients, RevokeAllSessions(c) PROVE RowsKept
  <1> DEFINE u == request[c].call.user
  <1>1. \A s \in SessionIds :
          IF Present(sessions[s]) /\ sessions[s].user = u
          THEN sessions'[s] \in Session /\ sessions'[s].user = sessions[s].user
          ELSE sessions'[s] = sessions[s]
    BY DEF Typed, RowsOK, RevokeAllSessions, RevokeSessionsOf, Present, Session
  <1>2. sessions' \in [SessionIds -> Session \cup {Unused, Deleted}]
    BY <1>1 DEF Typed, RowsOK, RevokeAllSessions, RevokeSessionsOf
  <1> HIDE DEF u
  <1>3. \A s \in SessionIds : sessions[s] # Unused => sessions'[s] # Unused
    BY <1>1, RowAssumption
  <1>4. \A s \in SessionIds : Present(sessions'[s]) => account[sessions'[s].user].exists
    BY <1>1 DEF Typed, Owned
  <1> QED
    BY <1>2, <1>3, <1>4, SessionRows DEF Typed, RevokeAllSessions

LEMMA TouchRows == ASSUME Typed, NEW c \in Clients, Touch(c) PROVE RowsKept
  <1> DEFINE s == request[c].session
  <1>1. s \in SessionIds /\ request[c].at \in Nat
    BY Kinds DEF Typed, Touch, At, Call, RequestsName, Names
  <1>2. CASE UNCHANGED sessions
    BY <1>2, SameRows DEF Typed, Touch, rowVars
  <1>3. CASE ~UNCHANGED sessions
    <2>1. /\ Present(sessions[s])
          /\ sessions' = [sessions EXCEPT ![s].expires = Capped(request[c].at, sessions[s].created)]
      BY <1>3 DEF Touch
    <2>2. sessions[s] \in Session
      BY <1>1, <2>1 DEF Typed, RowsOK, Present
    <2>3. Capped(request[c].at, sessions[s].created) \in Nat
      BY <1>1, <2>2, LifetimeAssumption DEF Capped, Session
    <2>4. sessions'[s] \in Session /\ sessions'[s].user = sessions[s].user
      BY <1>1, <2>1, <2>2, <2>3 DEF Typed, RowsOK, Session
    <2>5. \A x \in SessionIds : x # s => sessions'[x] = sessions[x]
      BY <2>1 DEF Typed, RowsOK
    <2>6. sessions' \in [SessionIds -> Session \cup {Unused, Deleted}]
      BY <2>1, <2>4 DEF Typed, RowsOK
    <2> HIDE DEF s
    <2>7. \A x \in SessionIds : sessions[x] # Unused => sessions'[x] # Unused
      BY <2>4, <2>5, RowAssumption
    <2>8. \A x \in SessionIds : Present(sessions'[x]) => account[sessions'[x].user].exists
      BY <2>1, <2>4, <2>5, <1>1 DEF Typed, Owned
    <2> QED
      BY <2>6, <2>7, <2>8, SessionRows DEF Typed, Touch
  <1> QED
    BY <1>2, <1>3

\* A step that changes the row of one account, and leaves one there.
LEMMA AccountRows ==
    ASSUME RowsOK, Owned, NEW u \in Users, NEW a \in Account,
           account' = [account EXCEPT ![u] = a],
           account[u].exists => a.exists,
           a.active \/ a.email => a.exists,
           UNCHANGED <<now, sessions, setupTokens, apiKey, grants, leagues>>
    PROVE  RowsKept
  <1>1. account' \in [Users -> Account] /\ account'[u] = a
    BY DEF RowsOK
  <1>2. \A v \in Users : v # u => account'[v] = account[v]
    BY DEF RowsOK
  <1>3. Grows
    BY <1>1, <1>2 DEF Grows
  <1>4. \A s \in SessionIds : Present(sessions[s]) => sessions[s].user \in Users
    BY DEF RowsOK, Present, Session
  <1>5. Owned'
    BY <1>1, <1>2, <1>3, <1>4 DEF Owned, Grows, Present
  <1> QED
    BY <1>1, <1>3, <1>5 DEF RowsOK, RowsKept

LEMMA AccountStepRows ==
    ASSUME Typed, NEW c \in Clients, ProvisionUser(c) \/ Deactivate(c) \/ Reactivate(c)
    PROVE  RowsKept
  <1> DEFINE u == request[c].call.user
  <1>1. u \in Users
    BY Kinds, CallUsers DEF Typed, ProvisionUser, Deactivate, Reactivate, Serving, At, AccountOps
  <1>2. account[u] \in Account
    BY <1>1 DEF Typed, RowsOK
  <1>3. CASE ProvisionUser(c)
    <2>1. EmailAccount \in Account /\ EmailAccount.exists
      BY DEF EmailAccount, KeyAccount, NoAccount, Account
    <2> QED
      BY <1>1, <1>3, <2>1, AccountRows DEF Typed, ProvisionUser
  <1>4. CASE Deactivate(c)
    <2> DEFINE a == [account[u] EXCEPT !.active = FALSE]
    <2>1. a \in Account /\ a.exists = account[u].exists /\ a.email = account[u].email /\ ~a.active
      BY <1>2 DEF Account
    <2>2. account' = [account EXCEPT ![u] = a]
      BY <1>1, <1>4 DEF Deactivate, Typed, RowsOK
    <2> HIDE DEF a
    <2> QED
      BY <1>1, <1>4, <2>1, <2>2, AccountRows DEF Typed, Owned, Deactivate
  <1>5. CASE Reactivate(c)
    <2> DEFINE a == [account[u] EXCEPT !.active = account[u].exists]
    <2>1. a \in Account /\ a.exists = account[u].exists /\ a.email = account[u].email
          /\ a.active = account[u].exists
      BY <1>2 DEF Account
    <2>2. account' = [account EXCEPT ![u] = a]
      BY <1>1, <1>5 DEF Reactivate, Typed, RowsOK
    <2> HIDE DEF a
    <2> QED
      BY <1>1, <1>5, <2>1, <2>2, AccountRows DEF Typed, Owned, Reactivate
  <1> QED
    BY <1>3, <1>4, <1>5

\* An account comes with its key, and a system administrator's with the role.
LEMMA CreateApplyUserRows ==
    ASSUME Typed, NEW u \in Users, NEW role, CreateApplyUser(u, role)
    PROVE  RowsKept
  <1>1. KeyAccount \in Account /\ KeyAccount.exists
    BY DEF KeyAccount, NoAccount, Account
  <1>2. account' = [account EXCEPT ![u] = KeyAccount] /\ apiKey' = [apiKey EXCEPT ![u] = "active"]
    BY DEF CreateApplyUser
  <1>3. /\ account' \in [Users -> Account] /\ account'[u] = KeyAccount
        /\ \A v \in Users : v # u => account'[v] = account[v]
    BY <1>1, <1>2 DEF Typed, RowsOK
  <1>4. /\ apiKey' \in [Users -> {"none", "active", "revoked"}] /\ apiKey'[u] = "active"
        /\ \A v \in Users : v # u => apiKey'[v] = apiKey[v]
    BY <1>2 DEF Typed, RowsOK
  <1>5. grants' \subseteq grants \cup {<<u, SystemAdmin>>} /\ SystemAdmin \in Assignments
    BY DEF CreateApplyUser, Assignments
  <1>6. RowsOK'
    BY <1>3, <1>4, <1>5 DEF Typed, RowsOK, CreateApplyUser
  <1>7. Grows
    BY <1>1, <1>3, <1>4 DEF Grows, CreateApplyUser
  <1>8. \A s \in SessionIds : Present(sessions[s]) => sessions[s].user \in Users
    BY DEF Typed, RowsOK, Present, Session
  <1>9. /\ \A v \in Users : account'[v].active \/ account'[v].email \/ apiKey'[v] # "none"
                              => account'[v].exists
        /\ \A s \in SessionIds : Present(sessions[s]) => account'[sessions[s].user].exists
        /\ \A v \in Users, a \in Assignments : <<v, a>> \in grants' => account'[v].exists
    BY <1>1, <1>3, <1>4, <1>5, <1>7, <1>8 DEF Typed, Owned, Grows
  <1>10. \A l \in Leagues, v \in Users : <<v, LeagueAdmin(l)>> \in grants' => l \in leagues
    BY <1>5 DEF Typed, Owned, SystemAdmin, LeagueAdmin
  <1> QED
    BY <1>6, <1>7, <1>9, <1>10 DEF RowsKept, Owned, Present, CreateApplyUser

LEMMA RevokeKeysRows == ASSUME Typed, NEW c \in Clients, RevokeAllKeys(c) PROVE RowsKept
  <1>1. apiKey' \in [Users -> {"none", "active", "revoked"}]
    BY DEF Typed, RowsOK, RevokeAllKeys
  <1>2. \A u \in Users : apiKey[u] # "none" <=> apiKey'[u] # "none"
    BY DEF Typed, RowsOK, RevokeAllKeys
  <1> QED
    BY <1>1, <1>2 DEF Typed, RowsOK, Owned, RowsKept, Grows, Present, RevokeAllKeys

LEMMA TokenRows ==
    ASSUME Typed, NEW c \in Clients, RevokeActiveTokens(c) \/ CreateToken(c)
    PROVE  RowsKept
  <1>1. CASE RevokeActiveTokens(c)
    <2>1. \A t \in TokenIds : LiveToken(t) =>
            [setupTokens[t] EXCEPT !.state = "revoked"] \in SetupToken
      BY DEF Typed, RowsOK, LiveToken, SetupToken
    <2>2. setupTokens' \in [TokenIds -> SetupToken \cup {Unused}]
      BY <1>1, <2>1 DEF Typed, RowsOK, RevokeActiveTokens
    <2> QED
      BY <1>1, <2>2 DEF Typed, RowsOK, Owned, RowsKept, Grows, Present, RevokeActiveTokens
  <1>2. CASE CreateToken(c)
    <2>1. request[c].call.user \in Users
      BY <1>2, Kinds, CallUsers
      DEF Typed, CreateToken, Later, At, RequestsName, Names, AccountOps
    <2>2. [user |-> request[c].call.user, expires |-> now + SetupTokenTTL,
           state |-> "active"] \in SetupToken
      BY <2>1, LifetimeAssumption DEF Typed, RowsOK, SetupToken
    <2>3. setupTokens' \in [TokenIds -> SetupToken \cup {Unused}]
      BY <1>2, <2>2 DEF Typed, RowsOK, CreateToken
    <2> QED
      BY <1>2, <2>3 DEF Typed, RowsOK, Owned, RowsKept, Grows, Present, CreateToken
  <1> QED
    BY <1>1, <1>2

\* Assignments are given to accounts there are, for leagues there are.
LEMMA GrantRows ==
    ASSUME Typed, NEW c \in Clients, Grant(c) \/ RevokeRole(c) \/ CreateLeagueWithSelfGrant(c)
    PROVE  RowsKept
  <1>1. CASE Grant(c)
    <2> DEFINE u == request[c].call.user
               a == request[c].call.role
    <2>1. u \in Users /\ a \in Assignments /\ account[u].exists
      BY <1>1, Kinds, CallUsers DEF Typed, Grant, Serving, At, RoleOps
    <2>2. a # SystemAdmin => a.league \in leagues
      BY <1>1 DEF Grant
    <2>3. grants' = grants \cup {<<u, a>>}
      BY <1>1 DEF Grant
    <2> HIDE DEF u, a
    <2>4. \A l \in Leagues : a = LeagueAdmin(l) => l \in leagues
      BY <2>2 DEF LeagueAdmin, SystemAdmin
    <2> QED
      BY <1>1, <2>1, <2>3, <2>4 DEF Typed, RowsOK, Owned, RowsKept, Grows, Present, Grant
  <1>2. CASE RevokeRole(c)
    <2>1. grants' \subseteq grants
      BY <1>2 DEF RevokeRole
    <2> QED
      BY <1>2, <2>1 DEF Typed, RowsOK, Owned, RowsKept, Grows, Present, RevokeRole
  <1>3. CASE CreateLeagueWithSelfGrant(c)
    <2> DEFINE u == request[c].who
    <2>1. u \in Users /\ account[u].exists
      BY <1>3 DEF Typed, CreateLeagueWithSelfGrant, Serving, At, RequestsName, Names, Handling
    <2>2. PICK l \in Leagues \ leagues :
            leagues' = leagues \cup {l} /\ grants' = grants \cup {<<u, LeagueAdmin(l)>>}
      BY <1>3 DEF CreateLeagueWithSelfGrant
    <2>3. LeagueAdmin(l) \in Assignments
      BY DEF Assignments
    <2>4. \A k \in Leagues : LeagueAdmin(k) = LeagueAdmin(l) => k = l
      BY DEF LeagueAdmin
    <2> HIDE DEF u
    <2> QED
      BY <1>3, <2>1, <2>2, <2>3, <2>4
      DEF Typed, RowsOK, Owned, RowsKept, Grows, Present, CreateLeagueWithSelfGrant
  <1> QED
    BY <1>1, <1>2, <1>3

(***************************************************************************)
(* What a step does to the requests and to their history.                  *)
(***************************************************************************)
History == [inactive : SUBSET Users, ungranted : SUBSET (Users \X Assignments),
            session : BOOLEAN, key : BOOLEAN]

LEMMA NamesGrow ==
    ASSUME NEW r \in Request, Names(r), Grows
    PROVE  Names(r)'
  <1>1. /\ r.op = "login" => r.user \in Users
        /\ r.op = "call" => r.key \in Users \cup {NoUser}
    BY DEF Request, Idle, Login, Call
  <1> QED
    BY <1>1 DEF Names, Grows

LEMMA RequestMoves ==
    ASSUME Typed, Grows, NEW c \in Clients, NEW r \in Request, Names(r)', Continue(c, r),
           started' \in 0..MaxRequests
    PROVE  RequestsOK' /\ RequestsName'
  <1>1. request' \in [Clients -> Request] /\ request'[c] = r
    BY DEF Typed, RequestsOK, Continue
  <1>2. \A d \in Clients : d # c => request'[d] = request[d]
    BY DEF Typed, RequestsOK, Continue
  <1>3. ASSUME NEW d \in Clients PROVE Names(request[d])'
    <2>1. PICK q \in Request : q = request[d] /\ Names(q)
      BY DEF Typed, RequestsOK, RequestsName
    <2>2. Names(q)'
      BY <2>1, NamesGrow
    <2>3. request'[d] = IF d = c THEN r ELSE q
      BY <1>1, <1>2, <2>1
    <2> QED
      BY <2>2, <2>3 DEF Names
  <1> QED
    BY <1>1, <1>3 DEF RequestsOK, RequestsName

RequestsKept == RequestsOK' /\ RequestsName' /\ ShutOK'

LEMMA QuietMoves ==
    ASSUME Typed, Grows, UNCHANGED <<request, started>>, ShutOK'
    PROVE  RequestsKept
  <1>1. ASSUME NEW d \in Clients PROVE Names(request[d])'
    <2>1. PICK q \in Request : q = request[d] /\ Names(q)
      BY DEF Typed, RequestsOK, RequestsName
    <2>2. Names(q)'
      BY <2>1, NamesGrow
    <2> QED
      BY <2>1, <2>2 DEF Names
  <1> QED
    BY <1>1 DEF Typed, RequestsOK, RequestsName, RequestsKept

LEMMA SuppliedTyped ==
    ASSUME Typed, NEW active, NEW pairs
    PROVE  /\ Supplied(active, pairs) \in [Clients -> History]
           /\ \A c \in Clients : /\ Supplied(active, pairs)[c].inactive = shut[c].inactive \ active
                                 /\ Supplied(active, pairs)[c].ungranted = shut[c].ungranted \ pairs
                                 /\ Supplied(active, pairs)[c].session = shut[c].session
                                 /\ Supplied(active, pairs)[c].key = shut[c].key
  <1>1. ASSUME NEW c \in Clients
        PROVE  LET h == [shut[c] EXCEPT !.inactive = @ \ active, !.ungranted = @ \ pairs]
               IN  /\ h \in History
                   /\ h.inactive = shut[c].inactive \ active
                   /\ h.ungranted = shut[c].ungranted \ pairs
                   /\ h.session = shut[c].session /\ h.key = shut[c].key
    <2>1. PICK h \in History : h = shut[c]
      BY DEF Typed, ShutOK, History
    <2>2. PICK i \in SUBSET Users, g \in SUBSET (Users \X Assignments), x \in BOOLEAN, k \in BOOLEAN :
            h = [inactive |-> i, ungranted |-> g, session |-> x, key |-> k]
      BY DEF History
    <2>3. [h EXCEPT !.inactive = @ \ active, !.ungranted = @ \ pairs]
            = [inactive |-> i \ active, ungranted |-> g \ pairs, session |-> x, key |-> k]
      <3>1. /\ h.inactive = i /\ h.ungranted = g /\ h.session = x /\ h.key = k
            /\ DOMAIN h = {"inactive", "ungranted", "session", "key"}
        BY <2>2
      <3>2. [h EXCEPT !.inactive = @ \ active, !.ungranted = @ \ pairs]
              = [f \in DOMAIN h |-> IF f = "ungranted" THEN g \ pairs
                                    ELSE IF f = "inactive" THEN i \ active ELSE h[f]]
        BY <2>2
      <3> QED
        BY <3>1, <3>2, <2>2
    <2>4. i \ active \in SUBSET Users /\ g \ pairs \in SUBSET (Users \X Assignments)
      OBVIOUS
    <2> QED
      BY <2>1, <2>2, <2>3, <2>4 DEF History
  <1> QED
    BY <1>1 DEF Supplied

LEMMA OpenTyped == Open \in History
  BY DEF Open, History

LEMMA IdleNames == Idle \in Request /\ Names(Idle)'
  BY DEF Idle, Request, Names

LEMMA FinishMoves ==
    ASSUME Typed, Grows, NEW c \in Clients, NEW active, NEW pairs,
           FinishSupplying(c, active, pairs)
    PROVE  RequestsKept
  <1>1. RequestsOK' /\ RequestsName'
    BY IdleNames, RequestMoves DEF FinishSupplying, Typed, RequestsOK
  <1>2. ShutOK'
    BY SuppliedTyped, OpenTyped DEF FinishSupplying, ShutOK, History
  <1> QED
    BY <1>1, <1>2 DEF RequestsKept

\* A step of a login.
LEMMA LoginMoves ==
    ASSUME Typed, Grows, NEW c \in Clients, LoginStep(c)
    PROVE  RequestsKept
  <1>1. ASSUME NEW u \in Users, NEW p \in Passwords, BeginLogin(c, u, p)
        PROVE  RequestsKept
    <2> DEFINE r == [op |-> "login", step |-> "account", user |-> u, password |-> p]
    <2>1. r \in Request
      BY DEF Request, Login
    <2>2. account[u].exists
      BY <1>1 DEF BeginLogin, Typed, Owned
    <2>3. Names(r)'
      BY <2>2 DEF Names, Grows
    <2>4. started' \in 0..MaxRequests
      BY <1>1, LifetimeAssumption DEF BeginLogin, Typed, RequestsOK
    <2>5. ShutOK'
      BY <1>1 DEF BeginLogin, Typed, ShutOK
    <2> QED
      BY <1>1, <2>1, <2>3, <2>4, <2>5, RequestMoves DEF BeginLogin, RequestsKept
  <1>2. ASSUME NEW s \in {"rehash", "create", "cleanup"}, request[c].op = "login", NextStep(c, s)
        PROVE  RequestsKept
    <2> DEFINE r == [request[c] EXCEPT !.step = s]
    <2>1. request[c] \in Login
      BY <1>2, Kinds DEF Typed
    <2>2. r \in Login /\ r.op = "login" /\ r.user = request[c].user
      BY <2>1 DEF Login
    <2>3. account[request[c].user].exists /\ request[c].user \in Users
      BY <1>2, <2>1 DEF Typed, RequestsName, Names, Login
    <2>4. PICK q \in Login : q = r
      BY <2>2
    <2>5. Names(q)'
      BY <2>2, <2>3, <2>4 DEF Names, Grows
    <2>6. q \in Request /\ Continue(c, q)
      BY <1>2, <2>4 DEF NextStep, Request
    <2> QED
      BY <1>2, <2>5, <2>6, RequestMoves DEF NextStep, Typed, RequestsOK, ShutOK, RequestsKept
  <1>3. CASE CheckAccount(c)
    BY <1>2, <1>3 DEF CheckAccount, At
  <1>4. CASE Rehash(c)
    BY <1>2, <1>4 DEF Rehash, At
  <1>5. CASE CreateSession(c)
    BY <1>2, <1>5 DEF CreateSession, At
  <1>6. CASE DeleteExpiredForUser(c)
    BY <1>6, FinishMoves DEF DeleteExpiredForUser, Finish
  <1> QED
    BY <1>1, <1>3, <1>4, <1>5, <1>6 DEF LoginStep

LEMMA LackingTyped ==
    ASSUME Typed, NEW s, NEW u
    PROVE  Lacking(s, u) \in History
  <1>1. Holders(s, u) \subseteq Users
    BY DEF Holders
  <1>2. {v \in Holders(s, u) : ~account[v].active} \subseteq Users
        /\ (Holders(s, u) \X Assignments) \ grants \subseteq Users \X Assignments
    BY <1>1
  <1>3. (s # NoSession /\ ~LiveSession(s)) \in BOOLEAN /\ (u # NoUser /\ apiKey[u] # "active") \in BOOLEAN
    OBVIOUS
  <1> QED
    BY <1>2, <1>3 DEF Lacking, History

\* A step of a call whose new request is q.
LEMMA CallGoes ==
    ASSUME Typed, Grows, NEW c \in Clients, NEW q \in Call, Continue(c, q), Names(q)',
           UNCHANGED started, ShutOK'
    PROVE  RequestsKept
  BY RequestMoves DEF Request, Typed, RequestsOK, RequestsKept

LEMMA ReadMoves ==
    ASSUME Typed, NEW c \in Clients, ReadSession(c)
    PROVE  RequestsKept
  <1>1. request[c] \in Call /\ request[c].step = "cookie" /\ Names(request[c])
    BY Kinds DEF Typed, ReadSession, At, RequestsName
  <1>2. PICK r \in Call : r = request[c]
    BY <1>1
  <1>3. r.op = "call" /\ r.step = "cookie" /\ r.session \in SessionIds
        /\ sessions[r.session] # Unused /\ (r.key # NoUser => apiKey[r.key] # "none")
    BY <1>1, <1>2 DEF Names, Call
  <1>4. Grows /\ ShutOK' /\ UNCHANGED started /\ UNCHANGED rowVars /\ now \in Nat
    BY LifetimeAssumption
    DEF ReadSession, Typed, RowsOK, Grows, ShutOK, rowVars
  <1>5. CASE LiveSession(r.session)
    <2> DEFINE q == [r EXCEPT !.step = "user", !.who = sessions[r.session].user,
                              !.method = "session", !.at = now]
    <2>1. sessions[r.session] \in Session /\ account[sessions[r.session].user].exists
      BY <1>3, <1>5 DEF LiveSession, LiveRow, Present, Typed, RowsOK, Owned
    <2>2. sessions[r.session].user \in Users
      BY <2>1 DEF Session
    <2>3. /\ q \in Call /\ q.op = "call" /\ q.step = "user" /\ q.session = r.session
          /\ q.key = r.key /\ q.who = sessions[r.session].user /\ q.method = "session"
      BY <1>4, <2>2 DEF Call
    <2>4. PICK p \in Call : p = q
      BY <2>3
    <2>5. Names(p)'
      BY <1>3, <1>4, <2>1, <2>2, <2>3, <2>4 DEF Names, rowVars, Handling
    <2>6. Continue(c, p)
      BY <1>2, <1>5, <2>4 DEF ReadSession
    <2> QED
      BY <1>4, <2>5, <2>6, CallGoes
  <1>6. CASE ~LiveSession(r.session)
    <2> DEFINE q == [r EXCEPT !.step = "key"]
    <2>1. q \in Call /\ q.op = "call" /\ q.step = "key" /\ q.key = r.key
      BY DEF Call
    <2>2. PICK p \in Call : p = q
      BY <2>1
    <2>3. Names(p)'
      BY <1>3, <1>4, <2>1, <2>2 DEF Names, rowVars, Handling
    <2>4. Continue(c, p)
      BY <1>2, <1>6, <2>2 DEF ReadSession
    <2> QED
      BY <1>4, <2>3, <2>4, CallGoes
  <1> QED
    BY <1>5, <1>6

LEMMA CheckUserMoves ==
    ASSUME Typed, NEW c \in Clients, CheckUser(c)
    PROVE  RequestsKept
  <1>1. PICK r \in Call : r = request[c] /\ r.op = "call" /\ r.step = "user" /\ Names(r)
    BY Kinds DEF Typed, CheckUser, At, RequestsName
  <1>2. Grows /\ ShutOK' /\ UNCHANGED started /\ UNCHANGED rowVars
    BY DEF CheckUser, NextStep, Typed, RowsOK, Grows, ShutOK, rowVars
  <1>3. CASE account[r.who].active
    <2> DEFINE q == [r EXCEPT !.step = "touch"]
    <2>1. /\ q \in Call /\ q.op = "call" /\ q.step = "touch" /\ q.session = r.session
          /\ q.key = r.key /\ q.who = r.who /\ q.method = r.method
      BY DEF Call
    <2>2. PICK p \in Call : p = q
      BY <2>1
    <2>3. Names(p)'
      BY <1>1, <1>2, <2>1, <2>2 DEF Names, rowVars, Handling
    <2>4. Continue(c, p)
      BY <1>1, <1>3, <2>2 DEF CheckUser, NextStep
    <2> QED
      BY <1>2, <2>3, <2>4, CallGoes
  <1>4. CASE ~account[r.who].active
    <2> DEFINE q == [r EXCEPT !.step = "key", !.who = NoUser, !.method = "api_key"]
    <2>1. q \in Call /\ q.op = "call" /\ q.step = "key" /\ q.key = r.key
      BY DEF Call
    <2>2. PICK p \in Call : p = q
      BY <2>1
    <2>3. Names(p)'
      BY <1>1, <1>2, <2>1, <2>2 DEF Names, rowVars, Handling
    <2>4. Continue(c, p)
      BY <1>1, <1>4, <2>2 DEF CheckUser
    <2> QED
      BY <1>2, <2>3, <2>4, CallGoes
  <1> QED
    BY <1>3, <1>4

LEMMA ResolveMoves ==
    ASSUME Typed, NEW c \in Clients, ResolveApplyUserByAPIKey(c)
    PROVE  RequestsKept
  <1>1. PICK r \in Call : r = request[c] /\ r.op = "call" /\ r.step = "key" /\ Names(r)
    BY Kinds DEF Typed, ResolveApplyUserByAPIKey, At, RequestsName
  <1>2. Grows /\ ShutOK' /\ UNCHANGED started /\ UNCHANGED rowVars
    BY DEF ResolveApplyUserByAPIKey, Typed, RowsOK, Grows, ShutOK, rowVars
  <1>3. r.key \in Users /\ account[r.key].exists
    BY <1>1 DEF ResolveApplyUserByAPIKey, Call, Typed, Owned
  <1> DEFINE q == [r EXCEPT !.step = "roles", !.who = r.key, !.method = "api_key"]
  <1>4. /\ q \in Call /\ q.op = "call" /\ q.step = "roles" /\ q.key = r.key /\ q.who = r.key
    BY <1>3 DEF Call
  <1>5. PICK p \in Call : p = q
    BY <1>4
  <1>6. Names(p)'
    BY <1>1, <1>2, <1>3, <1>4, <1>5 DEF Names, rowVars, Handling
  <1>7. Continue(c, p)
    BY <1>1, <1>5 DEF ResolveApplyUserByAPIKey
  <1> QED
    BY <1>2, <1>6, <1>7, CallGoes

LEMMA AuthorizeMoves ==
    ASSUME Typed, NEW c \in Clients, AuthorizeCall(c)
    PROVE  RequestsKept
  <1>1. PICK r \in Call : r = request[c] /\ r.op = "call" /\ r.step = "roles" /\ Names(r)
    BY Kinds DEF Typed, AuthorizeCall, At, RequestsName
  <1>2. Grows /\ ShutOK' /\ UNCHANGED started /\ UNCHANGED rowVars
    BY DEF AuthorizeCall, Typed, RowsOK, Grows, ShutOK, rowVars
  <1> DEFINE q == [r EXCEPT !.step = "serve", !.session = NoSession, !.key = NoUser, !.at = 0]
  <1>3. /\ q \in Call /\ q.op = "call" /\ q.step = "serve" /\ q.key = NoUser /\ q.who = r.who
    BY DEF Call, Handling
  <1>4. PICK p \in Call : p = q
    BY <1>3
  <1>5. Names(p)'
    BY <1>1, <1>2, <1>3, <1>4 DEF Names, rowVars, Handling
  <1>6. Continue(c, p)
    BY <1>1, <1>4 DEF AuthorizeCall
  <1> QED
    BY <1>2, <1>5, <1>6, CallGoes

LEMMA TouchMoves ==
    ASSUME Typed, Grows, NEW c \in Clients, Touch(c)
    PROVE  RequestsKept
  <1>1. PICK r \in Call : r = request[c] /\ r.op = "call" /\ r.step = "touch" /\ Names(r)
    BY Kinds DEF Typed, Touch, At, RequestsName
  <1> DEFINE q == [r EXCEPT !.step = "roles"]
  <1>2. /\ q \in Call /\ q.op = "call" /\ q.step = "roles" /\ q.key = r.key /\ q.who = r.who
    BY DEF Call
  <1>3. PICK p \in Call : p = q
    BY <1>2
  <1>4. Names(p)'
    <2>1. p.who \in Users /\ account[p.who].exists /\ (p.key # NoUser => apiKey[p.key] # "none")
          /\ p.key \in Users \cup {NoUser}
      BY <1>1, <1>2, <1>3 DEF Names, Call
    <2> QED
      BY <1>2, <1>3, <2>1 DEF Names, Grows, Handling
  <1>5. Continue(c, p) /\ UNCHANGED started
    BY <1>1, <1>3 DEF Touch
  <1>6. ShutOK'
    <2>1. ASSUME NEW d \in Clients, NEW b
          PROVE  [shut[d] EXCEPT !.session = @ /\ b] \in History
      BY DEF Typed, ShutOK, History
    <2> QED
      BY <2>1 DEF Touch, ShutOK, History
  <1> QED
    BY <1>4, <1>5, <1>6, CallGoes

LEMMA BeginCallMoves ==
    ASSUME Typed, NEW c \in Clients, NEW call \in Calls,
           NEW s \in SessionIds \cup {NoSession}, NEW u \in Users \cup {NoUser},
           BeginCall(c, call, s, u)
    PROVE  RequestsKept
  <1> DEFINE r == [op |-> "call", step |-> IF s = NoSession THEN "key" ELSE "cookie",
                   call |-> call, session |-> s, key |-> u,
                   who |-> NoUser, method |-> "api_key", at |-> 0]
  <1>1. r \in Request
    BY DEF Request, Call
  <1>2. Grows /\ UNCHANGED rowVars
    BY DEF BeginCall, Typed, RowsOK, Grows, rowVars
  <1>3. Names(r)'
    BY <1>2 DEF Names, BeginCall, rowVars, Handling
  <1>4. started' \in 0..MaxRequests
    BY LifetimeAssumption DEF BeginCall, Typed, RequestsOK
  <1>5. ShutOK'
    BY LackingTyped DEF BeginCall, Typed, ShutOK, History
  <1> QED
    BY <1>1, <1>2, <1>3, <1>4, <1>5, RequestMoves DEF BeginCall, RequestsKept

\* A handler goes on to its next statement.
Proceeds(c, step) ==
    Continue(c, [request[c] EXCEPT !.step = step]) /\ UNCHANGED <<started, shut>>

LEMMA HandlerGoes ==
    ASSUME Typed, Grows, NEW c \in Clients, NEW step \in {"revokeSessions", "revokeKeys", "createToken"},
           Proceeds(c, step), request[c].op = "call", request[c].step \in Handling,
           step \in {"revokeSessions", "revokeKeys"} => request[c].call.op = "deactivate",
           step = "createToken" => request[c].call.op = "issueToken"
    PROVE  RequestsKept
  <1>1. PICK r \in Call : r = request[c] /\ Names(r)
    BY Kinds DEF Typed, RequestsName
  <1> DEFINE q == [r EXCEPT !.step = step]
  <1>2. /\ q \in Call /\ q.op = "call" /\ q.step = step /\ q.key = r.key /\ q.who = r.who
        /\ q.call = r.call
    BY DEF Call, Handling
  <1>3. PICK p \in Call : p = q
    BY <1>2
  <1>4. Names(p)'
    <2>1. p.who \in Users /\ account[p.who].exists /\ (p.key # NoUser => apiKey[p.key] # "none")
          /\ p.key \in Users \cup {NoUser}
      BY <1>1, <1>2, <1>3 DEF Names, Call
    <2> QED
      BY <1>1, <1>2, <1>3, <2>1 DEF Names, Grows
  <1>5. Continue(c, p) /\ UNCHANGED started
    BY <1>1, <1>3 DEF Proceeds
  <1>6. ShutOK'
    BY DEF Proceeds, Typed, ShutOK
  <1> QED
    BY <1>4, <1>5, <1>6, CallGoes

LEMMA HandlerMoves ==
    ASSUME Typed, Grows, NEW c \in Clients, HandlerStep(c)
    PROVE  RequestsKept
  <1>1. CASE ServeElsewhere(c) \/ ProvisionUser(c) \/ RevokeAllKeys(c) \/ Reactivate(c)
             \/ CreateToken(c) \/ Grant(c) \/ RevokeRole(c) \/ CreateLeagueWithSelfGrant(c)
    BY <1>1, FinishMoves
    DEF ServeElsewhere, ProvisionUser, RevokeAllKeys, Reactivate, CreateToken, Grant, RevokeRole,
        CreateLeagueWithSelfGrant, Finish
  <1>2. CASE Deactivate(c)
    BY <1>2, HandlerGoes DEF Deactivate, NextStep, Proceeds, Serving, At, Handling
  <1>3. CASE RevokeAllSessions(c)
    <2>1. request[c].call.op = "deactivate"
      BY <1>3 DEF RevokeAllSessions, Later, At, Typed, RequestsName, Names
    <2> QED
      BY <1>3, <2>1, HandlerGoes DEF RevokeAllSessions, NextStep, Proceeds, Later, At, Handling
  <1>4. CASE RevokeActiveTokens(c)
    BY <1>4, HandlerGoes DEF RevokeActiveTokens, Proceeds, Serving, At, Handling
  <1> QED
    BY <1>1, <1>2, <1>3, <1>4 DEF HandlerStep

(***************************************************************************)
(* Every step keeps the rows' types, and so those of the requests.         *)
(***************************************************************************)
LEMMA ClientRows ==
    ASSUME Typed, NEW c \in Clients, Abandon(c) \/ LoginStep(c) \/ CallStep(c) \/ HandlerStep(c)
    PROVE  RowsKept
  <1>1. CASE UNCHANGED <<now, rowVars>>
    BY <1>1, SameRows DEF Typed
  <1>2. CASE Abandon(c)
    BY <1>1, <1>2 DEF Abandon
  <1>3. CASE LoginStep(c)
    BY <1>1, <1>3, RehashRows, CreateSessionRows, DeleteExpiredRows
    DEF LoginStep, BeginLogin, CheckAccount
  <1>4. CASE CallStep(c)
    BY <1>1, <1>4, TouchRows
    DEF CallStep, BeginCall, ReadSession, CheckUser, ResolveApplyUserByAPIKey, AuthorizeCall
  <1>5. CASE HandlerStep(c)
    BY <1>1, <1>5, AccountStepRows, RevokeSessionsRows, RevokeKeysRows, TokenRows, GrantRows
    DEF HandlerStep, ServeElsewhere
  <1> QED
    BY <1>2, <1>3, <1>4, <1>5

LEMMA ClientMoves ==
    ASSUME Typed, Grows, NEW c \in Clients,
           Abandon(c) \/ LoginStep(c) \/ CallStep(c) \/ HandlerStep(c)
    PROVE  RequestsKept
  <1>1. CASE Abandon(c)
    BY <1>1, FinishMoves DEF Abandon, Finish
  <1>2. CASE CallStep(c)
    BY <1>2, BeginCallMoves, ReadMoves, CheckUserMoves, TouchMoves, ResolveMoves, AuthorizeMoves
    DEF CallStep
  <1> QED
    BY <1>1, <1>2, LoginMoves, HandlerMoves

LEMMA ElsewhereRows ==
    ASSUME Typed,
           \/ Tick
           \/ \E s \in SessionIds : Logout(s)
           \/ \E t \in TokenIds, p \in Passwords : CompletePasswordSetup(t, p)
           \/ \E u \in Users, role \in {"system_admin", "league_admin", "player"} :
                CreateApplyUser(u, role)
    PROVE  RowsKept
  BY TickRows, LogoutRows, PasswordSetupRows, CreateApplyUserRows DEF Typed

LEMMA ElsewhereMoves ==
    ASSUME Typed, Grows,
           \/ Tick
           \/ \E s \in SessionIds : Logout(s)
           \/ \E t \in TokenIds, p \in Passwords : CompletePasswordSetup(t, p)
           \/ \E u \in Users, role \in {"system_admin", "league_admin", "player"} :
                CreateApplyUser(u, role)
    PROVE  RequestsKept
  <1>1. UNCHANGED <<request, started>>
    BY DEF Tick, Logout, CompletePasswordSetup, CreateApplyUser
  <1>2. shut' = shut \/ \E active, pairs : shut' = Supplied(active, pairs)
    BY DEF Tick, Logout, CompletePasswordSetup, CreateApplyUser
  <1>3. ShutOK'
    BY <1>2, SuppliedTyped DEF Typed, ShutOK, History
  <1> QED
    BY <1>1, <1>3, QuietMoves

LEMMA TypedInit == Init => Typed
  <1> SUFFICES ASSUME Init PROVE Typed
    OBVIOUS
  <1>1. /\ KeyAccount \in Account /\ KeyAccount.exists
        /\ NoAccount \in Account /\ ~NoAccount.active /\ ~NoAccount.email
        /\ \A p \in Passwords, weak \in BOOLEAN :
             WithPassword(p, weak) \in Account /\ WithPassword(p, weak).exists
    BY DEF KeyAccount, NoAccount, EmailAccount, WithPassword, Account
  <1>2. account \in [Users -> Account]
    BY <1>1 DEF Init
  <1>3. \A u \in Users : account[u].active \/ account[u].email => account[u].exists
    BY <1>1 DEF Init
  <1>4. account[Founder].exists
    BY <1>1, UserAssumption DEF Init
  <1>5. grants \subseteq {<<Founder, SystemAdmin>>}
                       \cup ({u \in Users : account[u].exists} \X {LeagueAdmin(l) : l \in OldLeagues})
    BY DEF Init
  <1>6. /\ grants \subseteq Users \X Assignments
        /\ \A u \in Users, a \in Assignments : <<u, a>> \in grants => account[u].exists
    BY <1>4, <1>5, UserAssumption, OldLeaguesAssumption DEF Assignments
  <1>7. \A l \in Leagues, u \in Users : <<u, LeagueAdmin(l)>> \in grants => l \in leagues
    BY <1>5 DEF Init, SystemAdmin, LeagueAdmin
  <1>8. RowsOK
    BY <1>2, <1>6, OldLeaguesAssumption, LifetimeAssumption DEF Init, RowsOK
  <1>9. Owned
    BY <1>3, <1>4, <1>6, <1>7 DEF Init, Owned, Present
  <1>10. RequestsOK /\ RequestsName /\ ShutOK
    BY LifetimeAssumption, OpenTyped
    DEF Init, RequestsOK, RequestsName, Names, Idle, Request, ShutOK, History
  <1> QED
    BY <1>8, <1>9, <1>10 DEF Typed

LEMMA TypedNext == Typed /\ [Next]_vars => Typed' /\ Grows
  <1> SUFFICES ASSUME Typed, [Next]_vars PROVE Typed' /\ Grows
    OBVIOUS
  <1>1. RowsKept
    BY ClientRows, ElsewhereRows, SameRows DEF Typed, Next, vars
  <1>2. Grows
    BY <1>1 DEF RowsKept
  <1>3. UNCHANGED vars => RequestsKept
    BY <1>2, QuietMoves DEF vars, Typed, ShutOK
  <1>4. RequestsKept
    BY <1>2, <1>3, ClientMoves, ElsewhereMoves DEF Next
  <1> QED
    BY <1>1, <1>4 DEF RowsKept, RequestsKept, Typed

LEMMA AlwaysTyped == Spec => []Typed
  <1>1. Init => Typed
    BY TypedInit
  <1>2. Typed /\ [Next]_vars => Typed'
    BY TypedNext
  <1> QED
    BY <1>1, <1>2, PTL DEF Spec

\* Only the first statement of an issue changes which accounts' issues overlapped.
LEMMA OverlapStep ==
    ASSUME [Next]_vars
    PROVE  \/ overlapped' = overlapped
           \/ \E c \in Clients : /\ RevokeActiveTokens(c)
                                /\ overlapped' = Overlapping(c, request[c].call.user)
  <1>1. ASSUME NEW c \in Clients, LoginStep(c) PROVE UNCHANGED overlapped
    BY <1>1 DEF LoginStep, BeginLogin, CheckAccount, Rehash, CreateSession, DeleteExpiredForUser,
                NextStep, Finish, FinishSupplying
  <1>2. ASSUME NEW c \in Clients, CallStep(c) PROVE UNCHANGED overlapped
    BY <1>2 DEF CallStep, BeginCall, ReadSession, CheckUser, Touch, ResolveApplyUserByAPIKey,
                AuthorizeCall, NextStep
  <1>3. ASSUME NEW c \in Clients, HandlerStep(c), ~RevokeActiveTokens(c)
        PROVE  UNCHANGED overlapped
    BY <1>3 DEF HandlerStep, ServeElsewhere, ProvisionUser, Deactivate, RevokeAllSessions,
                RevokeAllKeys, Reactivate, CreateToken, Grant, RevokeRole,
                CreateLeagueWithSelfGrant, NextStep, Finish, FinishSupplying
  <1>4. ASSUME NEW c \in Clients, RevokeActiveTokens(c)
        PROVE  overlapped' = Overlapping(c, request[c].call.user)
    BY <1>4 DEF RevokeActiveTokens
  <1> QED
    BY <1>1, <1>2, <1>3, <1>4
    DEF Next, vars, Tick, Abandon, Finish, FinishSupplying, Logout, CompletePasswordSetup,
        CreateApplyUser

LEMMA IssuedUser ==
    ASSUME Typed, NEW c \in Clients, RevokeActiveTokens(c)
    PROVE  request[c].call.user \in Users
  BY Kinds, CallUsers DEF Typed, RevokeActiveTokens, Serving, At, AccountOps

\* Every row has its shape, and what belongs to an account or a league belongs to
\* one there is, whichever requests race (users, sessions, role_assignments).
THEOREM TypeCorrect == Spec => []TypeOK
  <1>1. Init => OverlapOK
    BY DEF Init, OverlapOK
  <1>2. Typed /\ OverlapOK /\ [Next]_vars => OverlapOK'
    BY OverlapStep, IssuedUser DEF Overlapping, OverlapOK
  <1> QED
    BY <1>1, <1>2, AlwaysTyped, Types, PTL DEF Spec

(***************************************************************************)
(* What is revoked stays revoked.                                          *)
(***************************************************************************)
Gone(s) == sessions[s] # Unused /\ (Present(sessions[s]) => sessions[s].revoked)
SessionsStayGone == \A s \in SessionIds : Gone(s) => Gone(s)'
TokensStaySpent ==
    \A t \in TokenIds :
        setupTokens[t] # Unused /\ ~LiveToken(t) => setupTokens'[t] = setupTokens[t]
KeysStayRevoked == \A u \in Users : apiKey[u] = "revoked" => apiKey'[u] = "revoked"

LEMMA SameSessions == UNCHANGED sessions => SessionsStayGone
  BY DEF SessionsStayGone, Gone, Present

LEMMA SessionStepsStayGone ==
    ASSUME Typed, NEW c \in Clients,
           CreateSession(c) \/ DeleteExpiredForUser(c) \/ RevokeAllSessions(c) \/ Touch(c)
    PROVE  SessionsStayGone
  <1> SUFFICES ASSUME NEW s \in SessionIds, Gone(s) PROVE Gone(s)'
    BY DEF SessionsStayGone
  <1>1. sessions \in [SessionIds -> Session \cup {Unused, Deleted}]
    BY DEF Typed, RowsOK
  <1>2. CASE CreateSession(c)
    <2>1. sessions'[s] = sessions[s]
      BY <1>1, <1>2 DEF CreateSession, Gone
    <2> QED
      BY <2>1 DEF Gone, Present
  <1>3. CASE DeleteExpiredForUser(c)
    <2>1. sessions'[s] \in {sessions[s], Deleted}
      BY <1>3 DEF DeleteExpiredForUser
    <2> QED
      BY <2>1, RowAssumption DEF Gone, Present
  <1>4. CASE RevokeAllSessions(c)
    <2>1. \/ sessions'[s] = sessions[s]
          \/ Present(sessions[s]) /\ sessions'[s] = [sessions[s] EXCEPT !.revoked = TRUE]
      BY <1>4 DEF RevokeAllSessions, RevokeSessionsOf
    <2>2. Present(sessions[s]) => [sessions[s] EXCEPT !.revoked = TRUE] \in Session
                                  /\ [sessions[s] EXCEPT !.revoked = TRUE].revoked
      BY <1>1 DEF Present, Session
    <2> QED
      BY <2>1, <2>2, RowAssumption DEF Gone, Present
  <1>5. CASE Touch(c)
    <2>1. CASE sessions'[s] = sessions[s]
      BY <2>1 DEF Gone, Present
    <2>2. CASE sessions'[s] # sessions[s]
      <3>1. /\ s = request[c].session /\ Present(sessions[s])
            /\ sessions'[s] = [sessions[s] EXCEPT
                                  !.expires = Capped(request[c].at, sessions[s].created)]
        BY <1>1, <1>5, <2>2 DEF Touch
      <3>2. sessions'[s].revoked = sessions[s].revoked
        BY <1>1, <3>1 DEF Present, Session
      <3>3. sessions'[s] # Unused
        <4>1. RowsKept
          BY <1>5, TouchRows
        <4> QED
          BY <4>1 DEF RowsKept, Grows, Gone
      <3> QED
        BY <3>1, <3>2, <3>3 DEF Gone, Present
    <2> QED
      BY <2>1, <2>2
  <1> QED
    BY <1>2, <1>3, <1>4, <1>5

LEMMA LogoutStaysGone ==
    ASSUME Typed, NEW x \in SessionIds, Logout(x)
    PROVE  SessionsStayGone
  <1> SUFFICES ASSUME NEW s \in SessionIds, Gone(s) PROVE Gone(s)'
    BY DEF SessionsStayGone
  <1>1. \/ sessions'[s] = sessions[s]
        \/ Present(sessions[s]) /\ sessions'[s] = [sessions[s] EXCEPT !.revoked = TRUE]
    BY DEF Typed, RowsOK, Logout
  <1>2. Present(sessions[s]) => [sessions[s] EXCEPT !.revoked = TRUE] \in Session
                                /\ [sessions[s] EXCEPT !.revoked = TRUE].revoked
    BY DEF Typed, RowsOK, Present, Session
  <1> QED
    BY <1>1, <1>2, RowAssumption DEF Gone, Present

LEMMA RevokedStep ==
    ASSUME Typed, [Next]_vars
    PROVE  SessionsStayGone /\ TokensStaySpent /\ KeysStayRevoked
  <1>1. SessionsStayGone
    <2>1. CASE UNCHANGED sessions
      BY <2>1, SameSessions
    <2>2. ASSUME NEW c \in Clients,
                 Abandon(c) \/ LoginStep(c) \/ CallStep(c) \/ HandlerStep(c)
          PROVE  SessionsStayGone
      BY <2>1, <2>2, SessionStepsStayGone
      DEF Abandon, rowVars, LoginStep, BeginLogin, CheckAccount, Rehash, CallStep, BeginCall,
          ReadSession, CheckUser, ResolveApplyUserByAPIKey, AuthorizeCall, HandlerStep,
          ServeElsewhere, ProvisionUser, Deactivate, RevokeAllKeys, Reactivate,
          RevokeActiveTokens, CreateToken, Grant, RevokeRole, CreateLeagueWithSelfGrant
    <2> QED
      BY <2>1, <2>2, LogoutStaysGone
      DEF Next, vars, rowVars, Tick, CompletePasswordSetup, CreateApplyUser
  <1>2. TokensStaySpent
    <2> SUFFICES ASSUME NEW t \in TokenIds, setupTokens[t] # Unused, ~LiveToken(t)
                 PROVE  setupTokens'[t] = setupTokens[t]
      BY DEF TokensStaySpent
    <2>1. setupTokens \in [TokenIds -> SetupToken \cup {Unused}]
      BY DEF Typed, RowsOK
    <2>2. ASSUME NEW c \in Clients,
                 Abandon(c) \/ LoginStep(c) \/ CallStep(c) \/ HandlerStep(c)
          PROVE  setupTokens'[t] = setupTokens[t]
      BY <2>1, <2>2
      DEF Abandon, rowVars, LoginStep, BeginLogin, CheckAccount, Rehash, CreateSession,
          DeleteExpiredForUser, CallStep, BeginCall, ReadSession, CheckUser, Touch,
          ResolveApplyUserByAPIKey, AuthorizeCall, HandlerStep, ServeElsewhere, ProvisionUser,
          Deactivate, RevokeAllSessions, RevokeAllKeys, Reactivate, RevokeActiveTokens,
          CreateToken, Grant, RevokeRole, CreateLeagueWithSelfGrant
    <2>3. ASSUME NEW v \in TokenIds, NEW p \in Passwords, CompletePasswordSetup(v, p)
          PROVE  setupTokens'[t] = setupTokens[t]
      BY <2>1, <2>3 DEF CompletePasswordSetup
    <2> QED
      BY <2>2, <2>3 DEF Next, vars, rowVars, Tick, Logout, CreateApplyUser
  <1>3. KeysStayRevoked
    <2> SUFFICES ASSUME NEW u \in Users, apiKey[u] = "revoked"
                 PROVE  apiKey'[u] = "revoked"
      BY DEF KeysStayRevoked
    <2>1. apiKey \in [Users -> {"none", "active", "revoked"}] /\ account[u].exists
      BY DEF Typed, RowsOK, Owned
    <2>2. ASSUME NEW c \in Clients,
                 Abandon(c) \/ LoginStep(c) \/ CallStep(c) \/ HandlerStep(c)
          PROVE  apiKey'[u] = "revoked"
      BY <2>1, <2>2
      DEF Abandon, rowVars, LoginStep, BeginLogin, CheckAccount, Rehash, CreateSession,
          DeleteExpiredForUser, CallStep, BeginCall, ReadSession, CheckUser, Touch,
          ResolveApplyUserByAPIKey, AuthorizeCall, HandlerStep, ServeElsewhere, ProvisionUser,
          Deactivate, RevokeAllSessions, RevokeAllKeys, Reactivate, RevokeActiveTokens,
          CreateToken, Grant, RevokeRole, CreateLeagueWithSelfGrant
    <2>3. ASSUME NEW v \in Users, NEW role, CreateApplyUser(v, role)
          PROVE  apiKey'[u] = "revoked"
      BY <2>1, <2>3 DEF CreateApplyUser
    <2> QED
      BY <2>2, <2>3 DEF Next, vars, rowVars, Tick, Logout, CompletePasswordSetup
  <1> QED
    BY <1>1, <1>2, <1>3

\* What is revoked, used up or deleted stays so: no request that read a session, a
\* key or a token before writes it back (Touch, ConsumeAndSetPassword, CreateApplyUser).
THEOREM RevokedCorrect == Spec => RevokedForGood
  <1> DEFINE Stays ==
        /\ \A s \in SessionIds :
             sessions[s] # Unused /\ (Present(sessions[s]) => sessions[s].revoked) =>
                 sessions'[s] # Unused /\ (Present(sessions'[s]) => sessions'[s].revoked)
        /\ \A t \in TokenIds :
             setupTokens[t] # Unused /\ ~LiveToken(t) => setupTokens'[t] = setupTokens[t]
        /\ \A u \in Users : apiKey[u] = "revoked" => apiKey'[u] = "revoked"
  <1>1. Typed /\ [Next]_vars => Stays
    BY RevokedStep DEF SessionsStayGone, Gone, TokensStaySpent, KeysStayRevoked, Present
  <1>2. Typed /\ [Next]_vars => [Stays]_vars
    BY <1>1
  <1> HIDE DEF Stays
  <1>3. Spec => [][Stays]_vars
    BY <1>2, AlwaysTyped, PTL DEF Spec
  <1> USE DEF Stays
  <1> QED
    BY <1>3 DEF RevokedForGood

(***************************************************************************)
(* Setup tokens, whoever else issues some.                                 *)
(***************************************************************************)
OneLive(u) ==
    \A t, v \in TokenIds : /\ LiveToken(t) /\ setupTokens[t].user = u
                          /\ LiveToken(v) /\ setupTokens[v].user = u
                          => t = v
\* At most one issue for the account is between its two statements, and while one
\* is, the account has no live token.
OneIssue(u) == \A c, d \in Clients : Issuing(c, u) /\ Issuing(d, u) => c = d
IssueIsFirst(u) ==
    \A c \in Clients, t \in TokenIds : Issuing(c, u) /\ LiveToken(t) => setupTokens[t].user # u
LoneIssues(u) == OneLive(u) /\ OneIssue(u) /\ IssueIsFirst(u)
TokensInv == \A u \in Users \ overlapped : LoneIssues(u)

\* A step that brings no request between the statements of an issue.
AtIssue(r) == r.op = "call" /\ r.step = "createToken"
LeavesIssues ==
    \A d \in Clients : AtIssue(request'[d]) => request'[d] = request[d]

LEMMA OthersGo ==
    ASSUME Typed, NEW c \in Clients, NEW r, Continue(c, r)
    PROVE  request'[c] = r /\ \A d \in Clients : d # c => request'[d] = request[d]
  BY DEF Typed, RequestsOK, Continue

LEMMA FinishLeaves ==
    ASSUME Typed, NEW c \in Clients, Continue(c, Idle)
    PROVE  LeavesIssues
  BY OthersGo DEF LeavesIssues, AtIssue, Idle

LEMMA LoginLeaves ==
    ASSUME Typed, NEW c \in Clients, LoginStep(c)
    PROVE  LeavesIssues
  <1>1. CASE \E u \in Users, p \in Passwords : BeginLogin(c, u, p)
    BY <1>1, OthersGo DEF BeginLogin, LeavesIssues, AtIssue
  <1>2. CASE DeleteExpiredForUser(c)
    BY <1>2, FinishLeaves DEF DeleteExpiredForUser, Finish, FinishSupplying
  <1>3. ASSUME NEW s, request[c].op = "login", NextStep(c, s)
        PROVE  LeavesIssues
    <2>1. request[c] \in Login
      BY <1>3, Kinds DEF Typed
    <2>2. [request[c] EXCEPT !.step = s].op = "login"
      BY <2>1 DEF Login
    <2> QED
      BY <1>3, <2>2, OthersGo DEF NextStep, LeavesIssues, AtIssue
  <1> QED
    BY <1>1, <1>2, <1>3 DEF LoginStep, CheckAccount, Rehash, CreateSession, At

LEMMA CallFields ==
    ASSUME NEW r \in Call, NEW s
    PROVE  LET q == [r EXCEPT !.step = s] IN q.op = r.op /\ q.call = r.call /\ q.step = s
  BY DEF Call

LEMMA CallLeaves ==
    ASSUME Typed, NEW c \in Clients,
           \/ ReadSession(c) \/ CheckUser(c) \/ Touch(c)
           \/ ResolveApplyUserByAPIKey(c) \/ AuthorizeCall(c)
    PROVE  LeavesIssues
  <1>1. PICK r \in Call : r = request[c]
    BY Kinds DEF Typed, ReadSession, CheckUser, Touch, ResolveApplyUserByAPIKey, AuthorizeCall, At
  <1>2. ASSUME NEW q, Continue(c, q), q.op = r.op, q.call = r.call, q.step # "createToken"
        PROVE  LeavesIssues
    BY <1>1, <1>2, OthersGo DEF LeavesIssues, AtIssue
  <1>3. CASE ReadSession(c)
    <2>1. \E q : Continue(c, q) /\ q.op = r.op /\ q.call = r.call /\ q.step \in {"user", "key"}
      <3>1. CASE LiveSession(r.session)
        <4> DEFINE q == [r EXCEPT !.step = "user", !.who = sessions[r.session].user,
                                  !.method = "session", !.at = now]
        <4>1. Continue(c, q)
          BY <1>1, <1>3, <3>1 DEF ReadSession
        <4>2. q.op = r.op /\ q.call = r.call /\ q.step = "user"
          BY DEF Call
        <4> QED
          BY <4>1, <4>2
      <3>2. CASE ~LiveSession(r.session)
        <4>1. Continue(c, [r EXCEPT !.step = "key"])
          BY <1>1, <1>3, <3>2 DEF ReadSession
        <4> QED
          BY <4>1, CallFields
      <3> QED
        BY <3>1, <3>2
    <2> QED
      BY <1>2, <2>1
  <1>4. CASE CheckUser(c)
    <2>1. \E q : Continue(c, q) /\ q.op = r.op /\ q.call = r.call /\ q.step \in {"touch", "key"}
      <3>1. CASE account[r.who].active
        BY <1>1, <1>4, <3>1, CallFields DEF CheckUser, NextStep
      <3>2. CASE ~account[r.who].active
        <4> DEFINE q == [r EXCEPT !.step = "key", !.who = NoUser, !.method = "api_key"]
        <4>1. Continue(c, q)
          BY <1>1, <1>4, <3>2 DEF CheckUser
        <4>2. q.op = r.op /\ q.call = r.call /\ q.step = "key"
          BY DEF Call
        <4> QED
          BY <4>1, <4>2
      <3> QED
        BY <3>1, <3>2
    <2> QED
      BY <1>2, <2>1
  <1>5. CASE Touch(c)
    BY <1>1, <1>2, <1>5, CallFields DEF Touch
  <1>6. CASE ResolveApplyUserByAPIKey(c)
    <2> DEFINE q == [r EXCEPT !.step = "roles", !.who = r.key, !.method = "api_key"]
    <2>1. Continue(c, q)
      BY <1>1, <1>6 DEF ResolveApplyUserByAPIKey
    <2>2. q.op = r.op /\ q.call = r.call /\ q.step = "roles"
      BY DEF Call
    <2> HIDE DEF q
    <2> QED
      BY <1>2, <2>1, <2>2
  <1>7. CASE AuthorizeCall(c)
    <2> DEFINE q == [r EXCEPT !.step = "serve", !.session = NoSession, !.key = NoUser, !.at = 0]
    <2>1. Continue(c, q)
      BY <1>1, <1>7 DEF AuthorizeCall
    <2>2. q.op = r.op /\ q.call = r.call /\ q.step = "serve"
      BY DEF Call
    <2> HIDE DEF q
    <2> QED
      BY <1>2, <2>1, <2>2
  <1> QED
    BY <1>3, <1>4, <1>5, <1>6, <1>7

LEMMA BeginLeaves ==
    ASSUME Typed, NEW c \in Clients, NEW call, NEW s, NEW u, BeginCall(c, call, s, u)
    PROVE  LeavesIssues
  <1> DEFINE r == [op |-> "call", step |-> IF s = NoSession THEN "key" ELSE "cookie",
                   call |-> call, session |-> s, key |-> u,
                   who |-> NoUser, method |-> "api_key", at |-> 0]
  <1>1. request'[c] = r /\ \A d \in Clients : d # c => request'[d] = request[d]
    BY OthersGo DEF BeginCall
  <1>2. r.step # "createToken"
    OBVIOUS
  <1> HIDE DEF r
  <1> QED
    BY <1>1, <1>2 DEF LeavesIssues, AtIssue

LEMMA HandlerLeaves ==
    ASSUME Typed, NEW c \in Clients, HandlerStep(c), ~RevokeActiveTokens(c)
    PROVE  LeavesIssues
  <1>1. CASE ServeElsewhere(c) \/ ProvisionUser(c) \/ RevokeAllKeys(c) \/ Reactivate(c)
             \/ CreateToken(c) \/ Grant(c) \/ RevokeRole(c) \/ CreateLeagueWithSelfGrant(c)
    BY <1>1, FinishLeaves
    DEF ServeElsewhere, ProvisionUser, RevokeAllKeys, Reactivate, CreateToken, Grant, RevokeRole,
        CreateLeagueWithSelfGrant, Finish, FinishSupplying
  <1>2. CASE Deactivate(c) \/ RevokeAllSessions(c)
    <2>1. PICK r \in Call : r = request[c]
      BY <1>2, Kinds DEF Typed, Deactivate, RevokeAllSessions, Serving, Later, At
    <2>2. PICK s \in {"revokeSessions", "revokeKeys"} : Continue(c, [r EXCEPT !.step = s])
      BY <1>2, <2>1 DEF Deactivate, RevokeAllSessions, NextStep
    <2>3. [r EXCEPT !.step = s].step = s
      BY CallFields
    <2> QED
      BY <2>2, <2>3, OthersGo DEF LeavesIssues, AtIssue
  <1> QED
    BY <1>1, <1>2 DEF HandlerStep

\* A step after which no token is live that was not, and no issue is open.
LEMMA LiveShrinks ==
    ASSUME TokensInv, LeavesIssues, UNCHANGED overlapped,
           \A t \in TokenIds : LiveToken(t)' => LiveToken(t) /\ setupTokens'[t] = setupTokens[t]
    PROVE  TokensInv'
  <1> SUFFICES ASSUME NEW u \in Users, u \notin overlapped PROVE LoneIssues(u)'
    BY DEF TokensInv
  <1>1. LoneIssues(u)
    BY DEF TokensInv
  <1>2. \A c \in Clients : Issuing(c, u)' => Issuing(c, u)
    BY DEF LeavesIssues, AtIssue, Issuing, Later, At
  <1> QED
    BY <1>1, <1>2 DEF LoneIssues, OneLive, OneIssue, IssueIsFirst

\* The first statement of an issue leaves the account no live token, and what the
\* history says of it is decided by the issues that are open.
LEMMA RevokeTokens ==
    ASSUME Typed, TokensInv, NEW c \in Clients, RevokeActiveTokens(c)
    PROVE  TokensInv'
  <1> DEFINE u == request[c].call.user
  <1>1. PICK r \in Call : r = request[c] /\ r.op = "call"
    BY Kinds DEF Typed, RevokeActiveTokens, Serving, At
  <1>2. request'[c].call.user = u /\ \A d \in Clients : d # c => request'[d] = request[d]
    <2>1. Continue(c, [r EXCEPT !.step = "createToken"])
      BY <1>1 DEF RevokeActiveTokens
    <2>2. [r EXCEPT !.step = "createToken"].call = r.call
      BY CallFields
    <2> QED
      BY <1>1, <2>1, <2>2, OthersGo
  <1>3. setupTokens' = [t \in TokenIds |->
           IF LiveToken(t) /\ setupTokens[t].user = u
           THEN [setupTokens[t] EXCEPT !.state = "revoked"] ELSE setupTokens[t]]
    BY DEF RevokeActiveTokens
  <1>4. ASSUME NEW t \in TokenIds, LiveToken(t)'
        PROVE  LiveToken(t) /\ setupTokens'[t] = setupTokens[t] /\ setupTokens[t].user # u
    <2>1. CASE LiveToken(t) /\ setupTokens[t].user = u
      <3>1. setupTokens[t] \in SetupToken
        BY <2>1 DEF Typed, RowsOK, LiveToken
      <3>2. setupTokens'[t].state = "revoked"
        BY <1>3, <2>1, <3>1 DEF SetupToken
      <3> QED
        BY <1>4, <3>2 DEF LiveToken
    <2>2. CASE ~(LiveToken(t) /\ setupTokens[t].user = u)
      <3>1. setupTokens'[t] = setupTokens[t]
        BY <1>3, <2>2
      <3> QED
        BY <1>4, <2>2, <3>1 DEF LiveToken
    <2> QED
      BY <2>1, <2>2
  <1>5. overlapped' = Overlapping(c, u)
    BY DEF RevokeActiveTokens
  <1> HIDE DEF u
  <1>6. ASSUME NEW v \in Users, v \notin overlapped' PROVE LoneIssues(v)'
    <2>1. CASE v = u
      <3>1. \A d \in Clients : d # c => ~Issuing(d, v)
        BY <1>5, <1>6, <2>1 DEF Overlapping
      <3>2. \A d \in Clients : d # c => ~Issuing(d, v)'
        BY <1>2, <3>1 DEF Issuing, Later, At
      <3> QED
        BY <1>4, <2>1, <3>2 DEF LoneIssues, OneLive, OneIssue, IssueIsFirst
    <2>2. CASE v # u
      <3>1. LoneIssues(v)
        BY <1>5, <1>6, <2>2 DEF Overlapping, TokensInv
      <3>2. \A d \in Clients : Issuing(d, v)' => Issuing(d, v)
        BY <1>2, <2>2 DEF Issuing, Later, At
      <3> QED
        BY <1>4, <3>1, <3>2 DEF LoneIssues, OneLive, OneIssue, IssueIsFirst
    <2> QED
      BY <2>1, <2>2
  <1> QED
    BY <1>6 DEF TokensInv

\* The second statement adds the one live token to an account that has none.
LEMMA NewToken ==
    ASSUME Typed, TokensInv, UNCHANGED overlapped, NEW c \in Clients, CreateToken(c)
    PROVE  TokensInv'
  <1> DEFINE u == request[c].call.user
  <1>1. Issuing(c, u)
    BY DEF CreateToken, Issuing
  <1>2. request'[c] = Idle /\ \A d \in Clients : d # c => request'[d] = request[d]
    BY OthersGo DEF CreateToken, Finish, FinishSupplying
  <1>3. PICK t \in TokenIds : setupTokens' = [setupTokens EXCEPT ![t] =
           [user |-> u, expires |-> now + SetupTokenTTL, state |-> "active"]]
    BY DEF CreateToken
  <1>4. /\ setupTokens'[t].user = u
        /\ \A v \in TokenIds : v # t => setupTokens'[v] = setupTokens[v]
    BY <1>3 DEF Typed, RowsOK
  <1> HIDE DEF u
  <1>5. \A v \in TokenIds : v # t /\ LiveToken(v)' => LiveToken(v) /\ setupTokens'[v] = setupTokens[v]
    BY <1>4 DEF LiveToken
  <1>6. ASSUME NEW v \in Users, v \notin overlapped PROVE LoneIssues(v)'
    <2>1. LoneIssues(v)
      BY <1>6 DEF TokensInv
    <2>2. \A d \in Clients : Issuing(d, v)' => d # c /\ Issuing(d, v)
      BY <1>2 DEF Issuing, Later, At, Idle
    <2>3. CASE v = u
      <3>1. \A d \in Clients : ~Issuing(d, v)'
        BY <1>1, <2>1, <2>2, <2>3 DEF LoneIssues, OneIssue
      <3>2. \A w \in TokenIds : w # t /\ LiveToken(w)' => setupTokens'[w].user # v
        BY <1>1, <1>5, <2>1, <2>3 DEF LoneIssues, IssueIsFirst
      <3> QED
        BY <3>1, <3>2 DEF LoneIssues, OneLive, OneIssue, IssueIsFirst
    <2>4. CASE v # u
      <3>1. \A w \in TokenIds : LiveToken(w)' /\ setupTokens'[w].user = v =>
              LiveToken(w) /\ setupTokens[w].user = v
        BY <1>4, <1>5, <2>4
      <3> QED
        BY <2>1, <2>2, <3>1 DEF LoneIssues, OneLive, OneIssue, IssueIsFirst
    <2> QED
      BY <2>3, <2>4
  <1> QED
    BY <1>6 DEF TokensInv

LEMMA TokensNext == Typed /\ TokensInv /\ [Next]_vars => TokensInv'
  <1> SUFFICES ASSUME Typed, TokensInv, [Next]_vars PROVE TokensInv'
    OBVIOUS
  <1>1. CASE \E c \in Clients : RevokeActiveTokens(c)
    BY <1>1, RevokeTokens
  <1>2. CASE ~\E c \in Clients : RevokeActiveTokens(c)
    <2>1. UNCHANGED overlapped
      BY <1>2, OverlapStep
    <2>2. UNCHANGED request => LeavesIssues
      BY DEF LeavesIssues
    <2>3. UNCHANGED setupTokens =>
            \A t \in TokenIds : LiveToken(t)' => LiveToken(t) /\ setupTokens'[t] = setupTokens[t]
      BY DEF LiveToken
    <2>4. LeavesIssues /\ UNCHANGED setupTokens => TokensInv'
      BY <2>1, <2>3, LiveShrinks
    <2>5. ASSUME NEW c \in Clients, Abandon(c) PROVE TokensInv'
      BY <2>4, <2>5, FinishLeaves DEF Abandon, Finish, FinishSupplying, rowVars
    <2>6. ASSUME NEW c \in Clients, LoginStep(c) PROVE TokensInv'
      <3>1. UNCHANGED setupTokens
        BY <2>6 DEF LoginStep, BeginLogin, CheckAccount, Rehash, CreateSession,
                    DeleteExpiredForUser, rowVars
      <3> QED
        BY <2>4, <2>6, <3>1, LoginLeaves
    <2>7. ASSUME NEW c \in Clients, CallStep(c) PROVE TokensInv'
      <3>1. UNCHANGED setupTokens
        BY <2>7 DEF CallStep, BeginCall, ReadSession, CheckUser, Touch,
                    ResolveApplyUserByAPIKey, AuthorizeCall, rowVars
      <3> QED
        BY <2>4, <2>7, <3>1, BeginLeaves, CallLeaves DEF CallStep
    <2>8. ASSUME NEW c \in Clients, CreateToken(c) PROVE TokensInv'
      BY <2>1, <2>8, NewToken
    <2>9. ASSUME NEW c \in Clients, HandlerStep(c), ~CreateToken(c) PROVE TokensInv'
      <3>1. UNCHANGED setupTokens
        BY <1>2, <2>9 DEF HandlerStep, ServeElsewhere, ProvisionUser, Deactivate,
                          RevokeAllSessions, RevokeAllKeys, Reactivate, Grant, RevokeRole,
                          CreateLeagueWithSelfGrant, rowVars
      <3> QED
        BY <1>2, <2>4, <2>9, <3>1, HandlerLeaves
    <2>10. ASSUME NEW v \in TokenIds, NEW p \in Passwords, CompletePasswordSetup(v, p)
           PROVE  TokensInv'
      <3>1. setupTokens[v] \in SetupToken
        BY <2>10 DEF CompletePasswordSetup, LiveToken, Typed, RowsOK
      <3>2. /\ setupTokens'[v].state = "used"
            /\ \A t \in TokenIds : t # v => setupTokens'[t] = setupTokens[t]
        BY <2>10, <3>1 DEF CompletePasswordSetup, Typed, RowsOK, SetupToken
      <3>3. \A t \in TokenIds : LiveToken(t)' => LiveToken(t) /\ setupTokens'[t] = setupTokens[t]
        BY <3>2 DEF LiveToken
      <3> QED
        BY <2>1, <2>2, <2>10, <3>3, LiveShrinks DEF CompletePasswordSetup
    <2>11. CASE UNCHANGED <<request, setupTokens>>
      BY <2>2, <2>4, <2>11
    <2> QED
      BY <2>5, <2>6, <2>7, <2>8, <2>9, <2>10, <2>11
      DEF Next, vars, rowVars, Tick, Logout, CreateApplyUser
  <1> QED
    BY <1>1, <1>2

\* An issue that no other issue for the account overlaps leaves one live setup token,
\* for any number of administrators and whatever they do between the two statements
\* of IssuePasswordSetupToken.
THEOREM OneTokenCorrect == Spec => []OneLiveToken
  <1>1. Init => TokensInv
    BY DEF Init, TokensInv, LoneIssues, OneLive, OneIssue, IssueIsFirst, Issuing, Later, At,
           LiveToken, Idle
  <1>2. Typed /\ TokensInv => OneLiveToken
    <2> SUFFICES ASSUME Typed, TokensInv, NEW t \in TokenIds, NEW v \in TokenIds,
                        LiveToken(t), LiveToken(v), setupTokens[t].user = setupTokens[v].user,
                        setupTokens[t].user \notin overlapped
                 PROVE  t = v
      BY DEF OneLiveToken
    <2>1. setupTokens[t].user \in Users
      BY DEF Typed, RowsOK, LiveToken, SetupToken
    <2> QED
      BY <2>1 DEF TokensInv, LoneIssues, OneLive
  <1> QED
    BY <1>1, <1>2, TokensNext, AlwaysTyped, PTL DEF Spec

(***************************************************************************)
(* Whoever is served was entitled to it since the call began.              *)
(***************************************************************************)
\* What the history says a call has lacked ever since it began, it lacks; what it
\* has been found to have is not in the history.
Lacks(r, h) ==
    /\ \A v \in h.inactive : ~account[v].active
    /\ h.ungranted \cap grants = {}
    /\ r.op = "call" =>
         /\ r.step = "cookie" /\ h.session => ~LiveSession(r.session)
         /\ r.step \in {"cookie", "user", "touch", "key"} /\ h.key =>
              r.key \in Users /\ apiKey[r.key] # "active"
         /\ r.step \in {"user", "touch"} => ~h.session
         /\ r.step \in {"touch", "roles"} \cup Handling => r.who \notin h.inactive
         /\ r.step \in {"roles"} \cup Handling =>
              (r.method = "session" => ~h.session) /\ (r.method = "api_key" => ~h.key)
         /\ r.step \in Handling /\ (Administrative(r.call) \/ r.call.op = "administer") =>
              \E a \in Accepted(r.call) : <<r.who, a>> \notin h.ungranted
HistoryTrue == \A c \in Clients : Lacks(request[c], shut[c])

\* A history that says less.
Within(g, h) ==
    /\ g.inactive \subseteq h.inactive /\ g.ungranted \subseteq h.ungranted
    /\ g.session => h.session
    /\ g.key => h.key

\* What a step may do to the accounts and assignments a history is about, and to
\* the session of a call that is about to read it.
Tells(g) ==
    /\ \A v \in g.inactive : ~account'[v].active
    /\ g.ungranted \cap grants' = {}
StaysDead(r, g) ==
    r.op = "call" /\ r.step = "cookie" /\ g.session /\ ~LiveSession(r.session)
        => ~LiveSession(r.session)'

LEMMA LacksKept ==
    ASSUME NEW r \in Request, NEW h, NEW g, Names(r), Lacks(r, h), Within(g, h), Tells(g),
           StaysDead(r, g), RowsOK, KeysStayRevoked
    PROVE  Lacks(r, g)'
  <1>1. \A u \in Users : apiKey[u] \in {"none", "active", "revoked"}
    BY DEF RowsOK
  <1>2. /\ \A v \in g.inactive : ~account'[v].active
        /\ g.ungranted \cap grants' = {}
    BY DEF Tells
  <1>3. CASE r.op # "call"
    BY <1>2, <1>3 DEF Lacks
  <1>4. CASE r.op = "call"
    <2>1. r.step = "cookie" /\ g.session => ~LiveSession(r.session)'
      BY <1>4 DEF Lacks, Within, StaysDead
    <2>2. r.step \in {"cookie", "user", "touch", "key"} /\ g.key =>
              r.key \in Users /\ apiKey'[r.key] # "active"
      <3> SUFFICES ASSUME r.step \in {"cookie", "user", "touch", "key"}, g.key
                   PROVE  r.key \in Users /\ apiKey'[r.key] # "active"
        OBVIOUS
      <3>1. r.key \in Users /\ apiKey[r.key] # "active"
        BY <1>4 DEF Lacks, Within
      <3>2. apiKey[r.key] # "none"
        BY <1>4, <3>1, UserAssumption DEF Names
      <3> QED
        BY <1>1, <3>1, <3>2 DEF KeysStayRevoked
    <2>3. /\ r.step \in {"user", "touch"} => ~g.session
          /\ r.step \in {"touch", "roles"} \cup Handling => r.who \notin g.inactive
          /\ r.step \in {"roles"} \cup Handling =>
              (r.method = "session" => ~g.session) /\ (r.method = "api_key" => ~g.key)
          /\ r.step \in Handling /\ (Administrative(r.call) \/ r.call.op = "administer") =>
              \E a \in Accepted(r.call) : <<r.who, a>> \notin g.ungranted
      BY <1>4 DEF Lacks, Within
    <2> QED
      BY <1>2, <2>1, <2>2, <2>3 DEF Lacks
  <1> QED
    BY <1>3, <1>4

\* The accounts a step activates are among active, the assignments it makes among
\* pairs.
Supplies(active, pairs) ==
    /\ \A u \in Users : account'[u].active => account[u].active \/ u \in active
    /\ grants' \subseteq grants \cup pairs
\* A session that the history of a call in flight has as dead does not come to life.
DeadStays(d) ==
    \A s \in SessionIds :
        /\ sessions[s] # Unused /\ ~LiveSession(s)
        /\ request[d].op = "call" /\ request[d].session = s /\ shut'[d].session
        => ~LiveSession(s)'
DeadSessions ==
    \A s \in SessionIds : sessions[s] # Unused /\ ~LiveSession(s) => ~LiveSession(s)'

LEMMA Told ==
    ASSUME Typed, HistoryTrue, KeysStayRevoked, NEW d \in Clients, NEW active, NEW pairs,
           Supplies(active, pairs), DeadStays(d), request'[d] = request[d],
           shut'[d].inactive = shut[d].inactive \ active,
           shut'[d].ungranted = shut[d].ungranted \ pairs,
           shut'[d].session => shut[d].session, shut'[d].key = shut[d].key
    PROVE  Lacks(request[d], shut[d])'
  <1>1. PICK r \in Request : r = request[d] /\ Names(r)
    BY DEF Typed, RequestsOK, RequestsName
  <1>2. PICK h \in History : h = shut[d]
    BY DEF Typed, ShutOK, History
  <1>3. PICK g : g = shut'[d]
    OBVIOUS
  <1>4. Lacks(r, h)
    BY <1>1, <1>2 DEF HistoryTrue
  <1>5. Within(g, h)
    BY <1>2, <1>3 DEF Within
  <1>6. Tells(g)
    BY <1>2, <1>3, <1>4 DEF Tells, Supplies, Lacks, History
  <1>7. StaysDead(r, g)
    BY <1>1, <1>3 DEF StaysDead, DeadStays, Names
  <1>8. Lacks(r, g)'
    BY <1>1, <1>4, <1>5, <1>6, <1>7, LacksKept DEF Typed
  <1> QED
    BY <1>1, <1>3, <1>8 DEF Lacks

LEMMA ToldSame ==
    ASSUME Typed, HistoryTrue, KeysStayRevoked, NEW d \in Clients,
           Supplies({}, {}), DeadStays(d), request'[d] = request[d], shut'[d] = shut[d]
    PROVE  Lacks(request[d], shut[d])'
  BY Told

\* The history of a call that is over says nothing.
LEMMA OverTells ==
    ASSUME NEW d \in Clients, request'[d] = Idle, shut'[d] = Open
    PROVE  Lacks(request[d], shut[d])'
  BY DEF Lacks, Idle, Open

LEMMA DeadSame ==
    UNCHANGED <<now, sessions>> => DeadSessions
  BY DEF DeadSessions, LiveSession, LiveRow, Present

LEMMA DeadIsGone ==
    ASSUME Typed, UNCHANGED now,
           \/ \E c \in Clients :
                CreateSession(c) \/ DeleteExpiredForUser(c) \/ RevokeAllSessions(c)
           \/ \E s \in SessionIds : Logout(s)
    PROVE  DeadSessions
  <1> SUFFICES ASSUME NEW s \in SessionIds, sessions[s] # Unused, ~LiveSession(s)
               PROVE  ~LiveSession(s)'
    BY DEF DeadSessions
  <1>1. sessions'[s] \in {sessions[s], Deleted, [sessions[s] EXCEPT !.revoked = TRUE]}
    BY DEF CreateSession, DeleteExpiredForUser, RevokeAllSessions, RevokeSessionsOf, Logout,
           Typed, RowsOK
  <1>2. CASE sessions'[s] = sessions[s]
    BY <1>2 DEF LiveSession, LiveRow, Present
  <1>3. CASE sessions'[s] = Deleted
    BY <1>3 DEF LiveSession, LiveRow, Present
  <1>4. CASE sessions'[s] = [sessions[s] EXCEPT !.revoked = TRUE] /\ sessions[s] # Deleted
    <2>1. sessions[s] \in Session
      BY <1>4 DEF Typed, RowsOK
    <2>2. sessions'[s].revoked
      BY <1>4, <2>1 DEF Session
    <2> QED
      BY <2>2 DEF LiveSession, LiveRow
  <1>5. CASE sessions[s] = Deleted
    <2>1. SessionsStayGone
      BY SessionStepsStayGone, LogoutStaysGone
    <2>2. Gone(s)'
      BY <1>5, <2>1 DEF SessionsStayGone, Gone, Present
    <2> QED
      BY <2>2 DEF Gone, LiveSession, LiveRow, Present
  <1> QED
    BY <1>1, <1>2, <1>3, <1>4, <1>5

LEMMA DeadTick == Typed /\ Tick => DeadSessions
  <1> SUFFICES ASSUME Typed, Tick, NEW s \in SessionIds, sessions[s] # Unused, ~LiveSession(s)
               PROVE  ~LiveSession(s)'
    BY DEF DeadSessions
  <1>1. sessions'[s] = sessions[s] /\ now' = now + 1 /\ now \in Nat
    BY LifetimeAssumption DEF Tick, rowVars, Typed, RowsOK
  <1>2. CASE Present(sessions[s])
    <2>1. sessions[s].expires \in Nat /\ sessions[s].created \in Nat
      BY <1>2 DEF Typed, RowsOK, Present, Session
    <2> QED
      BY <1>1, <2>1, LifetimeAssumption DEF LiveSession, LiveRow, Present
  <1>3. CASE ~Present(sessions[s])
    BY <1>1, <1>3 DEF LiveSession, LiveRow, Present
  <1> QED
    BY <1>2, <1>3

LEMMA FinishTold ==
    ASSUME Typed, HistoryTrue, KeysStayRevoked, NEW c \in Clients, NEW active, NEW pairs,
           FinishSupplying(c, active, pairs), Supplies(active, pairs), DeadSessions
    PROVE  HistoryTrue'
  <1>1. request'[c] = Idle /\ shut'[c] = Open
    BY DEF FinishSupplying, Continue, Typed, RequestsOK, Supplied
  <1>2. \A d \in Clients : d # c => request'[d] = request[d] /\ shut'[d] = Supplied(active, pairs)[d]
    BY DEF FinishSupplying, Continue, Typed, RequestsOK, Supplied
  <1>3. Lacks(request[c], shut[c])'
    BY <1>1, OverTells
  <1>4. ASSUME NEW d \in Clients, d # c PROVE Lacks(request[d], shut[d])'
    BY <1>2, <1>4, SuppliedTyped, Told DEF DeadSessions, DeadStays
  <1> QED
    BY <1>3, <1>4 DEF HistoryTrue

LEMMA GoesOn ==
    ASSUME Typed, HistoryTrue, KeysStayRevoked, NEW c \in Clients, NEW r, Continue(c, r),
           UNCHANGED shut, Supplies({}, {}), DeadSessions,
           Lacks(request[c], shut[c])'
    PROVE  HistoryTrue'
  <1>1. \A d \in Clients : d # c => request'[d] = request[d]
    BY OthersGo
  <1>2. ASSUME NEW d \in Clients, d # c PROVE Lacks(request[d], shut[d])'
    BY <1>1, <1>2, ToldSame DEF DeadSessions, DeadStays
  <1> QED
    BY <1>2 DEF HistoryTrue

LEMMA SameSupplies == UNCHANGED <<account, grants>> => Supplies({}, {})
  BY DEF Supplies

LEMMA StillTells ==
    ASSUME Typed, HistoryTrue, NEW c \in Clients, Supplies({}, {}), UNCHANGED shut
    PROVE  /\ \A v \in shut'[c].inactive : ~account'[v].active
           /\ shut'[c].ungranted \cap grants' = {}
  <1>1. shut[c].inactive \subseteq Users
    BY DEF Typed, ShutOK
  <1> QED
    BY <1>1 DEF Supplies, HistoryTrue, Lacks

\* The rows a login writes give nobody a role and make no account active.
LEMMA PasswordSupplies ==
    ASSUME Typed, NEW u \in Users, NEW p,
           account' = [account EXCEPT ![u].password = p, ![u].weak = FALSE], UNCHANGED grants
    PROVE  Supplies({}, {})
  <1>1. account[u] \in Account
    BY DEF Typed, RowsOK
  <1>2. account' = [account EXCEPT ![u] = [account[u] EXCEPT !.password = p, !.weak = FALSE]]
    BY DEF Typed, RowsOK
  <1>3. [account[u] EXCEPT !.password = p, !.weak = FALSE].active = account[u].active
    BY <1>1 DEF Account
  <1>4. \A v \in Users : account'[v].active = account[v].active
    BY <1>2, <1>3 DEF Typed, RowsOK
  <1> QED
    BY <1>4 DEF Supplies

LEMMA LoginTold ==
    ASSUME Typed, HistoryTrue, KeysStayRevoked, NEW c \in Clients, LoginStep(c)
    PROVE  HistoryTrue'
  <1>1. Supplies({}, {})
    <2>1. CASE Rehash(c) /\ ~UNCHANGED account
      <3>1. request[c].user \in Users
        BY <2>1, Kinds DEF Typed, Rehash, At, Login
      <3> QED
        BY <2>1, <3>1, PasswordSupplies DEF Rehash
    <2>2. CASE ~Rehash(c) \/ UNCHANGED account
      <3>1. UNCHANGED <<account, grants>>
        BY <2>2 DEF LoginStep, BeginLogin, CheckAccount, CreateSession, DeleteExpiredForUser, Rehash, rowVars
      <3> QED
        BY <3>1, SameSupplies
    <2> QED
      BY <2>1, <2>2
  <1>2. DeadSessions
    BY DeadSame, DeadIsGone DEF LoginStep, BeginLogin, CheckAccount, Rehash, CreateSession,
                                DeleteExpiredForUser, rowVars
  <1>3. CASE DeleteExpiredForUser(c)
    BY <1>1, <1>2, <1>3, FinishTold DEF DeleteExpiredForUser, Finish
  <1>4. CASE ~DeleteExpiredForUser(c)
    <2>1. PICK q : Continue(c, q) /\ q.op = "login" /\ UNCHANGED shut
      <3>1. CASE \E u \in Users, p \in Passwords : BeginLogin(c, u, p)
        BY <3>1 DEF BeginLogin
      <3>2. CASE CheckAccount(c) \/ Rehash(c) \/ CreateSession(c)
        <4>1. request[c] \in Login
          BY <3>2, Kinds DEF Typed, CheckAccount, Rehash, CreateSession, At
        <4>2. \A s : [request[c] EXCEPT !.step = s].op = "login"
          BY <4>1 DEF Login
        <4> QED
          BY <3>2, <4>2 DEF CheckAccount, Rehash, CreateSession, NextStep
      <3> QED
        BY <1>4, <3>1, <3>2 DEF LoginStep
    <2>2. request'[c] = q
      BY <2>1, OthersGo
    <2>3. Lacks(request[c], shut[c])'
      BY <1>1, <2>1, <2>2, StillTells DEF Lacks
    <2> QED
      BY <1>1, <1>2, <2>1, <2>3, GoesOn
  <1> QED
    BY <1>3, <1>4

\* What a call presents is in its history if it is not good as the call begins.
LEMMA BeginTold ==
    ASSUME Typed, HistoryTrue, KeysStayRevoked, NEW c \in Clients, NEW call \in Calls,
           NEW s \in SessionIds \cup {NoSession}, NEW u \in Users \cup {NoUser},
           BeginCall(c, call, s, u)
    PROVE  HistoryTrue'
  <1> DEFINE r == [op |-> "call", step |-> IF s = NoSession THEN "key" ELSE "cookie",
                   call |-> call, session |-> s, key |-> u,
                   who |-> NoUser, method |-> "api_key", at |-> 0]
             h == Lacking(s, u)
  <1>1. request'[c] = r /\ \A d \in Clients : d # c => request'[d] = request[d]
    BY OthersGo DEF BeginCall
  <1>2. shut'[c] = h /\ \A d \in Clients : d # c => shut'[d] = shut[d]
    BY DEF BeginCall, Typed, ShutOK
  <1>3. UNCHANGED <<now, sessions, account, grants, apiKey>>
    BY DEF BeginCall, rowVars
  <1>4. DeadSessions /\ Supplies({}, {})
    BY <1>3, DeadSame, SameSupplies
  <1>5. ASSUME NEW d \in Clients, d # c PROVE Lacks(request[d], shut[d])'
    BY <1>1, <1>2, <1>4, <1>5, ToldSame DEF DeadSessions, DeadStays
  <1>6. /\ \A v \in h.inactive : ~account[v].active
        /\ h.ungranted \cap grants = {}
        /\ h.session => s # NoSession /\ ~LiveSession(s)
        /\ h.key => u # NoUser /\ apiKey[u] # "active"
    BY DEF Lacking
  <1>7. LiveSession(s)' <=> LiveSession(s)
    BY <1>3 DEF LiveSession, LiveRow, Present
  <1>8. /\ r.op = "call" /\ r.step \in {"key", "cookie"} /\ r.session = s /\ r.key = u
    OBVIOUS
  <1> HIDE DEF r, h
  <1>9. Lacks(request[c], shut[c])'
    BY <1>1, <1>2, <1>3, <1>6, <1>7, <1>8 DEF Lacks, Handling
  <1> QED
    BY <1>5, <1>9 DEF HistoryTrue

LEMMA ReadTold ==
    ASSUME Typed, HistoryTrue, KeysStayRevoked, NEW c \in Clients, ReadSession(c)
    PROVE  HistoryTrue'
  <1>1. PICK r \in Call : r = request[c] /\ r.op = "call" /\ r.step = "cookie"
    BY Kinds DEF Typed, ReadSession, At
  <1>2. PICK h \in History : h = shut[c]
    BY DEF Typed, ShutOK, History
  <1>3. UNCHANGED <<now, sessions, account, grants, apiKey, shut>>
    BY DEF ReadSession, rowVars
  <1>4. DeadSessions /\ Supplies({}, {})
    BY <1>3, DeadSame, SameSupplies
  <1>5. Lacks(r, h)
    BY <1>1, <1>2 DEF HistoryTrue
  <1>6. CASE LiveSession(r.session)
    <2> DEFINE q == [r EXCEPT !.step = "user", !.who = sessions[r.session].user,
                              !.method = "session", !.at = now]
    <2>1. q.op = "call" /\ q.step = "user" /\ q.key = r.key
      BY <1>1 DEF Call
    <2>2. Continue(c, q)
      BY <1>1, <1>6 DEF ReadSession
    <2> HIDE DEF q
    <2>3. request'[c] = q /\ shut'[c] = h
      BY <1>2, <1>3, <2>2, OthersGo
    <2>4. Lacks(request[c], shut[c])'
      BY <1>1, <1>3, <1>5, <1>6, <2>1, <2>3 DEF Lacks, Handling
    <2> QED
      BY <1>3, <1>4, <2>2, <2>4, GoesOn
  <1>7. CASE ~LiveSession(r.session)
    <2> DEFINE q == [r EXCEPT !.step = "key"]
    <2>1. q.op = "call" /\ q.step = "key" /\ q.key = r.key
      BY <1>1 DEF Call
    <2>2. Continue(c, q)
      BY <1>1, <1>7 DEF ReadSession
    <2> HIDE DEF q
    <2>3. request'[c] = q /\ shut'[c] = h
      BY <1>2, <1>3, <2>2, OthersGo
    <2>4. Lacks(request[c], shut[c])'
      BY <1>1, <1>3, <1>5, <2>1, <2>3 DEF Lacks, Handling
    <2> QED
      BY <1>3, <1>4, <2>2, <2>4, GoesOn
  <1> QED
    BY <1>6, <1>7

LEMMA CheckUserTold ==
    ASSUME Typed, HistoryTrue, KeysStayRevoked, NEW c \in Clients, CheckUser(c)
    PROVE  HistoryTrue'
  <1>1. PICK r \in Call : r = request[c] /\ r.op = "call" /\ r.step = "user"
    BY Kinds DEF Typed, CheckUser, At
  <1>2. PICK h \in History : h = shut[c]
    BY DEF Typed, ShutOK, History
  <1>3. UNCHANGED <<now, sessions, account, grants, apiKey, shut>>
    BY DEF CheckUser, rowVars, NextStep
  <1>4. DeadSessions /\ Supplies({}, {})
    BY <1>3, DeadSame, SameSupplies
  <1>5. Lacks(r, h)
    BY <1>1, <1>2 DEF HistoryTrue
  <1>6. CASE account[r.who].active
    <2> DEFINE q == [r EXCEPT !.step = "touch"]
    <2>1. q.op = "call" /\ q.step = "touch" /\ q.key = r.key /\ q.who = r.who
      BY <1>1 DEF Call
    <2>2. Continue(c, q)
      BY <1>1, <1>6 DEF CheckUser, NextStep
    <2> HIDE DEF q
    <2>3. request'[c] = q /\ shut'[c] = h
      BY <1>2, <1>3, <2>2, OthersGo
    <2>4. r.who \notin h.inactive
      BY <1>5, <1>6 DEF Lacks
    <2>5. Lacks(request[c], shut[c])'
      BY <1>1, <1>3, <1>5, <2>1, <2>3, <2>4 DEF Lacks, Handling
    <2> QED
      BY <1>3, <1>4, <2>2, <2>5, GoesOn
  <1>7. CASE ~account[r.who].active
    <2> DEFINE q == [r EXCEPT !.step = "key", !.who = NoUser, !.method = "api_key"]
    <2>1. q.op = "call" /\ q.step = "key" /\ q.key = r.key
      BY <1>1 DEF Call
    <2>2. Continue(c, q)
      BY <1>1, <1>7 DEF CheckUser
    <2> HIDE DEF q
    <2>3. request'[c] = q /\ shut'[c] = h
      BY <1>2, <1>3, <2>2, OthersGo
    <2>4. Lacks(request[c], shut[c])'
      BY <1>1, <1>3, <1>5, <2>1, <2>3 DEF Lacks, Handling
    <2> QED
      BY <1>3, <1>4, <2>2, <2>4, GoesOn
  <1> QED
    BY <1>6, <1>7

LEMMA ResolveTold ==
    ASSUME Typed, HistoryTrue, KeysStayRevoked, NEW c \in Clients, ResolveApplyUserByAPIKey(c)
    PROVE  HistoryTrue'
  <1>1. PICK r \in Call : r = request[c] /\ r.op = "call" /\ r.step = "key"
    BY Kinds DEF Typed, ResolveApplyUserByAPIKey, At
  <1>2. PICK h \in History : h = shut[c]
    BY DEF Typed, ShutOK, History
  <1>3. UNCHANGED <<now, sessions, account, grants, apiKey, shut>>
    BY DEF ResolveApplyUserByAPIKey, rowVars
  <1>4. DeadSessions /\ Supplies({}, {})
    BY <1>3, DeadSame, SameSupplies
  <1>5. Lacks(r, h)
    BY <1>1, <1>2 DEF HistoryTrue
  <1>6. apiKey[r.key] = "active" /\ account[r.key].active
    BY <1>1 DEF ResolveApplyUserByAPIKey
  <1> DEFINE q == [r EXCEPT !.step = "roles", !.who = r.key, !.method = "api_key"]
  <1>7. q.op = "call" /\ q.step = "roles" /\ q.who = r.key /\ q.method = "api_key"
    BY <1>1 DEF Call
  <1>8. Continue(c, q)
    BY <1>1 DEF ResolveApplyUserByAPIKey
  <1> HIDE DEF q
  <1>9. request'[c] = q /\ shut'[c] = h
    BY <1>2, <1>3, <1>8, OthersGo
  <1>10. ~h.key /\ r.key \notin h.inactive
    BY <1>1, <1>5, <1>6 DEF Lacks
  <1>11. Lacks(request[c], shut[c])'
    BY <1>3, <1>5, <1>7, <1>9, <1>10 DEF Lacks, Handling
  <1> QED
    BY <1>3, <1>4, <1>8, <1>11, GoesOn

\* The policy lets a call through for an assignment that is there.
LEMMA AllowedAssignment ==
    ASSUME NEW r \in Call, r.who \in Users, Allowed(IdentityOf(r), r.call),
           Administrative(r.call) \/ r.call.op = "administer"
    PROVE  \E a \in Accepted(r.call) : <<r.who, a>> \in grants
  <1> DEFINE id == IdentityOf(r)
  <1>1. id.assignments = {a \in Assignments : <<r.who, a>> \in grants}
    BY DEF IdentityOf
  <1>2. SystemAdmin \in id.assignments => <<r.who, SystemAdmin>> \in grants
    BY <1>1
  <1>3. \A l \in Leagues : LeagueAdmin(l) \in id.assignments =>
          <<r.who, LeagueAdmin(l)>> \in grants /\ LeagueAdmin(l) \in Assignments
    BY <1>1
  <1>4. CASE r.call.op = "createLeague"
    <2>1. Authorize(id, "league_create", Scope(NoLeague, NoPlayer))
      BY <1>4 DEF Allowed, AccountOps, RoleOps
    <2>2. IsSystemAdmin(id) \/ IsAnyLeagueAdmin(id)
      BY <2>1 DEF Authorize, LeagueActions, OverviewActions
    <2> QED
      BY <1>2, <1>3, <1>4, <2>2 DEF IsSystemAdmin, IsAnyLeagueAdmin, IsLeagueAdminFor, Accepted
  <1>5. CASE r.call.op = "administer"
    <2>1. Authorize(id, "league_administer", Scope(r.call.league, NoPlayer))
          /\ r.call.league \in Leagues
      BY <1>5 DEF Allowed, AccountOps, RoleOps, Call, Calls
    <2>2. IsSystemAdmin(id) \/ IsLeagueAdminFor(id, r.call.league)
      BY <2>1 DEF Authorize, Scope
    <2> QED
      BY <1>2, <1>3, <1>5, <2>1, <2>2 DEF IsSystemAdmin, IsLeagueAdminFor, Accepted
  <1>6. CASE r.call.op \in AccountOps \cup RoleOps
    <2>1. Authorize(id, "system_user_admin", Scope(NoLeague, NoPlayer))
      BY <1>6 DEF Allowed, AccountOps, RoleOps
    <2>2. IsSystemAdmin(id)
      BY <2>1 DEF Authorize, LeagueActions, OverviewActions
    <2> QED
      BY <1>2, <2>2 DEF IsSystemAdmin, Accepted
  <1> QED
    BY <1>4, <1>5, <1>6 DEF Administrative

LEMMA AuthorizeTold ==
    ASSUME Typed, HistoryTrue, KeysStayRevoked, NEW c \in Clients, AuthorizeCall(c)
    PROVE  HistoryTrue'
  <1>1. PICK r \in Call : r = request[c] /\ r.op = "call" /\ r.step = "roles" /\ Names(r)
    BY Kinds DEF Typed, AuthorizeCall, At, RequestsName
  <1>2. PICK h \in History : h = shut[c]
    BY DEF Typed, ShutOK, History
  <1>3. UNCHANGED <<now, sessions, account, grants, apiKey, shut>>
    BY DEF AuthorizeCall, rowVars
  <1>4. DeadSessions /\ Supplies({}, {})
    BY <1>3, DeadSame, SameSupplies
  <1>5. Lacks(r, h)
    BY <1>1, <1>2 DEF HistoryTrue
  <1>6. r.who \in Users /\ Allowed(IdentityOf(r), r.call)
    BY <1>1 DEF AuthorizeCall, Names
  <1> DEFINE q == [r EXCEPT !.step = "serve", !.session = NoSession, !.key = NoUser, !.at = 0]
  <1>7. /\ q.op = "call" /\ q.step = "serve" /\ q.who = r.who /\ q.method = r.method
        /\ q.call = r.call
    BY <1>1 DEF Call
  <1>8. Continue(c, q)
    BY <1>1 DEF AuthorizeCall
  <1> HIDE DEF q
  <1>9. request'[c] = q /\ shut'[c] = h
    BY <1>2, <1>3, <1>8, OthersGo
  <1>10. Administrative(r.call) \/ r.call.op = "administer" =>
           \E a \in Accepted(r.call) : <<r.who, a>> \notin h.ungranted
    BY <1>5, <1>6, AllowedAssignment DEF Lacks
  <1>11. Lacks(request[c], shut[c])'
    BY <1>1, <1>3, <1>5, <1>7, <1>9, <1>10 DEF Lacks, Handling
  <1> QED
    BY <1>3, <1>4, <1>8, <1>11, GoesOn

\* Only the session that is touched can come to life again, and then no history
\* has it as dead any more.
LEMMA TouchTold ==
    ASSUME Typed, HistoryTrue, KeysStayRevoked, NEW c \in Clients, Touch(c)
    PROVE  HistoryTrue'
  <1>1. PICK r \in Call : r = request[c] /\ r.op = "call" /\ r.step = "touch" /\ Names(r)
    BY Kinds DEF Typed, Touch, At, RequestsName
  <1>2. PICK h \in History : h = shut[c]
    BY DEF Typed, ShutOK, History
  <1>3. UNCHANGED <<now, account, grants, apiKey>>
    BY DEF Touch
  <1>4. Supplies({}, {})
    BY <1>3, SameSupplies
  <1>5. Lacks(r, h)
    BY <1>1, <1>2 DEF HistoryTrue
  <1>6. ~h.session /\ r.who \notin h.inactive /\ r.method = "session" /\ r.session \in SessionIds
    BY <1>1, <1>5 DEF Lacks, Names
  <1>7. \A d \in Clients :
          /\ shut'[d].inactive = shut[d].inactive
          /\ shut'[d].ungranted = shut[d].ungranted
          /\ shut'[d].key = shut[d].key
          /\ shut'[d].session => /\ shut[d].session
                                 /\ ~(/\ request[d].op = "call" /\ request[d].session = r.session
                                      /\ LiveRow(sessions'[r.session]))
    BY <1>1 DEF Touch, Typed, ShutOK, History
  <1>8. \A s \in SessionIds : s # r.session => sessions'[s] = sessions[s]
    BY <1>1 DEF Touch, Typed, RowsOK
  <1>9. \A d \in Clients : DeadStays(d)
    <2> SUFFICES ASSUME NEW d \in Clients, NEW s \in SessionIds, ~LiveSession(s),
                        request[d].op = "call", request[d].session = s, shut'[d].session
                 PROVE  ~LiveSession(s)'
      BY DEF DeadStays
    <2>1. CASE s # r.session
      BY <1>3, <1>8, <2>1 DEF LiveSession, LiveRow, Present
    <2>2. CASE s = r.session
      <3>1. ~LiveRow(sessions'[s])
        BY <1>7, <2>2
      <3> QED
        BY <1>3, <3>1 DEF LiveSession, LiveRow, Present
    <2> QED
      BY <2>1, <2>2
  <1> DEFINE q == [r EXCEPT !.step = "roles"]
  <1>10. q.op = "call" /\ q.step = "roles" /\ q.who = r.who /\ q.method = r.method
    BY <1>1 DEF Call
  <1>11. Continue(c, q)
    BY <1>1 DEF Touch
  <1> HIDE DEF q
  <1>12. request'[c] = q /\ \A d \in Clients : d # c => request'[d] = request[d]
    BY <1>11, OthersGo
  <1>13. Lacks(request[c], shut[c])'
    <2>1. /\ \A v \in shut'[c].inactive : ~account'[v].active
          /\ shut'[c].ungranted \cap grants' = {}
      BY <1>2, <1>3, <1>5, <1>7 DEF Lacks
    <2>2. r.who \notin shut'[c].inactive /\ ~shut'[c].session
      BY <1>2, <1>6, <1>7
    <2> QED
      BY <1>6, <1>10, <1>12, <2>1, <2>2 DEF Lacks, Handling
  <1>14. ASSUME NEW d \in Clients, d # c PROVE Lacks(request[d], shut[d])'
    <2>1. shut'[d].inactive = shut[d].inactive \ {} /\ shut'[d].ungranted = shut[d].ungranted \ {}
      BY <1>7
    <2> QED
      BY <1>4, <1>7, <1>9, <1>12, <1>14, <2>1, Told
  <1> QED
    BY <1>13, <1>14 DEF HistoryTrue

LEMMA CallTold ==
    ASSUME Typed, HistoryTrue, KeysStayRevoked, NEW c \in Clients, CallStep(c)
    PROVE  HistoryTrue'
  BY BeginTold, ReadTold, CheckUserTold, TouchTold, ResolveTold, AuthorizeTold DEF CallStep

(***************************************************************************)
(* What the handlers do to the histories.                                  *)
(***************************************************************************)
\* The handlers that go on to another step keep what their call has been found
\* to have.
LEMMA HandlerGoesOn ==
    ASSUME Typed, HistoryTrue, KeysStayRevoked, NEW c \in Clients, NEW step \in Handling,
           At(c, "call", "serve") \/ At(c, "call", "revokeSessions"),
           Proceeds(c, step), Supplies({}, {}), DeadSessions
    PROVE  HistoryTrue'
  <1>1. PICK r \in Call : r = request[c] /\ r.op = "call" /\ r.step \in Handling
    BY Kinds DEF Typed, At, Handling
  <1>2. PICK h \in History : h = shut[c]
    BY DEF Typed, ShutOK, History
  <1>3. Lacks(r, h)
    BY <1>1, <1>2 DEF HistoryTrue
  <1> DEFINE q == [r EXCEPT !.step = step]
  <1>4. /\ q.op = "call" /\ q.step = step /\ q.who = r.who /\ q.method = r.method
        /\ q.call = r.call
    BY <1>1 DEF Call
  <1>5. Continue(c, q) /\ UNCHANGED shut
    BY <1>1 DEF Proceeds
  <1> HIDE DEF q
  <1>6. request'[c] = q /\ shut'[c] = h
    BY <1>2, <1>5, OthersGo
  <1>7. /\ \A v \in h.inactive : ~account'[v].active
        /\ h.ungranted \cap grants' = {}
    BY <1>2, <1>5, StillTells
  <1>8. Lacks(request[c], shut[c])'
    BY <1>1, <1>3, <1>4, <1>6, <1>7 DEF Lacks, Handling
  <1> QED
    BY <1>5, <1>8, GoesOn

\* A step that changes whether one account is active.
LEMMA AccountSupplies ==
    ASSUME Typed, NEW u \in Users, NEW a, account' = [account EXCEPT ![u] = a], UNCHANGED grants
    PROVE  Supplies({u}, {})
  BY DEF Supplies, Typed, RowsOK

LEMMA DeactivateTold ==
    ASSUME Typed, HistoryTrue, KeysStayRevoked, NEW c \in Clients, Deactivate(c)
    PROVE  HistoryTrue'
  <1> DEFINE u == request[c].call.user
             a == [account[u] EXCEPT !.active = FALSE]
  <1>1. u \in Users
    BY Kinds, CallUsers DEF Typed, Deactivate, Serving, At, AccountOps
  <1>2. account[u] \in Account
    BY <1>1 DEF Typed, RowsOK
  <1>3. ~a.active
    BY <1>2 DEF Account
  <1>4. account' = [account EXCEPT ![u] = a]
    BY <1>1 DEF Deactivate, Typed, RowsOK
  <1> HIDE DEF a, u
  <1>5. Supplies({}, {})
    BY <1>1, <1>3, <1>4 DEF Supplies, Typed, RowsOK, Deactivate
  <1>6. DeadSessions
    BY DeadSame DEF Deactivate
  <1> QED
    BY <1>5, <1>6, HandlerGoesOn DEF Deactivate, NextStep, Proceeds, Serving, Handling

LEMMA HandlerTold ==
    ASSUME Typed, HistoryTrue, KeysStayRevoked, NEW c \in Clients, HandlerStep(c)
    PROVE  HistoryTrue'
  <1> DEFINE u == request[c].call.user
  <1>1. CASE ServeElsewhere(c) \/ RevokeAllKeys(c) \/ CreateToken(c)
    <2>1. DeadSessions /\ Supplies({}, {}) /\ Finish(c)
      BY <1>1, DeadSame, SameSupplies DEF ServeElsewhere, RevokeAllKeys, CreateToken, rowVars
    <2> QED
      BY <2>1, FinishTold DEF Finish
  <1>2. CASE RevokeRole(c)
    <2>1. DeadSessions /\ Supplies({}, {}) /\ Finish(c)
      BY <1>2, DeadSame DEF RevokeRole, Supplies
    <2> QED
      BY <2>1, FinishTold DEF Finish
  <1>3. CASE ProvisionUser(c) \/ Reactivate(c)
    <2>1. u \in Users
      BY <1>3, Kinds, CallUsers DEF Typed, ProvisionUser, Reactivate, Serving, At, AccountOps
    <2>2. \E a : account' = [account EXCEPT ![u] = a]
      <3>1. CASE ProvisionUser(c)
        BY <3>1 DEF ProvisionUser
      <3>2. CASE Reactivate(c)
        <4>1. account' = [account EXCEPT ![u] = [account[u] EXCEPT !.active = account[u].exists]]
          BY <2>1, <3>2 DEF Reactivate, Typed, RowsOK
        <4> QED
          BY <4>1
      <3> QED
        BY <1>3, <3>1, <3>2
    <2>3. Supplies({u}, {})
      BY <1>3, <2>1, <2>2, AccountSupplies DEF ProvisionUser, Reactivate
    <2>4. DeadSessions
      BY <1>3, DeadSame DEF ProvisionUser, Reactivate
    <2> QED
      BY <1>3, <2>3, <2>4, FinishTold DEF ProvisionUser, Reactivate
  <1>4. CASE Grant(c)
    <2> DEFINE pairs == {<<u, request[c].call.role>>}
    <2>1. DeadSessions /\ Supplies({}, pairs) /\ FinishSupplying(c, {}, pairs)
      BY <1>4, DeadSame DEF Grant, Supplies
    <2> QED
      BY <2>1, FinishTold
  <1>5. CASE CreateLeagueWithSelfGrant(c)
    <2>1. PICK l \in Leagues \ leagues :
            /\ grants' = grants \cup {<<request[c].who, LeagueAdmin(l)>>}
            /\ FinishSupplying(c, {}, {<<request[c].who, LeagueAdmin(l)>>})
      BY <1>5 DEF CreateLeagueWithSelfGrant
    <2>2. DeadSessions /\ Supplies({}, {<<request[c].who, LeagueAdmin(l)>>})
      BY <1>5, <2>1, DeadSame DEF CreateLeagueWithSelfGrant, Supplies
    <2> QED
      BY <2>1, <2>2, FinishTold
  <1>6. CASE RevokeAllSessions(c)
    BY <1>6, DeadIsGone, SameSupplies, HandlerGoesOn
    DEF RevokeAllSessions, NextStep, Proceeds, Later, Handling
  <1>7. CASE RevokeActiveTokens(c)
    BY <1>7, DeadSame, SameSupplies, HandlerGoesOn
    DEF RevokeActiveTokens, Proceeds, Serving, Handling
  <1> QED
    BY <1>1, <1>2, <1>3, <1>4, <1>5, <1>6, <1>7, DeactivateTold DEF HandlerStep

\* The steps that are nobody's request.
LEMMA ElsewhereTold ==
    ASSUME Typed, HistoryTrue, KeysStayRevoked,
           UNCHANGED vars \/ Tick \/ (\E s \in SessionIds : Logout(s))
           \/ (\E t \in TokenIds, p \in Passwords : CompletePasswordSetup(t, p))
    PROVE  HistoryTrue'
  <1>1. UNCHANGED <<request, shut>>
    BY DEF vars, Tick, Logout, CompletePasswordSetup
  <1>2. DeadSessions
    <2>1. CASE \E s \in SessionIds : Logout(s)
      BY <2>1, DeadIsGone DEF Logout
    <2>2. CASE UNCHANGED vars \/ \E t \in TokenIds, p \in Passwords : CompletePasswordSetup(t, p)
      BY <2>2, DeadSame DEF vars, rowVars, CompletePasswordSetup
    <2> QED
      BY <2>1, <2>2, DeadTick
  <1>3. Supplies({}, {})
    <2>1. CASE \E t \in TokenIds, p \in Passwords : CompletePasswordSetup(t, p)
      <3>1. PICK t \in TokenIds, p \in Passwords : CompletePasswordSetup(t, p)
        BY <2>1
      <3>2. setupTokens[t].user \in Users
        BY <3>1 DEF CompletePasswordSetup, LiveToken, Typed, RowsOK, SetupToken
      <3> QED
        BY <3>1, <3>2, PasswordSupplies DEF CompletePasswordSetup
    <2>2. CASE ~\E t \in TokenIds, p \in Passwords : CompletePasswordSetup(t, p)
      BY <2>2, SameSupplies DEF vars, rowVars, Tick, Logout
    <2> QED
      BY <2>1, <2>2
  <1>4. ASSUME NEW d \in Clients PROVE Lacks(request[d], shut[d])'
    BY <1>1, <1>2, <1>3, ToldSame DEF DeadSessions, DeadStays
  <1> QED
    BY <1>4 DEF HistoryTrue

LEMMA CreateApplyUserTold ==
    ASSUME Typed, HistoryTrue, KeysStayRevoked, NEW u \in Users, NEW role,
           CreateApplyUser(u, role)
    PROVE  HistoryTrue'
  <1> DEFINE given == IF role = "system_admin" THEN {<<u, SystemAdmin>>} ELSE {}
  <1>1. /\ account' = [account EXCEPT ![u] = KeyAccount] /\ grants' = grants \cup given
        /\ shut' = Supplied({u}, given) /\ UNCHANGED <<now, sessions, request>>
    BY DEF CreateApplyUser
  <1> HIDE DEF given
  <1>2. Supplies({u}, given)
    BY <1>1 DEF Supplies, Typed, RowsOK
  <1>3. DeadSessions
    BY <1>1, DeadSame
  <1>4. ASSUME NEW d \in Clients PROVE Lacks(request[d], shut[d])'
    <2>1. shut'[d] = Supplied({u}, given)[d] /\ request'[d] = request[d]
      BY <1>1
    <2> QED
      BY <1>2, <1>3, <2>1, SuppliedTyped, Told DEF DeadSessions, DeadStays
  <1> QED
    BY <1>4 DEF HistoryTrue

LEMMA HistoryNext == Typed /\ HistoryTrue /\ KeysStayRevoked /\ [Next]_vars => HistoryTrue'
  <1> SUFFICES ASSUME Typed, HistoryTrue, KeysStayRevoked, [Next]_vars PROVE HistoryTrue'
    OBVIOUS
  <1>1. ASSUME NEW c \in Clients, Abandon(c) PROVE HistoryTrue'
    <2>1. DeadSessions /\ Supplies({}, {}) /\ Finish(c)
      BY <1>1, DeadSame, SameSupplies DEF Abandon, rowVars
    <2> QED
      BY <2>1, FinishTold DEF Finish
  <1> QED
    BY <1>1, LoginTold, CallTold, HandlerTold, ElsewhereTold, CreateApplyUserTold DEF Next

\* No interleaving of logins, revocations and calls serves a call whose holder
\* was inactive, whose credential was bad or who had no accepted assignment all
\* the while since it began.
THEOREM EntitledCorrect == Spec => []ServedIsEntitled
  <1>1. Init => HistoryTrue
    BY DEF Init, HistoryTrue, Lacks, Idle, Open
  <1>2. HistoryTrue => ServedIsEntitled
    BY DEF HistoryTrue, Lacks, ServedIsEntitled, Handling
  <1>3. Typed /\ [Next]_vars => KeysStayRevoked
    BY RevokedStep
  <1> QED
    BY <1>1, <1>2, <1>3, HistoryNext, AlwaysTyped, PTL DEF Spec

================================================================================
