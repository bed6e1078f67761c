------------------------------- MODULE Accounts -------------------------------
(***************************************************************************)
(* Accounts, their credentials and the requests made with them:            *)
(* SessionService over its stores, the personal API keys, the role         *)
(* assignments, and the middleware every guarded route goes through.       *)
(*                                                                         *)
(* A request of a client does one statement or transaction per step, or    *)
(* one read it acts on later; requests of other clients and the clock move *)
(* in between.  Tokens, keys and cookies are random and never repeat, so a *)
(* token is named by the row it belongs to.                                *)
(***************************************************************************)
EXTENDS Authorization

CONSTANTS
    Users,
    Founder,          \* the first system administrator, holder of an API key
    PlayerOf,         \* users.player_id
    Eligible,         \* players eligible for a side of the match in question
    Passwords,
    NoPassword,       \* users.password_hash IS NULL
    SessionIds,       \* bound of the model: sessions ever created
    TokenIds,         \* bound of the model: setup tokens ever issued
    Clients,          \* requests in flight at once
    Unused, Deleted,  \* a row not yet inserted, and one that is gone
    NoUser, NoSession,
    IdleTimeout, AbsoluteLifetime, SetupTokenTTL,
    OldLeagues,       \* leagues there are at the start
    Managed,          \* bound of the model: accounts that are administered
    Horizon,          \* bound of the model: the last moment
    MaxRequests       \* bound of the model: requests made

ASSUME UserAssumption ==
    /\ Founder \in Users /\ NoUser \notin Users /\ Managed \subseteq Users
    /\ PlayerOf \in [Users -> Players \cup {NoPlayer}]
    /\ PlayerOf[Founder] = NoPlayer
    /\ Eligible \subseteq Players
ASSUME CredentialAssumption ==
    /\ NoPassword \notin Passwords
    /\ NoSession \notin SessionIds
ASSUME LifetimeAssumption ==
    /\ IdleTimeout \in Nat /\ AbsoluteLifetime \in Nat /\ SetupTokenTTL \in Nat
    /\ Horizon \in Nat /\ MaxRequests \in Nat
ASSUME OldLeaguesAssumption == OldLeagues \subseteq Leagues

VARIABLES
    now,
    account,      \* the row in users, with the password its hash is of
    sessions,     \* the row of each id in sessions
    setupTokens,  \* the row of each id in password_setup_tokens
    apiKey,       \* the key of each user in user_api_keys
    grants,       \* role_assignments
    leagues,      \* leagues
    request,      \* the unfinished request of each client
    started,      \* requests made so far
    shut,         \* history: what a call's credentials lacked ever since it began
    overlapped    \* history: accounts whose last issue of a setup token met another

rowVars == <<account, sessions, setupTokens, apiKey, grants, leagues>>
vars == <<now, rowVars, request, started, shut, overlapped>>

Account == [exists : BOOLEAN, active : BOOLEAN, email : BOOLEAN,
            password : Passwords \cup {NoPassword}, weak : BOOLEAN]
NoAccount == [exists |-> FALSE, active |-> FALSE, email |-> FALSE,
              password |-> NoPassword, weak |-> FALSE]
\* An account made with an API key has no email, so it cannot log in.
KeyAccount == [NoAccount EXCEPT !.exists = TRUE, !.active = TRUE]
EmailAccount == [KeyAccount EXCEPT !.email = TRUE]
\* weak: hashed below the parameters the server now asks for.
WithPassword(p, weak) == [EmailAccount EXCEPT !.password = p, !.weak = weak]

Session == [user : Users, created : Nat, expires : Nat, revoked : BOOLEAN]
SetupToken == [user : Users, expires : Nat, state : {"active", "used", "revoked"}]

ASSUME RowAssumption ==
    /\ Unused # Deleted
    /\ Unused \notin Session /\ Deleted \notin Session /\ Unused \notin SetupToken

(***************************************************************************)
(* The guarded routes, and what each asks of auth.Authorize.               *)
(***************************************************************************)
AccountOps == {"provision", "deactivate", "reactivate", "issueToken", "revokeKeys"}
RoleOps == {"grant", "revokeRole"}
Calls ==
    [op : AccountOps, user : Managed]
    \cup [op : RoleOps, user : Managed, role : Assignments]
    \cup [op : {"createLeague", "approveSide"}]
    \cup [op : {"administer", "scoreWrite"}, league : Leagues]

Administrative(call) == call.op \in AccountOps \cup RoleOps \cup {"createLeague"}

Allowed(id, call) ==
    LET May(action, league) == Authorize(id, action, Scope(league, NoPlayer))
    IN  \/ call.op = "createLeague" /\ May("league_create", NoLeague)
        \/ call.op = "administer" /\ May("league_administer", call.league)
        \/ /\ call.op = "scoreWrite"
           /\ AuthorizePlayable(id, "match_score_mutate", call.league, Eligible)
        \/ call.op = "approveSide" /\ May("match_team_approval", NoLeague)
        \/ call.op \in AccountOps \cup RoleOps /\ May("system_user_admin", NoLeague)

(***************************************************************************)
(* Requests.                                                               *)
(***************************************************************************)
Idle == [op |-> "idle"]
Login == [op : {"login"}, step : {"account", "rehash", "create", "cleanup"},
          user : Users, password : Passwords]
Handling == {"serve", "revokeSessions", "revokeKeys", "createToken"}
Call == [op : {"call"}, step : {"cookie", "user", "touch", "key", "roles"} \cup Handling,
         call : Calls, session : SessionIds \cup {NoSession}, key : Users \cup {NoUser},
         who : Users \cup {NoUser}, method : {"session", "api_key"}, at : Nat]
Request == {Idle} \cup Login \cup Call

Continue(c, r) == request' = [request EXCEPT ![c] = r]
At(c, op, step) == request[c].op = op /\ request[c].step = step
NextStep(c, step) ==
    /\ Continue(c, [request[c] EXCEPT !.step = step])
    /\ UNCHANGED <<started, shut, overlapped>>
\* A call that reached the handler of op, or is at a later step of it.
Serving(c, op) == At(c, "call", "serve") /\ request[c].call.op = op
Later(c, step) == At(c, "call", step)

Present(id) == id \notin {Unused, Deleted}
LiveRow(row) ==
    /\ Present(row)
    /\ ~row.revoked
    /\ now <= row.expires
    /\ now <= row.created + AbsoluteLifetime
LiveSession(s) == LiveRow(sessions[s])
LiveToken(t) == setupTokens[t] # Unused /\ setupTokens[t].state = "active"

Open == [inactive |-> {}, ungranted |-> {}, session |-> FALSE, key |-> FALSE]
Holders(s, u) ==
    ({u} \cap Users) \cup {v \in Users : /\ s # NoSession /\ Present(sessions[s])
                                       /\ sessions[s].user = v}
\* What a call that presents the session s and the key of u lacks as it begins.
Lacking(s, u) ==
    [inactive |-> {v \in Holders(s, u) : ~account[v].active},
     ungranted |-> (Holders(s, u) \X Assignments) \ grants,
     session |-> s # NoSession /\ ~LiveSession(s),
     key |-> u # NoUser /\ apiKey[u] # "active"]
\* Accounts that become active and assignments that are made end a lack.
Supplied(active, pairs) ==
    [c \in Clients |-> [shut[c] EXCEPT !.inactive = @ \ active, !.ungranted = @ \ pairs]]

FinishSupplying(c, active, pairs) ==
    /\ Continue(c, Idle)
    /\ shut' = [Supplied(active, pairs) EXCEPT ![c] = Open]
    /\ UNCHANGED <<started, overlapped>>
Finish(c) == FinishSupplying(c, {}, {})

Init ==
    /\ now = 0
    /\ account \in [Users -> {KeyAccount, NoAccount}
                       \cup {WithPassword(p, weak) : p \in Passwords, weak \in BOOLEAN}]
    /\ \A u \in Users : account[u] = KeyAccount <=> u = Founder
    /\ sessions = [s \in SessionIds |-> Unused]
    /\ setupTokens = [t \in TokenIds |-> Unused]
    /\ apiKey = [u \in Users |-> IF u = Founder THEN "active" ELSE "none"]
    /\ \E admins \in SUBSET {u \in Users \ {Founder} : account[u].exists} :
         grants = {<<Founder, SystemAdmin>>}
                     \cup (admins \X {LeagueAdmin(l) : l \in OldLeagues})
    /\ leagues = OldLeagues
    /\ request = [c \in Clients |-> Idle]
    /\ started = 0
    /\ shut = [c \in Clients |-> Open]
    /\ overlapped = {}

Tick ==
    /\ now < Horizon /\ now' = now + 1
    /\ UNCHANGED <<rowVars, request, started, shut, overlapped>>

\* A request that is refused, loses its client or dies with the server; every
\* step is one transaction, so nothing but the request is lost.
Abandon(c) == request[c] # Idle /\ Finish(c) /\ UNCHANGED <<now, rowVars>>

-----------------------------------------------------------------------------
(* Logging in and out, and setting a password.                              *)

\* An email that no account has is refused at once.
BeginLogin(c, u, p) ==
    /\ request[c] = Idle
    /\ started < MaxRequests
    /\ account[u].email
    /\ started' = started + 1
    /\ Continue(c, [op |-> "login", step |-> "account", user |-> u, password |-> p])
    /\ UNCHANGED <<now, rowVars, shut, overlapped>>

\* GetByEmail and what Login asks of the row.
CheckAccount(c) ==
    LET a == account[request[c].user] IN
    /\ At(c, "login", "account")
    /\ a.active
    /\ a.password = request[c].password
    /\ NextStep(c, IF a.weak THEN "rehash" ELSE "create")
    /\ UNCHANGED <<now, rowVars>>

\* SetPassword, from the row that was read; its error is ignored.
Rehash(c) ==
    /\ At(c, "login", "rehash")
    /\ \/ account' = [account EXCEPT ![request[c].user].password = request[c].password,
                                     ![request[c].user].weak = FALSE]
       \/ UNCHANGED account
    /\ NextStep(c, "create")
    /\ UNCHANGED <<now, sessions, setupTokens, apiKey, grants, leagues>>

CreateSession(c) ==
    /\ At(c, "login", "create")
    /\ \E s \in SessionIds :
         /\ sessions[s] = Unused
         /\ sessions' = [sessions EXCEPT ![s] =
                [user |-> request[c].user, created |-> now,
                 expires |-> now + IdleTimeout, revoked |-> FALSE]]
    /\ NextStep(c, "cleanup")
    /\ UNCHANGED <<now, account, setupTokens, apiKey, grants, leagues>>

DeleteExpiredForUser(c) ==
    LET Spent(s) == /\ Present(sessions[s])
                    /\ sessions[s].user = request[c].user
                    /\ sessions[s].expires < now \/ sessions[s].revoked
    IN  /\ At(c, "login", "cleanup")
        /\ sessions' = [s \in SessionIds |-> IF Spent(s) THEN Deleted ELSE sessions[s]]
        /\ Finish(c)
        /\ UNCHANGED <<now, account, setupTokens, apiKey, grants, leagues>>

Logout(s) ==
    /\ Present(sessions[s])
    /\ sessions' = [sessions EXCEPT ![s].revoked = TRUE]
    /\ UNCHANGED <<now, account, setupTokens, apiKey, grants, leagues, request, started, shut,
                   overlapped>>

\* ConsumeAndSetPassword: one transaction.
CompletePasswordSetup(t, p) ==
    /\ LiveToken(t)
    /\ now <= setupTokens[t].expires
    /\ account' = [account EXCEPT ![setupTokens[t].user].password = p,
                                  ![setupTokens[t].user].weak = FALSE]
    /\ setupTokens' = [setupTokens EXCEPT ![t].state = "used"]
    /\ UNCHANGED <<now, sessions, apiKey, grants, leagues, request, started, shut, overlapped>>

\* POST /api/users, which the static token also opens: an account with an API
\* key, and the global assignment for a system administrator.
CreateApplyUser(u, role) ==
    LET given == IF role = "system_admin" THEN {<<u, SystemAdmin>>} ELSE {} IN
    /\ ~account[u].exists
    /\ (role = "player") <=> (PlayerOf[u] # NoPlayer)
    /\ account' = [account EXCEPT ![u] = KeyAccount]
    /\ apiKey' = [apiKey EXCEPT ![u] = "active"]
    /\ grants' = grants \cup given
    /\ shut' = Supplied({u}, given)
    /\ UNCHANGED <<now, sessions, setupTokens, leagues, request, started, overlapped>>

-----------------------------------------------------------------------------
(* A guarded call: who makes it.                                            *)

\* A call presents a session cookie, an API key or both.
BeginCall(c, call, s, u) ==
    /\ request[c] = Idle
    /\ started < MaxRequests
    /\ s # NoSession \/ u # NoUser
    /\ s # NoSession => sessions[s] # Unused
    /\ u # NoUser => apiKey[u] # "none"
    /\ Continue(c, [op |-> "call", step |-> IF s = NoSession THEN "key" ELSE "cookie",
                    call |-> call, session |-> s, key |-> u,
                    who |-> NoUser, method |-> "api_key", at |-> 0])
    /\ shut' = [shut EXCEPT ![c] = Lacking(s, u)]
    /\ started' = started + 1
    /\ UNCHANGED <<now, rowVars, overlapped>>

\* GetByTokenHash: a session that is not live leaves the call its key.
ReadSession(c) ==
    LET s == request[c].session IN
    /\ At(c, "call", "cookie")
    /\ IF LiveSession(s)
       THEN Continue(c, [request[c] EXCEPT !.step = "user", !.who = sessions[s].user,
                                           !.method = "session", !.at = now])
       ELSE Continue(c, [request[c] EXCEPT !.step = "key"])
    /\ UNCHANGED <<now, rowVars, started, shut, overlapped>>

\* GetByID: nor does one whose account is inactive.
CheckUser(c) ==
    /\ At(c, "call", "user")
    /\ IF account[request[c].who].active
       THEN NextStep(c, "touch")
       ELSE /\ Continue(c, [request[c] EXCEPT !.step = "key", !.who = NoUser,
                                              !.method = "api_key"])
            /\ UNCHANGED <<started, shut, overlapped>>
    /\ UNCHANGED <<now, rowVars>>

Capped(at, created) ==
    IF at + IdleTimeout <= created + AbsoluteLifetime
    THEN at + IdleTimeout ELSE created + AbsoluteLifetime

\* Seeded fault: the revocation is written back as it was read.
WriteBackSession(c) ==
    LET s == request[c].session IN
    /\ At(c, "call", "touch")
    /\ sessions' = [sessions EXCEPT ![s] =
           IF Present(@) THEN [@ EXCEPT !.revoked = FALSE] ELSE @]
    /\ NextStep(c, "roles")
    /\ UNCHANGED <<now, account, setupTokens, apiKey, grants, leagues>>
\* The idle window slides, within the absolute one; an error is ignored.  A
\* session that ran out since it was read may be live again for other calls.
Touch(c) ==
    LET s == request[c].session
        Presents(d) == request[d].op = "call" /\ request[d].session = s
    IN
    /\ At(c, "call", "touch")
    /\ \/ /\ Present(sessions[s])
          /\ sessions' = [sessions EXCEPT ![s].expires =
                                       Capped(request[c].at, sessions[s].created)]
       \/ UNCHANGED sessions
    /\ shut' = [d \in Clients |->
           [shut[d] EXCEPT !.session = @ /\ ~(Presents(d) /\ LiveRow(sessions'[s]))]]
    /\ Continue(c, [request[c] EXCEPT !.step = "roles"])
    /\ UNCHANGED <<started, overlapped>>
    /\ UNCHANGED <<now, account, setupTokens, apiKey, grants, leagues>>

\* Seeded fault: a revoked key resolves.
ResolveAnyKey(c) ==
    LET u == request[c].key IN
    /\ At(c, "call", "key")
    /\ u # NoUser
    /\ account[u].active
    /\ Continue(c, [request[c] EXCEPT !.step = "roles", !.who = u, !.method = "api_key"])
    /\ UNCHANGED <<now, rowVars, started, shut, overlapped>>
ResolveApplyUserByAPIKey(c) ==
    LET u == request[c].key IN
    /\ At(c, "call", "key")
    /\ u # NoUser
    /\ apiKey[u] = "active" /\ account[u].active
    /\ Continue(c, [request[c] EXCEPT !.step = "roles", !.who = u, !.method = "api_key"])
    /\ UNCHANGED <<now, rowVars, started, shut, overlapped>>

\* ListForUser and the policy; the account was active when it was read.  The
\* handler gets the identity and not the credentials.
IdentityOf(r) ==
    [active |-> TRUE, player |-> PlayerOf[r.who], method |-> r.method,
     assignments |-> {a \in Assignments : <<r.who, a>> \in grants}]
AuthorizeCall(c) ==
    /\ At(c, "call", "roles")
    /\ Allowed(IdentityOf(request[c]), request[c].call)
    /\ Continue(c, [request[c] EXCEPT !.step = "serve", !.session = NoSession,
                                      !.key = NoUser, !.at = 0])
    /\ UNCHANGED <<now, rowVars, started, shut, overlapped>>

-----------------------------------------------------------------------------
(* What the handlers do.                                                    *)

\* Reading routes, and those whose writes are other modules'.
ServeElsewhere(c) ==
    /\ \E op \in {"administer", "scoreWrite", "approveSide"} : Serving(c, op)
    /\ Finish(c)
    /\ UNCHANGED <<now, rowVars>>

ProvisionUser(c) ==
    LET u == request[c].call.user IN
    /\ Serving(c, "provision")
    /\ ~account[u].exists
    /\ account' = [account EXCEPT ![u] = EmailAccount]
    /\ FinishSupplying(c, {u}, {})
    /\ UNCHANGED <<now, sessions, setupTokens, apiKey, grants, leagues>>

\* Deactivate is three statements.
Deactivate(c) ==
    LET u == request[c].call.user IN
    /\ Serving(c, "deactivate")
    /\ account' = [account EXCEPT ![u].active = FALSE]
    /\ NextStep(c, "revokeSessions")
    /\ UNCHANGED <<now, sessions, setupTokens, apiKey, grants, leagues>>

RevokeSessionsOf(u) ==
    [s \in SessionIds |->
        IF Present(sessions[s]) /\ sessions[s].user = u
        THEN [sessions[s] EXCEPT !.revoked = TRUE] ELSE sessions[s]]
RevokeAllSessions(c) ==
    /\ Later(c, "revokeSessions")
    /\ sessions' = RevokeSessionsOf(request[c].call.user)
    /\ NextStep(c, "revokeKeys")
    /\ UNCHANGED <<now, account, setupTokens, apiKey, grants, leagues>>

\* Last of Deactivate, all of the route that revokes the keys.
RevokeAllKeys(c) ==
    /\ Later(c, "revokeKeys") \/ Serving(c, "revokeKeys")
    /\ apiKey' = [apiKey EXCEPT ![request[c].call.user] =
                                   IF @ = "active" THEN "revoked" ELSE @]
    /\ Finish(c)
    /\ UNCHANGED <<now, account, sessions, setupTokens, grants, leagues>>

Reactivate(c) ==
    LET u == request[c].call.user IN
    /\ Serving(c, "reactivate")
    /\ account' = [account EXCEPT ![u].active = account[u].exists]
    /\ FinishSupplying(c, {u}, {})
    /\ UNCHANGED <<now, sessions, setupTokens, apiKey, grants, leagues>>

\* The first statement of an issue is done, the second is not.
Issuing(c, u) == Later(c, "createToken") /\ request[c].call.user = u
\* An issue for u that begins alone ends what an earlier overlap left.
Overlapping(c, u) ==
    IF \E d \in Clients \ {c} : Issuing(d, u) THEN overlapped \cup {u} ELSE overlapped \ {u}

\* Seeded fault: only the tokens that have run out go.
RevokeOldTokens(c) ==
    LET u == request[c].call.user IN
    /\ Serving(c, "issueToken")
    /\ setupTokens' = [t \in TokenIds |->
           IF LiveToken(t) /\ setupTokens[t].expires < now
           THEN [setupTokens[t] EXCEPT !.state = "revoked"] ELSE setupTokens[t]]
    /\ overlapped' = Overlapping(c, u)
    /\ Continue(c, [request[c] EXCEPT !.step = "createToken"])
    /\ UNCHANGED <<now, account, sessions, apiKey, grants, leagues, started, shut>>
\* IssuePasswordSetupToken: the other active tokens go, then the new one comes.
RevokeActiveTokens(c) ==
    LET u == request[c].call.user IN
    /\ Serving(c, "issueToken")
    /\ setupTokens' = [t \in TokenIds |->
           IF LiveToken(t) /\ setupTokens[t].user = u
           THEN [setupTokens[t] EXCEPT !.state = "revoked"] ELSE setupTokens[t]]
    /\ overlapped' = Overlapping(c, u)
    /\ Continue(c, [request[c] EXCEPT !.step = "createToken"])
    /\ UNCHANGED <<now, account, sessions, apiKey, grants, leagues, started, shut>>

CreateToken(c) ==
    /\ Later(c, "createToken")
    /\ account[request[c].call.user].exists
    /\ \E t \in TokenIds :
         /\ setupTokens[t] = Unused
         /\ setupTokens' = [setupTokens EXCEPT ![t] =
                [user |-> request[c].call.user, expires |-> now + SetupTokenTTL,
                 state |-> "active"]]
    /\ Finish(c)
    /\ UNCHANGED <<now, account, sessions, apiKey, grants, leagues>>

\* The keys of role_assignments ask for the user and the league.
Grant(c) ==
    LET call == request[c].call IN
    /\ Serving(c, "grant")
    /\ account[call.user].exists
    /\ call.role # SystemAdmin => call.role.league \in leagues
    /\ grants' = grants \cup {<<call.user, call.role>>}
    /\ FinishSupplying(c, {}, {<<call.user, call.role>>})
    /\ UNCHANGED <<now, account, sessions, setupTokens, apiKey, leagues>>

RevokeRole(c) ==
    /\ Serving(c, "revokeRole")
    /\ grants' = grants \ {<<request[c].call.user, request[c].call.role>>}
    /\ Finish(c)
    /\ UNCHANGED <<now, account, sessions, setupTokens, apiKey, leagues>>

\* The league and its creator's assignment are one transaction.
CreateLeagueWithSelfGrant(c) ==
    /\ Serving(c, "createLeague")
    /\ \E l \in Leagues \ leagues :
         /\ leagues' = leagues \cup {l}
         /\ grants' = grants \cup {<<request[c].who, LeagueAdmin(l)>>}
         /\ FinishSupplying(c, {}, {<<request[c].who, LeagueAdmin(l)>>})
    /\ UNCHANGED <<now, account, sessions, setupTokens, apiKey>>

-----------------------------------------------------------------------------
LoginStep(c) ==
    \/ \E u \in Users, p \in Passwords : BeginLogin(c, u, p)
    \/ CheckAccount(c)
    \/ Rehash(c)
    \/ CreateSession(c)
    \/ DeleteExpiredForUser(c)

CallStep(c) ==
    \/ \E call \in Calls, s \in SessionIds \cup {NoSession}, u \in Users \cup {NoUser} :
         BeginCall(c, call, s, u)
    \/ ReadSession(c)
    \/ CheckUser(c)
    \/ Touch(c)
    \/ ResolveApplyUserByAPIKey(c)
    \/ AuthorizeCall(c)

HandlerStep(c) ==
    \/ ServeElsewhere(c)
    \/ ProvisionUser(c)
    \/ Deactivate(c)
    \/ RevokeAllSessions(c)
    \/ RevokeAllKeys(c)
    \/ Reactivate(c)
    \/ RevokeActiveTokens(c)
    \/ CreateToken(c)
    \/ Grant(c)
    \/ RevokeRole(c)
    \/ CreateLeagueWithSelfGrant(c)

Next ==
    \/ Tick
    \/ \E c \in Clients : Abandon(c) \/ LoginStep(c) \/ CallStep(c) \/ HandlerStep(c)
    \/ \E s \in SessionIds : Logout(s)
    \/ \E t \in TokenIds, p \in Passwords : CompletePasswordSetup(t, p)
    \/ \E u \in Users, role \in {"system_admin", "league_admin", "player"} :
         CreateApplyUser(u, role)

Spec == Init /\ [][Next]_vars

-----------------------------------------------------------------------------
\* The shape of every variable; keys, sessions, tokens and assignments belong
\* to accounts that exist, assignments to leagues that exist.
TypeOK ==
    /\ now \in 0..Horizon /\ started \in 0..MaxRequests
    /\ account \in [Users -> Account]
    /\ sessions \in [SessionIds -> Session \cup {Unused, Deleted}]
    /\ setupTokens \in [TokenIds -> SetupToken \cup {Unused}]
    /\ apiKey \in [Users -> {"none", "active", "revoked"}]
    /\ grants \subseteq Users \X Assignments
    /\ leagues \subseteq Leagues
    /\ request \in [Clients -> Request] /\ overlapped \subseteq Users
    /\ shut \in [Clients -> [inactive : SUBSET Users,
                             ungranted : SUBSET (Users \X Assignments),
                             session : BOOLEAN, key : BOOLEAN]]
    /\ \A u \in Users : ~account[u].exists => /\ ~account[u].active
                                             /\ apiKey[u] = "none"
                                             /\ \A a \in Assignments : <<u, a>> \notin grants
    /\ \A l \in Leagues, u \in Users : <<u, LeagueAdmin(l)>> \in grants => l \in leagues

\* The assignments any one of which the policy accepts for a call.
Accepted(call) ==
    {SystemAdmin} \cup (IF call.op = "createLeague" THEN Assignments
                        ELSE IF call.op = "administer" THEN {LeagueAdmin(call.league)}
                        ELSE {})

\* A call reaches its handler only for a holder whose credential was good, who
\* was active and who had an assignment the policy accepts at some moment since
\* the call began: what a finished deactivation, logout, revocation of a key or
\* of a role took away serves no later call, however a login, a reactivation or
\* another call raced it.
ServedIsEntitled ==
    \A c \in Clients :
        LET r == request[c] IN
        r.op = "call" /\ r.step \in Handling =>
            /\ r.who \notin shut[c].inactive
            /\ r.method = "session" => ~shut[c].session
            /\ r.method = "api_key" => ~shut[c].key
            /\ Administrative(r.call) \/ r.call.op = "administer" =>
                 \E a \in Accepted(r.call) : <<r.who, a>> \notin shut[c].ungranted

\* The setup token issued last is the only one of its account that still sets a
\* password, however many administrators issue tokens, for this account or for
\* others, and whatever else they do to it in between: only two issues for one
\* account, the second begun between the two statements of the first, leave two
\* tokens, and only until the next issue that none overlaps.
OneLiveToken ==
    \A t, v \in TokenIds :
        /\ LiveToken(t) /\ LiveToken(v)
        /\ setupTokens[t].user = setupTokens[v].user /\ setupTokens[t].user \notin overlapped
        => t = v

\* What is revoked, used up or deleted stays so: a request that read a session,
\* a key or a token before it was revoked never brings it back.
RevokedForGood ==
    [][/\ \A s \in SessionIds :
             sessions[s] # Unused /\ (Present(sessions[s]) => sessions[s].revoked) =>
                 sessions'[s] # Unused /\ (Present(sessions'[s]) => sessions'[s].revoked)
       /\ \A t \in TokenIds :
             setupTokens[t] # Unused /\ ~LiveToken(t) => setupTokens'[t] = setupTokens[t]
       /\ \A u \in Users : apiKey[u] = "revoked" => apiKey'[u] = "revoked"]_vars

=============================================================================
