----------------------------- MODULE Authorization -----------------------------
(***************************************************************************)
(* Who may do what: the identity a credential resolves to, the policy      *)
(* auth.Authorize and the league a request is about.  Pure operators; the  *)
(* requests that evaluate them are in Accounts.                            *)
(***************************************************************************)
EXTENDS Integers, FiniteSets

CONSTANTS
    Leagues,
    NoLeague,   \* no league: a nil scope, or the league of an unassigned player
    Players,
    NoPlayer    \* users.player_id IS NULL

ASSUME LeagueAssumption == NoLeague \notin Leagues
ASSUME LinkAssumption == NoPlayer \notin Players

(***************************************************************************)
(* Role assignments and identities.  The CHECK constraint of               *)
(* role_assignments leaves the global role and one role per league.        *)
(***************************************************************************)
SystemAdmin == [role |-> "system_admin", league |-> NoLeague]
LeagueAdmin(l) == [role |-> "league_admin", league |-> l]
Assignments == {SystemAdmin} \cup {LeagueAdmin(l) : l \in Leagues}

Identities == [active : BOOLEAN, player : Players \cup {NoPlayer},
               assignments : SUBSET Assignments, method : {"session", "api_key"}]

IsSystemAdmin(id) == SystemAdmin \in id.assignments
IsLeagueAdminFor(id, l) == LeagueAdmin(l) \in id.assignments
IsAnyLeagueAdmin(id) == \E l \in Leagues : IsLeagueAdminFor(id, l)
IsPlayer(id) == id.player # NoPlayer

(***************************************************************************)
(* The policy.                                                             *)
(***************************************************************************)
SystemActions == {"system_user_admin", "backup"}
LeagueActions ==
    {"league_administer", "season_setup", "roster_mutate", "schedule_mutate",
     "lineup_mutate", "match_score_mutate", "match_approval",
     "match_approval_read", "week_close_reopen", "finance_read",
     "finance_write", "handicap_apply"}
\* A player's own overview and another's: both are the league administrator's too.
OverviewActions == {"player_overview_own", "player_overview_other"}
Actions == SystemActions \cup LeagueActions \cup OverviewActions
             \cup {"league_create", "match_team_approval"}

Scope(l, p) == [league |-> l, player |-> p]

\* Team approval is decided before the shortcut for system administrators.
Authorize(id, action, scope) ==
    /\ id.active
    /\ IF action = "match_team_approval"
       THEN id.method = "session" /\ IsPlayer(id)
       ELSE \/ IsSystemAdmin(id)
            \/ action = "league_create" /\ IsAnyLeagueAdmin(id)
            \/ /\ action \in LeagueActions \cup OverviewActions
               /\ scope.league # NoLeague
               /\ IsLeagueAdminFor(id, scope.league)
            \/ /\ action = "player_overview_own"
               /\ IsPlayer(id) /\ id.player = scope.player

\* A score is written by an administrator of the match's league or, in a
\* session, by a linked player who is eligible for a side; so are the drafts
\* read.
AuthorizePlayable(id, action, league, eligible) ==
    \/ Authorize(id, action, Scope(league, NoPlayer))
    \/ id.method = "session" /\ id.player \in eligible

(***************************************************************************)
(* The league a request on a player is authorized against, NoLeague when   *)
(* only a system administrator may make it: editing a player whose team    *)
(* would change league or be none, or merging players of two leagues or of *)
(* none.                                                                   *)
(***************************************************************************)
UpdatePlayerScope(from, to) == IF to = from THEN from ELSE NoLeague
MergePlayerScope(source, target) == IF source = target THEN source ELSE NoLeague
=============================================================================
