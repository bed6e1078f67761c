\* One administrator plans byes for the drafts of three new teams.
SPECIFICATION Spec
CONSTANTS
    t1 = t1
    p1 = p1
    Teams = {t1, t2, t3}
    PriorTeams = {}
    Players = {}
    PriorRoster <- NoPriorRoster
    PriorCaptain <- NoPriorCaptain
    ByeWeeks = {0, 1}
    Clients = {c1}
    NoTeam = NoTeam
    NoPlayer = NoPlayer
    NoBye = NoBye
    MaxByes = 2
    MaxPlayed = 0
SYMMETRY NewTeams
INVARIANTS
    OneByeAWeek
