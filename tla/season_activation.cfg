\* One administrator sets up and activates a season of two or three teams, among results.
SPECIFICATION Spec
CONSTANTS
    t1 = t1
    p1 = p1
    Teams = {t1, t2, t3}
    PriorTeams = {t1}
    Players = {p1, p2}
    PriorRoster <- OnePriorRoster
    PriorCaptain <- OnePriorCaptain
    ByeWeeks = {}
    Clients = {c1}
    NoTeam = NoTeam
    NoPlayer = NoPlayer
    NoBye = NoBye
    MaxByes = 0
    MaxPlayed = 1
INVARIANTS
    OneActiveSeason
    ActivatedTeamsReady
PROPERTIES
    ActivatesFreshSchedule
    MisfitStaysMarked
