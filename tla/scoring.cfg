CONSTANTS
    h1 = h1
    h2 = h2
    a1 = a1
    a2 = a2
    home = home
    away = away
    third = third
    HomePlayers = {h1, h2}
    AwayPlayers = {a1, a2}
    Teams = {home, away, third}
    HomeTeam = home
    AwayTeam = away
    NoRule = NoRule
    Rounds = {1}
    Scores = {0, 3, 5, 8, 10}
    HandicapsOf <- MCHandicapsOf
    RuleTexts <- MCRuleTexts
    Submissions <- PageEdits
    HandResults <- MCHandResults
    OtherMatches <- MCOtherMatches
SPECIFICATION Spec
INVARIANTS
    TypeOK
    StandingsShowPlay
PROPERTY
    DecisionsStand
